--------------------------- MODULE BundlerProofs ---------------------------
(* Theorems about the bundler, for any number of calls, ticks, operations  *)
(* and blocks.                                                             *)
EXTENDS Bundler, MempoolProofs, SequenceProofs

-----------------------------------------------------------------------------
(* The two mutexes                                                         *)

Thens == {"none", "create", "finish", "flushed"}
ScanShape == \E V : scan \in [Task -> [from : V, at : V, then : Thens]]

CallsExec == {t \in RpcTask : pc[t] \notin {"idle", "done"}}
CallsBundle == {t \in Task : InSection(t) \/ (pc[t] = "scan" /\ scan[t].then = "create")}

(* Each queue holds the tasks that called runExclusive and have not left   *)
(* it, once each; whoever is past the wait is at its head.                 *)
ExecInv ==
  /\ execQueue \in Seq(RpcTask) /\ Distinct(execQueue) /\ Range(execQueue) = CallsExec
  /\ \A t \in CallsExec : pc[t] # "validate" => execQueue[1] = t

BundleInv ==
  /\ bundleQueue \in Seq(Task) /\ Distinct(bundleQueue) /\ Range(bundleQueue) = CallsBundle
  /\ \A t \in Task : InSection(t) => bundleQueue[1] = t

MutexInv ==
  /\ pc \in [Task -> Waits]
  /\ ScanShape
  /\ \A t \in Task : pc[t] \in {"scan", "number", "query"} => scan[t].then # "none"
  /\ ExecInv
  /\ BundleInv
\* A step of t that leaves the place of every other task alone
Moves(t) == /\ pc'[t] \in Waits /\ pc' = [pc EXCEPT ![t] = pc'[t]]
            /\ \A q \in Task \ {t} : scan'[q] = scan[q]

LEMMA OthersStay ==
  ASSUME MutexInv, NEW t \in Task, Moves(t)
  PROVE  \A q \in Task \ {t} :
           /\ pc'[q] = pc[q] /\ (InSection(q)' <=> InSection(q))
           /\ (q \in CallsExec' <=> q \in CallsExec) /\ (q \in CallsBundle' <=> q \in CallsBundle)
  BY DEF MutexInv, Moves, InSection, CallsExec, CallsBundle

LEMMA ExecStays ==
  ASSUME MutexInv, NEW t \in Task, Moves(t), execQueue' = execQueue,
         t \in RpcTask => (t \in CallsExec' <=> t \in CallsExec),
         t \in CallsExec' /\ pc'[t] # "validate" => execQueue[1] = t
  PROVE  ExecInv'
<1>1. CallsExec' = CallsExec
  BY OthersStay DEF CallsExec, Task
<1>. QED
  BY <1>1, OthersStay DEF MutexInv, ExecInv, CallsExec, Range, Distinct, Task

LEMMA ExecEnters ==
  ASSUME MutexInv, NEW t \in RpcTask, Moves(t), pc[t] = "idle", pc'[t] = "validate",
         execQueue' = Append(execQueue, t)
  PROVE  ExecInv'
<1>1. t \notin CallsExec /\ CallsExec' = CallsExec \cup {t}
  BY OthersStay DEF CallsExec, Task
<1>2. /\ execQueue' \in Seq(RpcTask) /\ Distinct(execQueue') /\ Range(execQueue') = CallsExec'
      /\ \A y \in CallsExec : execQueue[1] = y => execQueue'[1] = y
  BY <1>1, Enqueued DEF MutexInv, ExecInv
<1>. QED
  BY <1>1, <1>2, OthersStay DEF MutexInv, ExecInv, CallsExec, Distinct, Range, Task

LEMMA ExecLeaves ==
  ASSUME MutexInv, NEW t \in RpcTask, Moves(t), pc[t] \notin {"idle", "done", "validate"}, pc'[t] = "done",
         execQueue' = Tail(execQueue)
  PROVE  ExecInv'
<1>1. t \in CallsExec /\ execQueue[1] = t /\ CallsExec' = CallsExec \ {t}
  BY OthersStay DEF CallsExec, Task, MutexInv, ExecInv
<1>2. execQueue' \in Seq(RpcTask) /\ Distinct(execQueue') /\ Range(execQueue') = CallsExec'
  BY <1>1, Dequeued DEF MutexInv, ExecInv
<1>3. \A q \in CallsExec' : pc'[q] = "validate"
  BY <1>1, OthersStay DEF MutexInv, ExecInv, CallsExec, Task
<1>. QED
  BY <1>2, <1>3 DEF ExecInv, Distinct, Range

LEMMA BundleStays ==
  ASSUME MutexInv, NEW t \in Task, Moves(t), bundleQueue' = bundleQueue,
         t \in CallsBundle' <=> t \in CallsBundle,
         InSection(t)' => bundleQueue[1] = t
  PROVE  BundleInv'
<1>1. CallsBundle' = CallsBundle
  BY OthersStay DEF CallsBundle
<1>. QED
  BY <1>1, OthersStay DEF MutexInv, BundleInv, Range, Distinct

LEMMA BundleEnters ==
  ASSUME MutexInv, NEW t \in Task, Moves(t), t \notin CallsBundle, t \in CallsBundle', ~InSection(t)',
         bundleQueue' = Append(bundleQueue, t)
  PROVE  BundleInv'
<1>1. CallsBundle' = CallsBundle \cup {t}
  BY OthersStay DEF CallsBundle
<1>2. /\ bundleQueue' \in Seq(Task) /\ Distinct(bundleQueue') /\ Range(bundleQueue') = CallsBundle'
      /\ \A y \in CallsBundle : bundleQueue[1] = y => bundleQueue'[1] = y
  BY <1>1, Enqueued DEF MutexInv, BundleInv
<1>3. \A q \in Task : InSection(q) => q \in CallsBundle
  BY DEF CallsBundle
<1>. QED
  BY <1>2, <1>3, OthersStay DEF MutexInv, BundleInv, Distinct, Range

LEMMA BundleLeaves ==
  ASSUME MutexInv, NEW t \in Task, Moves(t), InSection(t), t \notin CallsBundle', ~InSection(t)',
         bundleQueue' = Tail(bundleQueue)
  PROVE  BundleInv'
<1>1. t \in CallsBundle /\ bundleQueue[1] = t /\ CallsBundle' = CallsBundle \ {t}
  BY OthersStay DEF CallsBundle, MutexInv, BundleInv
<1>2. bundleQueue' \in Seq(Task) /\ Distinct(bundleQueue') /\ Range(bundleQueue') = CallsBundle'
  BY <1>1, Dequeued DEF MutexInv, BundleInv
<1>3. \A q \in Task : ~InSection(q)'
  BY <1>1, OthersStay DEF MutexInv, BundleInv
<1>. QED
  BY <1>2, <1>3 DEF BundleInv, Distinct, Range

LEMMA ScanReset ==
  ASSUME ScanShape, NEW t \in Task, scan' = [scan EXCEPT ![t] = NoScan]
  PROVE  ScanShape' /\ \A q \in Task \ {t} : scan'[q] = scan[q]
<1>1. PICK V : scan \in [Task -> [from : V, at : V, then : Thens]]
  BY DEF ScanShape
<1>2. scan' \in [Task -> [from : V \cup {0}, at : V \cup {0}, then : Thens]]
  BY <1>1 DEF NoScan, Thens
<1>. QED
  BY <1>1, <1>2 DEF ScanShape

LEMMA ScanThen ==
  ASSUME ScanShape, NEW t \in Task, NEW then \in Thens, scan' = [scan EXCEPT ![t].then = then]
  PROVE  ScanShape' /\ scan'[t].then = then /\ \A q \in Task \ {t} : scan'[q] = scan[q]
<1>1. PICK V : scan \in [Task -> [from : V, at : V, then : Thens]]
  BY DEF ScanShape
<1>2. scan' \in [Task -> [from : V, at : V, then : Thens]]
  BY <1>1
<1>. QED
  BY <1>1, <1>2 DEF ScanShape

LEMMA ScanQueried ==
  ASSUME ScanShape, NEW t \in Task, NEW from, Query(t, from)
  PROVE  ScanShape' /\ scan'[t].then = scan[t].then /\ \A q \in Task \ {t} : scan'[q] = scan[q]
<1>1. PICK V : scan \in [Task -> [from : V, at : V, then : Thens]]
  BY DEF ScanShape
<1>2. scan' \in [Task -> [from : V \cup {from, head}, at : V \cup {from, head}, then : Thens]]
  BY <1>1 DEF Query
<1>. QED
  BY <1>1, <1>2 DEF ScanShape, Query

LEMMA MutexOf ==
  ASSUME MutexInv, NEW t \in Task, Moves(t), ScanShape', ExecInv', BundleInv',
         pc'[t] \in {"scan", "number", "query"} => scan'[t].then # "none"
  PROVE  MutexInv'
  BY OthersStay DEF MutexInv, Moves

LEMMA Inside ==
  ASSUME MutexInv, NEW t \in Task, pc[t] \in Building, NEW to \in Building, Goto(t, to),
         UNCHANGED <<scan, lockVars>>
  PROVE  MutexInv'
<1>1. Moves(t) /\ pc'[t] = to /\ ScanShape'
  BY DEF MutexInv, Moves, Goto, Building, Waits, ScanShape
<1>2. ExecInv'
  BY <1>1, ExecStays DEF CallsExec, Building, lockVars, MutexInv, ExecInv
<1>3. InSection(t) /\ InSection(t)' /\ t \in CallsBundle /\ t \in CallsBundle'
  BY <1>1 DEF InSection, CallsBundle
<1>4. BundleInv'
  BY <1>1, <1>3, BundleStays DEF lockVars, MutexInv, BundleInv
<1>. QED
  BY <1>1, <1>2, <1>4, MutexOf DEF Building

LEMMA LoopGoes ==
  ASSUME NEW t \in Task, NEW b, NEW judged, Loop(t, b, judged)
  PROVE  \E to \in Building : Goto(t, to)
  BY DEF Loop, Building

LEMMA BuilderSteps ==
  ASSUME MutexInv, NEW t \in Task,
         \/ CreateBundle(t) \/ RevalidateFails(t) \/ RevalidateSucceeds(t) \/ BalanceOf(t)
         \/ BuildFails(t) \/ Prepare(t) \/ Send(t) \/ SendFatal(t) \/ SendBlames(t) \/ SendDrops(t)
  PROVE  MutexInv'
<1>1. CASE CreateBundle(t) \/ RevalidateFails(t)
  BY <1>1, LoopGoes, Inside DEF CreateBundle, RevalidateFails, buildUnchanged, Building
<1>2. CASE RevalidateSucceeds(t) \/ BalanceOf(t)
  <2>1. \E to \in Building : Goto(t, to)
    BY <1>2, LoopGoes DEF RevalidateSucceeds, BalanceOf, Include, Building
  <2>. QED
    BY <1>2, <2>1, Inside, ZenonT(40) DEF RevalidateSucceeds, BalanceOf, buildUnchanged, Building
<1>3. CASE BuildFails(t) \/ Prepare(t)
  BY <1>3, Inside DEF BuildFails, Prepare, buildUnchanged, Building
<1>4. CASE Send(t) \/ SendFatal(t) \/ SendBlames(t) \/ SendDrops(t)
  BY <1>4, Inside DEF Send, SendFatal, SendBlames, SendDrops, sendUnchanged, Building
<1>. QED
  BY <1>1, <1>2, <1>3, <1>4

LEMMA ScanSteps ==
  ASSUME MutexInv, NEW t \in Task,
         HandlePastEvents(t) \/ BlockNumber(t) \/ PastEvents(t) \/ PastEventsFail(t)
  PROVE  MutexInv'
<1>1. ASSUME Moves(t), ScanShape', UNCHANGED lockVars, pc[t] \in {"scan", "number", "query"},
             pc'[t] \in {"number", "query"}, scan'[t].then = scan[t].then,
             scan[t].then = "create" /\ pc[t] = "scan" => bundleQueue[1] = t
      PROVE  MutexInv'
  <2>1. ExecInv'
    BY <1>1, ExecStays DEF CallsExec, lockVars, MutexInv, ExecInv
  <2>2. /\ t \in CallsBundle' <=> t \in CallsBundle
        /\ InSection(t)' => bundleQueue[1] = t
    BY <1>1 DEF InSection, CallsBundle, Building, MutexInv, BundleInv
  <2>3. BundleInv'
    BY <1>1, <2>2, BundleStays DEF lockVars
  <2>. QED
    BY <1>1, <2>1, <2>3, MutexOf DEF MutexInv
<1>2. ASSUME Moves(t), ScanShape', UNCHANGED lockVars, pc[t] \in {"number", "query"},
             pc'[t] = scan[t].then \/ (pc'[t] = "throw" /\ scan[t].then = "create")
               \/ (pc'[t] = "fail" /\ scan[t].then # "create")
      PROVE  MutexInv'
  <2>1. scan[t].then \in {"create", "finish", "flushed"}
    BY <1>2 DEF MutexInv, ScanShape, Thens
  <2>2. ExecInv'
    BY <1>2, <2>1, ExecStays DEF CallsExec, lockVars, MutexInv, ExecInv
  <2>3. /\ t \in CallsBundle' <=> t \in CallsBundle
        /\ InSection(t)' => bundleQueue[1] = t
    BY <1>2, <2>1 DEF InSection, CallsBundle, Building, MutexInv, BundleInv
  <2>4. BundleInv'
    BY <1>2, <2>3, BundleStays DEF lockVars
  <2>. QED
    BY <1>2, <2>1, <2>2, <2>4, MutexOf DEF MutexInv
<1>3. CASE HandlePastEvents(t)
  <2>1. CASE lastBlock = 0
    BY <1>1, <1>3, <2>1, ZenonT(40) DEF HandlePastEvents, Goto, MutexInv, Moves, Waits, ScanShape
  <2>2. CASE lastBlock # 0
    BY <1>1, <1>3, <2>2, ScanQueried DEF HandlePastEvents, Query, Goto, MutexInv, Moves, Waits
  <2>. QED
    BY <2>1, <2>2
<1>4. CASE BlockNumber(t)
  BY <1>1, <1>4, ScanQueried DEF BlockNumber, Query, Goto, MutexInv, Moves, Waits
<1>5. CASE PastEvents(t)
  <2>1. scan[t].then \in {"create", "finish", "flushed"}
    BY <1>5 DEF PastEvents, MutexInv, ScanShape, Thens
  <2>. QED
    BY <1>2, <1>5, <2>1, ScanReset DEF PastEvents, Goto, MutexInv, Moves, Waits
<1>6. CASE PastEventsFail(t)
  BY <1>2, <1>6, ScanReset DEF PastEventsFail, Goto, MutexInv, Moves, Waits
<1>. QED
  BY <1>3, <1>4, <1>5, <1>6

\* sendNextBundle is called by a task that is not in it
LEMMA BundleCalled ==
  ASSUME MutexInv, NEW t \in Task, SendNextBundle(t), pc[t] \in {"idle", "admit"}
  PROVE  /\ Moves(t) /\ pc'[t] = "scan" /\ ScanShape' /\ scan'[t].then = "create"
         /\ BundleInv'
<1>1. Moves(t) /\ pc'[t] = "scan" /\ ScanShape' /\ scan'[t].then = "create"
  BY ScanThen DEF SendNextBundle, Goto, MutexInv, Moves, Waits, Thens
<1>2. t \notin CallsBundle /\ t \in CallsBundle' /\ ~InSection(t)'
  BY <1>1 DEF CallsBundle, InSection, Building
<1>. QED
  BY <1>1, <1>2, BundleEnters DEF SendNextBundle

LEMMA CallSteps ==
  ASSUME MutexInv, NEW t \in Task,
         \/ t \in RpcTask /\ \E op \in UserOp : Submit(t, op)
         \/ t \in TimerTask \cup DebugTask /\ ForceBundle(t)
         \/ Validate(t) \/ Admit(t)
  PROVE  MutexInv'
<1>1. ASSUME NEW op \in UserOp, Submit(t, op)
      PROVE  MutexInv'
  <2>1. Moves(t) /\ pc'[t] = "validate" /\ ScanShape' /\ t \in RpcTask /\ pc[t] = "idle"
    BY <1>1 DEF Submit, Goto, MutexInv, Moves, Waits, ScanShape
  <2>2. ExecInv'
    BY <1>1, <2>1, ExecEnters DEF Submit
  <2>3. BundleInv'
    BY <1>1, <2>1, BundleStays DEF Submit, CallsBundle, InSection, Building
  <2>. QED
    BY <2>1, <2>2, <2>3, MutexOf
<1>2. CASE Validate(t)
  <2>1. /\ Moves(t) /\ pc[t] = "validate" /\ pc'[t] \in {"admit", "fail"} /\ ScanShape'
        /\ UNCHANGED lockVars /\ execQueue[1] = t
    BY <1>2 DEF Validate, Goto, MutexInv, Moves, Waits, ScanShape
  <2>2. ExecInv'
    BY <2>1, ExecStays DEF CallsExec, lockVars
  <2>3. BundleInv'
    BY <2>1, BundleStays DEF CallsBundle, InSection, Building, lockVars
  <2>. QED
    BY <2>1, <2>2, <2>3, MutexOf
<1>3. CASE Admit(t)
  <2>1. CASE SendNextBundle(t)
    <3>1. ExecInv'
      BY <1>3, <2>1, BundleCalled, ExecStays DEF Admit, CallsExec, MutexInv, ExecInv
    <3>. QED
      BY <1>3, <2>1, <3>1, BundleCalled, MutexOf DEF Admit
  <2>2. CASE (Goto(t, "finish") \/ Goto(t, "fail")) /\ UNCHANGED <<scan, bundleQueue>>
    <3>1. Moves(t) /\ pc[t] = "admit" /\ pc'[t] \in {"finish", "fail"} /\ ScanShape'
      BY <1>3, <2>2 DEF Admit, Goto, MutexInv, Moves, Waits, ScanShape
    <3>2. ExecInv'
      BY <1>3, <3>1, ExecStays DEF Admit, CallsExec, MutexInv, ExecInv
    <3>3. BundleInv'
      BY <2>2, <3>1, BundleStays DEF CallsBundle, InSection, Building
    <3>. QED
      BY <3>1, <3>2, <3>3, MutexOf
  <2>. QED
    BY <1>3, <2>1, <2>2 DEF Admit
<1>4. CASE t \in TimerTask \cup DebugTask /\ ForceBundle(t)
  <2>1. ExecInv'
    BY <1>4, BundleCalled, ExecStays, BundlerAssumption DEF ForceBundle, CallsExec
  <2>. QED
    BY <1>4, <2>1, BundleCalled, MutexOf DEF ForceBundle
<1>. QED
  BY <1>1, <1>2, <1>3, <1>4

LEMMA ReturnSteps ==
  ASSUME MutexInv, NEW t \in Task, LeaveBundle(t) \/ Finish(t)
  PROVE  MutexInv'
<1>1. CASE LeaveBundle(t)
  <2>1. /\ Moves(t) /\ ScanShape' /\ pc[t] \in {"return", "throw"}
        /\ pc'[t] \in {"finish", "fail"} \/ (pc'[t] = "scan" /\ scan'[t].then = "finish")
    <3>1. CASE Goto(t, "scan") /\ scan' = [scan EXCEPT ![t].then = "finish"]
      <4>1. ScanShape' /\ scan'[t].then = "finish" /\ \A q \in Task \ {t} : scan'[q] = scan[q]
        BY <3>1, ScanThen DEF MutexInv, Thens
      <4>. QED
        BY <1>1, <3>1, <4>1 DEF LeaveBundle, Goto, MutexInv, Moves, Waits
    <3>2. CASE (Goto(t, "finish") \/ Goto(t, "fail")) /\ UNCHANGED scan
      BY <1>1, <3>2 DEF LeaveBundle, Goto, MutexInv, Moves, Waits, ScanShape
    <3>. QED
      BY <1>1, <3>1, <3>2 DEF LeaveBundle
  <2>2. ExecInv'
    BY <1>1, <2>1, ExecStays DEF LeaveBundle, CallsExec, MutexInv, ExecInv
  <2>3. InSection(t) /\ t \notin CallsBundle' /\ ~InSection(t)'
    BY <2>1 DEF CallsBundle, InSection, Building
  <2>4. BundleInv'
    BY <1>1, <2>1, <2>3, BundleLeaves DEF LeaveBundle
  <2>. QED
    BY <2>1, <2>2, <2>4, MutexOf
<1>2. ASSUME NEW told, Reply(t, told), pc[t] \in {"fail", "flushed", "finish"}, bundleQueue' = bundleQueue
      PROVE  MutexInv'
  <2>1. Moves(t) /\ pc'[t] = "done" /\ ScanShape'
    BY <1>2 DEF Reply, Goto, MutexInv, Moves, Waits, ScanShape
  <2>2. ExecInv'
    <3>1. CASE t \in RpcTask
      BY <1>2, <2>1, <3>1, ExecLeaves DEF Reply
    <3>2. CASE t \notin RpcTask
      BY <1>2, <2>1, <3>2, ExecStays DEF Reply, CallsExec
    <3>. QED
      BY <3>1, <3>2
  <2>3. BundleInv'
    BY <1>2, <2>1, BundleStays DEF CallsBundle, InSection, Building
  <2>. QED
    BY <2>1, <2>2, <2>3, MutexOf
<1>3. CASE pc[t] = "finish" /\ t \in DebugTask /\ Finish(t)
  <2>1. CASE Goto(t, "scan")
    <3>1. scan' = [scan EXCEPT ![t].then = "flushed"] /\ UNCHANGED lockVars
      BY <1>3 DEF Finish, lockVars
    <3>2. Moves(t) /\ pc'[t] = "scan" /\ ScanShape' /\ scan'[t].then = "flushed"
      BY <2>1, <3>1, ScanThen DEF Goto, MutexInv, Moves, Waits, Thens
    <3>3. ExecInv'
      BY <1>3, <3>1, <3>2, ExecStays, BundlerAssumption DEF CallsExec, lockVars
    <3>4. BundleInv'
      BY <1>3, <3>1, <3>2, BundleStays DEF CallsBundle, InSection, Building, lockVars
    <3>. QED
      BY <3>2, <3>3, <3>4, MutexOf
  <2>. QED
    BY <1>3, <2>1 DEF Finish
<1>. QED
  BY <1>1, <1>2, <1>3 DEF Finish

LEMMA MutexStep ==
  ASSUME MutexInv, [Next]_vars
  PROVE  MutexInv'
<1>1. CASE UNCHANGED <<pc, scan, lockVars>>
  <2>1. /\ CallsExec' = CallsExec /\ CallsBundle' = CallsBundle
        /\ \A t \in Task : InSection(t)' <=> InSection(t)
    BY <1>1 DEF CallsExec, CallsBundle, InSection
  <2>2. ExecInv' /\ BundleInv'
    BY <1>1, <2>1 DEF MutexInv, ExecInv, BundleInv, lockVars, Range, Distinct
  <2>. QED
    BY <1>1, <2>2 DEF MutexInv, ScanShape
<1>2. CASE \E t \in RpcTask, op \in UserOp : Submit(t, op)
  BY <1>2, CallSteps DEF Task
<1>3. CASE \E t \in TimerTask \cup DebugTask : ForceBundle(t)
  BY <1>3, CallSteps DEF Task
<1>4. CASE \E t \in Task : Step(t)
  BY <1>4, CallSteps, ReturnSteps, ScanSteps, BuilderSteps DEF Step
<1>5. CASE Listen \/ SetAutoBundler \/ DebugClearState
  BY <1>1, <1>5 DEF Listen, SetAutoBundler, DebugClearState, taskVars
<1>6. CASE Mine \/ MineElsewhere
  BY <1>1, <1>6 DEF Mine, MineElsewhere, envUnchanged, taskVars
<1>7. CASE UNCHANGED vars
  BY <1>1, <1>7 DEF vars, taskVars
<1>. QED
  BY <1>2, <1>3, <1>4, <1>5, <1>6, <1>7 DEF Next

LEMMA MutexInvAlways == Spec => []MutexInv
<1>1. ASSUME Init
      PROVE  MutexInv
  <2>1. pc \in [Task -> Waits] /\ \A t \in Task : pc[t] = "idle"
    BY <1>1 DEF Init, Waits
  <2>2. scan \in [Task -> [from : {0}, at : {0}, then : Thens]]
    BY <1>1 DEF Init, NoScan, Thens
  <2>3. CallsExec = {} /\ CallsBundle = {} /\ \A t \in Task : ~InSection(t)
    BY <2>1 DEF CallsExec, CallsBundle, InSection, Building, Task
  <2>4. ExecInv /\ BundleInv
    BY <1>1, <2>3 DEF Init, ExecInv, BundleInv, Distinct, Range
  <2>. QED
    BY <2>1, <2>2, <2>4 DEF MutexInv, ScanShape
<1>2. MutexInv /\ [Next]_vars => MutexInv'
  BY MutexStep
<1>. QED
  BY <1>1, <1>2, PTL DEF Spec

(* sendNextBundle is run by one task at a time, and both mutexes hold      *)
(* whoever waits for them and nobody else (ExecutionManager.ts:39,         *)
(* BundleManager.ts:60), for any number of calls, whatever fails.          *)
THEOREM OneBundleAtATimeAlways == Spec => []OneBundleAtATime
<1>1. ASSUME MutexInv
      PROVE  OneBundleAtATime
  <2>1. \A t \in Task : InSection(t) => Head(bundleQueue) = t
    BY <1>1 DEF MutexInv, BundleInv
  <2>. QED
    BY <1>1, <2>1 DEF MutexInv, ExecInv, BundleInv, CallsExec, CallsBundle, OneBundleAtATime
<1>. QED
  BY <1>1, MutexInvAlways, PTL


-----------------------------------------------------------------------------
(* The bundle builder                                                      *)

\* What is validated, pending, or to be bundled are operations.
PoolInv ==
  /\ mempool \subseteq UserOp /\ IsFiniteSet(mempool)
  /\ arg \in [RpcTask -> UserOp \cup {NoOp}]
  /\ \A t \in Task : pc[t] \in {"validate", "admit"} => t \in RpcTask /\ arg[t] \in UserOp

\* The mempool loses entries or stays as it is.
LEMMA PoolShrinks ==
  ASSUME PoolInv, mempool' \subseteq mempool
  PROVE  mempool' \subseteq UserOp /\ IsFiniteSet(mempool')
  BY FS_Subset DEF PoolInv

LEMMA PoolOf ==
  ASSUME MutexInv, PoolInv, NEW t \in Task, pc' = [pc EXCEPT ![t] = pc'[t]], arg' = arg,
         mempool' \subseteq mempool \/ (mempool' \subseteq UserOp /\ IsFiniteSet(mempool')),
         pc'[t] \in {"validate", "admit"} => pc[t] \in {"validate", "admit"}
  PROVE  PoolInv'
<1>1. mempool' \subseteq UserOp /\ IsFiniteSet(mempool')
  BY PoolShrinks
<1>2. \A q \in Task : pc'[q] \in {"validate", "admit"} => pc[q] \in {"validate", "admit"}
  BY DEF MutexInv
<1>. QED
  BY <1>1, <1>2 DEF PoolInv

LEMMA Admitted ==
  ASSUME PoolInv, NEW op \in UserOp,
         InsertUserOp(op) \/ ReplaceUserOp(op) \/ RejectUserOp(op) \/ RefuseReplacement(op)
  PROVE  mempool' \subseteq UserOp /\ IsFiniteSet(mempool')
<1>1. mempool' \subseteq mempool \cup {op}
  BY DEF InsertUserOp, ReplaceUserOp, RejectUserOp, RefuseReplacement, memVars
<1>2. IsFiniteSet(mempool \cup {op})
  BY FS_AddElement DEF PoolInv
<1>. QED
  BY <1>1, <1>2, FS_Subset DEF PoolInv

LEMMA LoopShrinks ==
  ASSUME NEW t \in Task, NEW b, NEW judged, Loop(t, b, judged)
  PROVE  mempool' \subseteq mempool
  BY DEF Loop, RemoveEntries

LEMMA PoolStep ==
  ASSUME MutexInv, PoolInv, [Next]_vars
  PROVE  PoolInv'
<1>1. ASSUME UNCHANGED <<pc, arg>>, mempool' \subseteq mempool
      PROVE  PoolInv'
  BY <1>1, PoolShrinks DEF PoolInv
<1>2. ASSUME NEW t \in RpcTask, NEW op \in UserOp, Submit(t, op)
      PROVE  PoolInv'
  BY <1>2 DEF Submit, Goto, poolVars, memVars, PoolInv, MutexInv
<1>3. ASSUME NEW t \in TimerTask \cup DebugTask, ForceBundle(t)
      PROVE  PoolInv'
  BY <1>3, PoolOf DEF ForceBundle, SendNextBundle, Goto, MutexInv, Task, poolVars, memVars
<1>4. ASSUME NEW t \in Task, Step(t)
      PROVE  PoolInv'
  <2>. USE DEF Goto, poolVars, memVars
  <2>1. CASE HandlePastEvents(t) \/ BlockNumber(t) \/ PastEventsFail(t)
    BY <2>1, PoolOf DEF HandlePastEvents, BlockNumber, PastEventsFail, Query, MutexInv
  <2>2. CASE PastEvents(t)
    <3>1. scan[t].then \notin {"validate", "admit"}
      BY <2>2 DEF PastEvents, MutexInv, ScanShape, Thens
    <3>2. mempool' \subseteq mempool
      BY <2>2 DEF PastEvents, HandleEvents, RemoveEntries
    <3>. QED
      BY <2>2, <3>1, <3>2, PoolOf DEF PastEvents, MutexInv
  <2>3. CASE Validate(t)
    BY <2>3, PoolOf DEF Validate, MutexInv
  <2>4. CASE Admit(t)
    <3>1. t \in RpcTask /\ arg[t] \in UserOp
      BY <2>4 DEF Admit, PoolInv
    <3>2. mempool' \subseteq UserOp /\ IsFiniteSet(mempool')
      BY <2>4, <3>1, Admitted DEF Admit
    <3>. QED
      BY <2>4, <3>2, PoolOf DEF Admit, SendNextBundle, MutexInv
  <2>5. CASE LeaveBundle(t)
    BY <2>5, PoolOf DEF LeaveBundle, MutexInv
  <2>6. CASE Finish(t)
    BY <2>6, PoolOf DEF Finish, Reply, MutexInv
  <2>7. CASE CreateBundle(t) \/ RevalidateFails(t) \/ RevalidateSucceeds(t) \/ BalanceOf(t)
    <3>1. arg' = arg /\ mempool' \subseteq mempool /\ \E to \in Building : Goto(t, to)
      BY <2>7, LoopShrinks, LoopGoes
         DEF CreateBundle, RevalidateFails, RevalidateSucceeds, BalanceOf, Include, buildUnchanged, Building
    <3>. QED
      BY <3>1, PoolOf DEF MutexInv, Building
  <2>8. CASE BuildFails(t) \/ Prepare(t)
    BY <2>8, PoolOf DEF BuildFails, Prepare, buildUnchanged, MutexInv
  <2>9. CASE Send(t) \/ SendFatal(t) \/ SendBlames(t)
    BY <2>9, PoolOf DEF Send, SendFatal, SendBlames, sendUnchanged, MutexInv
  <2>10. CASE SendDrops(t)
    <3>1. mempool' \subseteq mempool
      BY <2>10 DEF SendDrops, RemoveUserOp, Remove
    <3>. QED
      BY <2>10, <3>1, PoolOf DEF SendDrops, sendUnchanged, MutexInv
  <2>. QED
    BY <1>4, <2>1, <2>2, <2>3, <2>4, <2>5, <2>6, <2>7, <2>8, <2>9, <2>10 DEF Step
<1>5. CASE Listen \/ DebugClearState
  BY <1>1, <1>5 DEF Listen, HandleEvents, RemoveEntries, DebugClearState, taskVars
<1>6. CASE SetAutoBundler \/ Mine \/ MineElsewhere \/ UNCHANGED vars
  BY <1>1, <1>6 DEF SetAutoBundler, Mine, MineElsewhere, envUnchanged, vars, taskVars, poolVars, memVars
<1>. QED
  BY <1>2, <1>3, <1>4, <1>5, <1>6 DEF Next

\* The locals of createBundle, the values without a type here being in V
Locals(V) == [todo : Seq(UserOp), known : V, bundle : Seq(UserOp), gas : V,
              deposit : V, balance : V, nonce : V]

\* op is of an account that was known and reads no other one's.
Apart(op, known) == Account(op) \in known /\ (op.touches \ {Account(op)}) \cap known = {}

Good(b) ==
  /\ \A i \in DOMAIN b.todo : Account(b.todo[i]) \in b.known
  /\ \A i \in DOMAIN b.bundle : Apart(b.bundle[i], b.known)
  /\ \A i, j \in DOMAIN b.bundle : b.bundle[i].sender = b.bundle[j].sender => i = j

\* An operation that is looked at is of no sender in the bundle yet.
HasCandidate(b) == b.todo # <<>> /\ ~InBundle(Head(b.todo).sender, b.bundle)

BuildInv ==
  /\ \E V : build \in Locals(V)
  /\ Good(build)
  /\ \A t \in Task : pc[t] \in {"revalidate", "balance"} => HasCandidate(build)
  /\ \A t \in Task : pc[t] = "balance" => ~TouchesKnownSender(Candidate)

LEMMA LoopBuilds ==
  ASSUME NEW t \in Task, NEW V, NEW b \in Locals(V), Good(b), NEW judged, Loop(t, b, judged),
         pc \in [Task -> Waits]
  PROVE  /\ build' \in Locals(V) /\ Good(build')
         /\ pc'[t] # "balance" /\ (pc'[t] = "revalidate" => HasCandidate(build'))
<1>. DEFINE len == Len(b.todo)
            kept == {i \in 1 .. len : ~Skipped(b.todo[i], b.bundle)}
            next == CHOOSE i \in kept \cup {len + 1} : \A j \in kept : i <= j
<1>1. len \in Nat /\ DOMAIN b.todo = 1 .. len /\ b.todo \in Seq(UserOp)
  BY DEF Locals
<1>2. \E i \in kept \cup {len + 1} : \A j \in kept : i <= j
  <2>1. kept \cup {len + 1} \subseteq Nat /\ kept \cup {len + 1} # {}
    BY <1>1
  <2>. QED
    BY <2>1, SmallestExists
<1>3. next \in kept \cup {len + 1}
  BY <1>2
<1>4. /\ build' = [b EXCEPT !.todo = SubSeq(b.todo, next, len)]
      /\ Goto(t, IF next <= len THEN "revalidate" ELSE IF b.bundle # <<>> THEN "prepare" ELSE "return")
  BY DEF Loop
<1>. HIDE DEF next
<1>5. next \in 1 .. len + 1
  BY <1>1, <1>3
<1>6. /\ SubSeq(b.todo, next, len) \in Seq(UserOp)
      /\ DOMAIN SubSeq(b.todo, next, len) = 1 .. len - next + 1
      /\ Len(SubSeq(b.todo, next, len)) = len - next + 1
      /\ \A i \in 1 .. len - next + 1 : SubSeq(b.todo, next, len)[i] = b.todo[next + i - 1]
  BY <1>1, <1>5
<1>7. /\ build' \in Locals(V) /\ build'.bundle = b.bundle /\ build'.known = b.known
      /\ build'.todo = SubSeq(b.todo, next, len)
  BY <1>4, <1>6 DEF Locals
<1>8. Good(build')
  <2>1. ASSUME NEW i \in DOMAIN build'.todo
        PROVE  Account(build'.todo[i]) \in build'.known
    <3>1. i \in 1 .. len - next + 1 /\ next + i - 1 \in DOMAIN b.todo
      BY <1>1, <1>5, <1>6, <1>7, <2>1
    <3>2. build'.todo[i] = b.todo[next + i - 1]
      BY <1>6, <1>7, <3>1
    <3>. QED
      BY <1>7, <3>1, <3>2 DEF Good
  <2>. QED
    BY <1>7, <2>1 DEF Good
<1>9. ASSUME pc'[t] = "revalidate"
      PROVE  HasCandidate(build')
  <2>1. next <= len
    BY <1>4, <1>9 DEF Goto
  <2>2. next \in kept
    BY <1>1, <1>3, <2>1
  <2>3. build'.todo # <<>> /\ Head(build'.todo) = b.todo[next]
    <3>1. 1 \in 1 .. len - next + 1 /\ next + 1 - 1 = next
      BY <1>1, <1>5, <2>1
    <3>2. build'.todo[1] = b.todo[next]
      BY <1>6, <1>7, <3>1
    <3>3. Len(build'.todo) # 0
      BY <1>1, <1>5, <1>6, <1>7, <2>1
    <3>. QED
      BY <3>2, <3>3
  <2>. QED
    BY <1>7, <2>2, <2>3 DEF HasCandidate, Skipped
<1>. QED
  BY <1>4, <1>7, <1>8, <1>9 DEF Goto

LEMMA IncludeBuilds ==
  ASSUME NEW t \in Task, NEW V, NEW b \in Locals(V), Good(b), pc \in [Task -> Waits],
         NEW op \in UserOp, Apart(op, b.known), ~InBundle(op.sender, b.bundle), Include(t, op, b)
  PROVE  /\ \E W : build' \in Locals(W)
         /\ Good(build')
         /\ pc'[t] # "balance" /\ (pc'[t] = "revalidate" => HasCandidate(build'))
<1>. DEFINE deposit == [a \in Addr |-> IF a = op.paymaster THEN b.deposit[a] - op.prefund ELSE b.deposit[a]]
            more == [b EXCEPT !.bundle = Append(@, op), !.gas = @ + op.gas, !.deposit = deposit]
            W == V \cup {b.gas + op.gas, deposit}
<1>1. CASE op.paymaster = NoAddr \/ b.deposit[op.paymaster] >= op.prefund
  <2>1. Loop(t, more, {})
    BY <1>1 DEF Include
  <2>. HIDE DEF deposit
  <2>2. /\ b.bundle \in Seq(UserOp) /\ Append(b.bundle, op) \in Seq(UserOp)
        /\ DOMAIN b.bundle = 1 .. Len(b.bundle) /\ Len(b.bundle) \in Nat
        /\ DOMAIN Append(b.bundle, op) = 1 .. Len(b.bundle) + 1
        /\ \A i \in DOMAIN b.bundle : Append(b.bundle, op)[i] = b.bundle[i]
        /\ Append(b.bundle, op)[Len(b.bundle) + 1] = op
    BY DEF Locals
  <2>3. /\ more \in Locals(W) /\ more.todo = b.todo /\ more.known = b.known
        /\ more.bundle = Append(b.bundle, op)
    BY <2>2 DEF Locals
  <2>. HIDE DEF more, W
  <2>4. ASSUME NEW i \in DOMAIN more.bundle, NEW j \in DOMAIN more.bundle,
               more.bundle[i].sender = more.bundle[j].sender
        PROVE  i = j
    <3>1. CASE i \in DOMAIN b.bundle /\ j \in DOMAIN b.bundle
      BY <2>2, <2>3, <2>4, <3>1 DEF Good
    <3>2. CASE i = Len(b.bundle) + 1 /\ j \in DOMAIN b.bundle
      BY <2>2, <2>3, <2>4, <3>2 DEF InBundle
    <3>3. CASE i \in DOMAIN b.bundle /\ j = Len(b.bundle) + 1
      BY <2>2, <2>3, <2>4, <3>3 DEF InBundle
    <3>. QED
      BY <2>2, <2>3, <3>1, <3>2, <3>3
  <2>5. \A i \in DOMAIN more.bundle : Apart(more.bundle[i], more.known)
    BY <2>2, <2>3 DEF Good
  <2>6. Good(more)
    BY <2>3, <2>4, <2>5 DEF Good
  <2>. QED
    BY <2>1, <2>3, <2>6, LoopBuilds
<1>2. CASE ~(op.paymaster = NoAddr \/ b.deposit[op.paymaster] >= op.prefund)
  BY <1>2, LoopBuilds DEF Include
<1>. QED
  BY <1>1, <1>2

\* The builder changes its locals while no other task is in it.
LEMMA BuildOf ==
  ASSUME MutexInv, BuildInv, NEW t \in Task, InSection(t), pc' = [pc EXCEPT ![t] = pc'[t]],
         \E W : build' \in Locals(W), Good(build'),
         pc'[t] \in {"revalidate", "balance"} => HasCandidate(build'),
         pc'[t] = "balance" => ~TouchesKnownSender(Candidate)'
  PROVE  BuildInv'
<1>1. \A q \in Task \ {t} : pc'[q] \notin {"revalidate", "balance"}
  BY DEF MutexInv, BundleInv, InSection, Building
<1>. QED
  BY <1>1 DEF BuildInv

LEMMA BuildSame ==
  ASSUME MutexInv, BuildInv, NEW t \in Task, pc' = [pc EXCEPT ![t] = pc'[t]], build' = build,
         pc'[t] \notin {"revalidate", "balance"}
  PROVE  BuildInv'
<1>1. \A q \in Task : pc'[q] \in {"revalidate", "balance"} => q # t /\ pc[q] = pc'[q]
  BY DEF MutexInv
<1>2. \A op : TouchesKnownSender(op)' <=> TouchesKnownSender(op)
  BY DEF TouchesKnownSender
<1>. QED
  BY <1>1, <1>2 DEF BuildInv, HasCandidate, Candidate, TouchesKnownSender

\* What is left to look at when the candidate has been
LEMMA RestGood ==
  ASSUME BuildInv, HasCandidate(build), NEW V, build \in Locals(V)
  PROVE  /\ Rest \in Locals(V) /\ Good(Rest) /\ Rest.known = build.known /\ Rest.bundle = build.bundle
         /\ Candidate \in UserOp /\ Account(Candidate) \in build.known
<1>1. /\ build.todo \in Seq(UserOp) /\ build.todo # <<>> /\ Tail(build.todo) \in Seq(UserOp)
      /\ DOMAIN build.todo = 1 .. Len(build.todo) /\ Len(build.todo) \in Nat \ {0}
      /\ DOMAIN Tail(build.todo) = 1 .. Len(build.todo) - 1
      /\ \A i \in 1 .. Len(build.todo) - 1 : Tail(build.todo)[i] = build.todo[i + 1]
  BY DEF Locals, HasCandidate
<1>2. /\ Rest \in Locals(V) /\ Rest.known = build.known /\ Rest.bundle = build.bundle
      /\ Rest.todo = Tail(build.todo)
  BY <1>1 DEF Rest, Locals
<1>3. \A i \in DOMAIN Rest.todo : Account(Rest.todo[i]) \in Rest.known
  BY <1>1, <1>2 DEF BuildInv, Good
<1>4. Candidate \in UserOp /\ Account(Candidate) \in build.known
  BY <1>1 DEF Candidate, BuildInv, Good
<1>. QED
  BY <1>2, <1>3, <1>4 DEF BuildInv, Good

LEMMA CreateStep ==
  ASSUME MutexInv, PoolInv, BuildInv, NEW t \in Task, CreateBundle(t)
  PROVE  BuildInv'
<1>1. PICK entries \in SortedForInclusion :
        Loop(t, [NoBuild EXCEPT !.todo = entries, !.known = KnownSenders], {})
  BY DEF CreateBundle
<1>. DEFINE b == [NoBuild EXCEPT !.todo = entries, !.known = KnownSenders]
            V == {KnownSenders, NoBuild.gas, NoBuild.deposit, NoBuild.balance, NoBuild.nonce}
<1>2. entries \in [1 .. Cardinality(mempool) -> mempool] /\ Cardinality(mempool) \in Nat
  BY <1>1, FS_CardinalityType DEF SortedForInclusion, PoolInv
<1>3. entries \in Seq(UserOp) /\ \A i \in DOMAIN entries : Account(entries[i]) \in KnownSenders
  BY <1>2 DEF PoolInv, KnownSenders
<1>4. b \in Locals(V) /\ b.todo = entries /\ b.known = KnownSenders /\ b.bundle = <<>>
  <2>1. NoBuild \in Locals({{}, NoBuild.gas, NoBuild.deposit, NoBuild.balance, NoBuild.nonce})
    BY DEF NoBuild, Locals
  <2>2. NoBuild.bundle = <<>>
    BY DEF NoBuild
  <2>. QED
    BY <1>3, <2>1, <2>2 DEF Locals
<1>5. Good(b)
  BY <1>3, <1>4 DEF Good
<1>6. pc[t] = "create" /\ InSection(t) /\ pc \in [Task -> Waits]
  BY DEF CreateBundle, InSection, Building, MutexInv
<1>. HIDE DEF b, V
<1>7. Loop(t, b, {})
  BY <1>1 DEF b
<1>8. \E to \in Building : Goto(t, to)
  BY <1>7, LoopGoes
<1>9. pc' = [pc EXCEPT ![t] = pc'[t]]
  BY <1>6, <1>8 DEF Goto
<1>. QED
  BY <1>4, <1>5, <1>6, <1>7, <1>9, LoopBuilds, BuildOf

LEMMA JudgeSteps ==
  ASSUME MutexInv, BuildInv, NEW t \in Task, RevalidateFails(t) \/ RevalidateSucceeds(t) \/ BalanceOf(t)
  PROVE  BuildInv'
<1>1. /\ pc[t] \in {"revalidate", "balance"} /\ InSection(t) /\ pc \in [Task -> Waits]
      /\ HasCandidate(build)
  BY DEF RevalidateFails, RevalidateSucceeds, BalanceOf, InSection, Building, MutexInv, BuildInv
<1>2. PICK V : build \in Locals(V)
  BY DEF BuildInv
<1>3. /\ Rest \in Locals(V) /\ Good(Rest) /\ Rest.known = build.known /\ Rest.bundle = build.bundle
      /\ Candidate \in UserOp /\ Account(Candidate) \in build.known
      /\ ~InBundle(Candidate.sender, build.bundle)
  BY <1>1, <1>2, RestGood DEF HasCandidate, Candidate
<1>4. ASSUME NEW b, NEW W, b \in Locals(W), Good(b), NEW judged, Loop(t, b, judged)
      PROVE  BuildInv'
  <2>1. \E to \in Building : Goto(t, to)
    BY <1>4, LoopGoes
  <2>2. pc' = [pc EXCEPT ![t] = pc'[t]]
    BY <1>1, <2>1 DEF Goto
  <2>. QED
    BY <1>1, <1>4, <2>2, LoopBuilds, BuildOf
<1>5. ASSUME NEW b, NEW W, b \in Locals(W), Good(b), b.known = build.known, b.bundle = build.bundle,
             ~TouchesKnownSender(Candidate), Include(t, Candidate, b)
      PROVE  BuildInv'
  <2>1. Apart(Candidate, b.known)
    BY <1>3, <1>5 DEF Apart, TouchesKnownSender
  <2>2. \E to \in Building : Goto(t, to)
    BY <1>5, LoopGoes DEF Include
  <2>3. pc' = [pc EXCEPT ![t] = pc'[t]]
    BY <1>1, <2>2 DEF Goto
  <2>4. /\ \E X : build' \in Locals(X)
        /\ Good(build')
        /\ pc'[t] # "balance" /\ (pc'[t] = "revalidate" => HasCandidate(build'))
    BY <1>1, <1>3, <1>5, <2>1, IncludeBuilds
  <2>. QED
    BY <1>1, <2>3, <2>4, BuildOf
<1>6. CASE RevalidateFails(t)
  BY <1>3, <1>4, <1>6 DEF RevalidateFails
<1>7. CASE RevalidateSucceeds(t)
  <2>1. CASE TouchesKnownSender(Candidate)
    BY <1>3, <1>4, <1>7, <2>1 DEF RevalidateSucceeds
  <2>2. CASE ~TouchesKnownSender(Candidate) /\ build.gas + Candidate.gas > MaxBundleGas
    <3>. DEFINE b == [build EXCEPT !.todo = <<>>]
    <3>1. b \in Locals(V) /\ b.todo = <<>> /\ b.known = build.known /\ b.bundle = build.bundle
      <4>. DEFINE none == <<>>
      <4>1. none \in Seq(UserOp)
        OBVIOUS
      <4>. HIDE DEF none
      <4>2. LET b2 == [build EXCEPT !.todo = none]
            IN  b2 \in Locals(V) /\ b2.todo = none /\ b2.known = build.known /\ b2.bundle = build.bundle
        BY <1>2, <4>1 DEF Locals
      <4>. QED
        BY <4>2 DEF none
    <3>2. Loop(t, b, {})
      BY <1>7, <2>2 DEF RevalidateSucceeds
    <3>. HIDE DEF b
    <3>3. Good(b)
      BY <3>1 DEF Good, BuildInv
    <3>. QED
      BY <1>4, <3>1, <3>2, <3>3
  <2>3. CASE Goto(t, "balance") /\ build' = build /\ ~TouchesKnownSender(Candidate)
    <3>1. ~TouchesKnownSender(Candidate)' /\ HasCandidate(build')
      BY <1>1, <2>3 DEF TouchesKnownSender, Candidate, HasCandidate
    <3>2. pc' = [pc EXCEPT ![t] = pc'[t]]
      BY <1>1, <2>3 DEF Goto
    <3>3. Good(build') /\ \E W : build' \in Locals(W)
      BY <1>2, <2>3 DEF BuildInv
    <3>. QED
      BY <1>1, <3>1, <3>2, <3>3, BuildOf
  <2>4. CASE Include(t, Candidate, Rest) /\ ~TouchesKnownSender(Candidate)
    BY <1>3, <1>5, <2>4
  <2>. QED
    BY <1>7, <2>1, <2>2, <2>3, <2>4 DEF RevalidateSucceeds
<1>8. CASE BalanceOf(t)
  <2>1. PICK d \in Deposit :
          Include(t, Candidate, [Rest EXCEPT !.deposit[Candidate.paymaster] = d,
                                             !.balance[Candidate.paymaster] = d])
    BY <1>8 DEF BalanceOf
  <2>. DEFINE b == [Rest EXCEPT !.deposit[Candidate.paymaster] = d, !.balance[Candidate.paymaster] = d]
  <2>2. /\ b \in Locals(V \cup {b.deposit, b.balance}) /\ b.known = Rest.known
        /\ b.bundle = Rest.bundle /\ b.todo = Rest.todo
    BY <1>3 DEF Locals
  <2>. HIDE DEF b
  <2>3. Good(b)
    BY <1>3, <2>2 DEF Good
  <2>4. ~TouchesKnownSender(Candidate)
    BY <1>8 DEF BalanceOf, BuildInv
  <2>5. Include(t, Candidate, b)
    BY <2>1 DEF b
  <2>. QED
    BY <1>3, <1>5, <2>2, <2>3, <2>4, <2>5
<1>. QED
  BY <1>6, <1>7, <1>8

LEMMA BuildStep ==
  ASSUME MutexInv, PoolInv, BuildInv, [Next]_vars
  PROVE  BuildInv'
<1>1. ASSUME UNCHANGED <<pc, build>>
      PROVE  BuildInv'
  BY <1>1 DEF BuildInv, HasCandidate, Candidate, TouchesKnownSender, Good, Apart, Locals
<1>2. CASE \/ \E t \in RpcTask, op \in UserOp : Submit(t, op)
           \/ \E t \in TimerTask \cup DebugTask : ForceBundle(t)
  BY <1>2, BuildSame DEF Submit, ForceBundle, SendNextBundle, Goto, MutexInv, Task
<1>3. ASSUME NEW t \in Task, Step(t)
      PROVE  BuildInv'
  <2>. USE DEF Goto
  <2>1. CASE HandlePastEvents(t) \/ BlockNumber(t) \/ PastEventsFail(t)
    BY <2>1, BuildSame DEF HandlePastEvents, BlockNumber, PastEventsFail, Query, MutexInv
  <2>2. CASE PastEvents(t)
    <3>1. scan[t].then \notin {"revalidate", "balance"}
      BY <2>2 DEF PastEvents, MutexInv, ScanShape, Thens
    <3>. QED
      BY <2>2, <3>1, BuildSame DEF PastEvents, MutexInv
  <2>3. CASE Validate(t) \/ Admit(t) \/ Finish(t)
    BY <2>3, BuildSame DEF Validate, Admit, SendNextBundle, Finish, Reply, MutexInv
  <2>4. CASE LeaveBundle(t)
    <3>1. /\ pc[t] \in {"return", "throw"} /\ pc' = [pc EXCEPT ![t] = pc'[t]]
          /\ pc'[t] \in {"scan", "finish", "fail"} /\ build' = NoBuild
      BY <2>4 DEF LeaveBundle, MutexInv
    <3>2. NoBuild \in Locals({NoBuild.known, NoBuild.gas, NoBuild.deposit, NoBuild.balance, NoBuild.nonce})
      BY DEF NoBuild, Locals
    <3>3. Good(NoBuild)
      BY DEF NoBuild, Good
    <3>. QED
      BY <3>1, <3>2, <3>3, BuildOf DEF InSection, Building
  <2>5. CASE CreateBundle(t)
    BY <2>5, CreateStep
  <2>6. CASE RevalidateFails(t) \/ RevalidateSucceeds(t) \/ BalanceOf(t)
    BY <2>6, JudgeSteps
  <2>7. CASE Prepare(t)
    <3>1. PICK V : build \in Locals(V)
      BY DEF BuildInv
    <3>2. /\ build' \in Locals(V \cup {txCount}) /\ build'.todo = build.todo
          /\ build'.known = build.known /\ build'.bundle = build.bundle
      BY <2>7, <3>1 DEF Prepare, Locals
    <3>3. Good(build')
      BY <3>2 DEF BuildInv, Good
    <3>. QED
      BY <2>7, <3>2, <3>3, BuildOf DEF Prepare, MutexInv, InSection, Building
  <2>8. CASE BuildFails(t) \/ Send(t) \/ SendFatal(t) \/ SendBlames(t) \/ SendDrops(t)
    BY <2>8, BuildSame DEF BuildFails, Send, SendFatal, SendBlames, SendDrops, sendUnchanged, MutexInv
  <2>. QED
    BY <1>3, <2>1, <2>2, <2>3, <2>4, <2>5, <2>6, <2>7, <2>8 DEF Step
<1>4. CASE Listen \/ SetAutoBundler \/ DebugClearState \/ Mine \/ MineElsewhere \/ UNCHANGED vars
  BY <1>1, <1>4 DEF Listen, SetAutoBundler, DebugClearState, Mine, MineElsewhere, envUnchanged, vars, taskVars
<1>. QED
  BY <1>2, <1>3, <1>4 DEF Next

LEMMA BuildInit ==
  ASSUME Init
  PROVE  PoolInv /\ BuildInv
<1>1. \A t \in Task : pc[t] = "idle"
  BY DEF Init
<1>2. PoolInv
  BY <1>1, FS_EmptySet DEF Init, MemInit, PoolInv
<1>3. build \in Locals({NoBuild.known, NoBuild.gas, NoBuild.deposit, NoBuild.balance, NoBuild.nonce})
  BY DEF Init, NoBuild, Locals
<1>4. Good(build)
  BY DEF Init, NoBuild, Good
<1>. QED
  BY <1>1, <1>2, <1>3, <1>4 DEF BuildInv

(* No operation of a bundle reads the storage of another one's account     *)
(* (BundleManager.ts:199-252), for any number of operations and of calls   *)
(* that change the mempool while the bundle is built: the senders known    *)
(* when it was begun stay those that are looked at.                        *)
THEOREM NoForeignStorageAlways == Spec => []NoForeignStorage
<1>1. Init => PoolInv /\ BuildInv
  BY BuildInit
<1>2. MutexInv /\ PoolInv /\ BuildInv /\ [Next]_vars => PoolInv' /\ BuildInv'
  BY PoolStep, BuildStep
<1>3. ASSUME BuildInv
      PROVE  NoForeignStorage
  <2>1. \A i \in DOMAIN build.bundle : build.bundle[i] \in UserOp
    BY <1>3 DEF BuildInv, Locals
  <2>2. \A i \in DOMAIN build.bundle : Account(build.bundle[i]) = build.bundle[i].sender
    BY <2>1, OpAssumption DEF Account
  <2>. QED
    BY <1>3, <2>2 DEF BuildInv, Good, Apart, NoForeignStorage
<1>. QED
  BY <1>1, <1>2, <1>3, MutexInvAlways, PTL DEF Spec


-----------------------------------------------------------------------------
(* The types of what the bundler counts and what the chain holds           *)

Event == [op : UserOp, block : Nat]

\* Events are in the order of their blocks, of which the first is the second.
LogInv ==
  /\ head \in Nat \ {0}
  /\ log \in Seq(Event)
  /\ \A i \in DOMAIN log : log[i].block \in 2 .. head
  /\ \A i, j \in DOMAIN log : i <= j => log[i].block <= log[j].block

CountTypeOK == RepTypeOK /\ entryCount \in [Addr -> Nat]

DataInv ==
  /\ CountTypeOK
  /\ answer \in [Task -> {"none", "ok", "error"}]
  /\ scan \in [Task -> [from : Nat, at : Nat, then : Thens]]
  /\ mode \in Modes
  /\ lastBlock \in Nat /\ heard \in Nat /\ txCount \in Nat
  /\ pendingTx \in Seq(UserOp)
  /\ LogInv

LEMMA PartFinite ==
  ASSUME IsFiniteSet(mempool), NEW S, S \subseteq mempool, NEW T, T \subseteq S
  PROVE  IsFiniteSet(T) /\ Cardinality(T) \in Nat
  BY FS_Subset, FS_CardinalityType

LEMMA RemovedTyped ==
  ASSUME IsFiniteSet(mempool), entryCount \in [Addr -> Nat], NEW S, S \subseteq mempool, RemoveEntries(S)
  PROVE  entryCount' \in [Addr -> Nat]
<1>. DEFINE n(a) == Cardinality({e \in S : Account(e) = a})
                      + Cardinality({e \in S : e.paymaster = a})
                      + Cardinality({e \in S : e.factory = a})
<1>1. \A a : n(a) \in Nat
  <2>1. \A T \in SUBSET S : Cardinality(T) \in Nat
    BY PartFinite
  <2>. QED
    BY <2>1
<1>2. entryCount' = [a \in Addr |-> Minus(entryCount[a], n(a))]
  BY DEF RemoveEntries
<1>. HIDE DEF n
<1>3. \A a \in Addr : Minus(entryCount[a], n(a)) \in Nat
  BY <1>1, MinusNat
<1>. QED
  BY <1>2, <1>3

LEMMA IndicesFinite ==
  ASSUME log \in Seq(Event), NEW I, I \subseteq DOMAIN log
  PROVE  IsFiniteSet(I) /\ Cardinality(I) \in Nat /\ I \subseteq 1 .. Len(log) /\ Len(log) \in Nat
<1>1. DOMAIN log = 1 .. Len(log) /\ Len(log) \in Nat
  OBVIOUS
<1>2. IsFiniteSet(1 .. Len(log))
  BY <1>1, FS_Interval
<1>3. IsFiniteSet(I)
  BY <1>1, <1>2, FS_Subset
<1>. QED
  BY <1>1, <1>3, FS_CardinalityType

LEMMA TimesNat ==
  ASSUME log \in Seq(Event), NEW I, I \subseteq DOMAIN log, NEW a
  PROVE  Involving(a, I) \in Nat /\ Deploying(a, I) \in Nat
<1>1. \A J : J \subseteq I => Cardinality(J) \in Nat
  BY IndicesFinite
<1>. QED
  BY <1>1 DEF Involving, Deploying

\* The last of some events
LEMMA LastOfEvents ==
  ASSUME log \in Seq(Event), NEW I, I \subseteq DOMAIN log, I # {},
         NEW k, k = CHOOSE i \in I : \A j \in I : j <= i
  PROVE  k \in I /\ \A j \in I : j <= k
<1>1. I \subseteq 0 .. Len(log) /\ Len(log) \in Nat
  BY IndicesFinite
<1>2. \E i \in I : \A j \in I : j <= i
  BY <1>1, LargestExists
<1>. QED
  BY <1>2

LEMMA HandledTyped ==
  ASSUME IsFiniteSet(mempool), CountTypeOK, lastBlock \in Nat, LogInv,
         NEW I, I \subseteq DOMAIN log, NEW deployed, HandleEvents(I, deployed)
  PROVE  CountTypeOK' /\ lastBlock' \in Nat
<1>. DEFINE times(a) == Involving(a, I) + IF deployed THEN Deploying(a, I) ELSE 0
            k == CHOOSE i \in I : \A j \in I : j <= i
<1>1. \A a : times(a) \in Nat
  BY TimesNat DEF LogInv
<1>2. /\ RemoveEntries({e \in mempool : \E i \in I : Hash(e) = Hash(log[i].op)})
      /\ opsIncluded' = [a \in Addr |-> opsIncluded[a] + times(a)]
      /\ lastBlock' = IF I = {} THEN lastBlock ELSE log[k].block + 1
      /\ UNCHANGED <<opsSeen, listVars>>
  BY DEF HandleEvents
<1>3. entryCount' \in [Addr -> Nat]
  BY <1>2, RemovedTyped DEF CountTypeOK
<1>4. I # {} => k \in I
  BY LastOfEvents DEF LogInv
<1>. HIDE DEF times, k
<1>5. lastBlock' \in Nat
  BY <1>2, <1>4 DEF LogInv
<1>6. RepTypeOK'
  BY <1>1, <1>2 DEF CountTypeOK, RepTypeOK, listVars
<1>. QED
  BY <1>3, <1>5, <1>6 DEF CountTypeOK

LEMMA LoopTyped ==
  ASSUME IsFiniteSet(mempool), entryCount \in [Addr -> Nat],
         NEW t \in Task, NEW b, NEW judged, Loop(t, b, judged)
  PROVE  entryCount' \in [Addr -> Nat]
<1>1. PICK J : RemoveEntries(UNION {FindBySenderNonce(e) : e \in J})
  BY DEF Loop
<1>2. UNION {FindBySenderNonce(e) : e \in J} \subseteq mempool
  BY DEF FindBySenderNonce
<1>. QED
  BY <1>1, <1>2, RemovedTyped

LEMMA AdmittedTyped ==
  ASSUME CountTypeOK, NEW op \in UserOp,
         InsertUserOp(op) \/ ReplaceUserOp(op) \/ RejectUserOp(op) \/ RefuseReplacement(op)
  PROVE  CountTypeOK'
<1>. USE DEF CountTypeOK
<1>1. Incremented(op) \in [Addr -> Nat]
  BY RolesNat DEF Incremented
<1>2. ASSUME UpdateSeenRoles(op)
      PROVE  RepTypeOK'
  BY <1>2, RolesNat DEF UpdateSeenRoles, RepTypeOK, listVars
<1>3. CASE InsertUserOp(op)
  BY <1>1, <1>2, <1>3 DEF InsertUserOp
<1>4. CASE ReplaceUserOp(op)
  BY <1>2, <1>4 DEF ReplaceUserOp
<1>5. CASE RejectUserOp(op) \/ RefuseReplacement(op)
  BY <1>1, <1>5 DEF RejectUserOp, RefuseReplacement, RepTypeOK, repVars, memVars
<1>. QED
  BY <1>3, <1>4, <1>5

LEMMA DroppedTyped ==
  ASSUME mempool \subseteq UserOp, CountTypeOK, NEW op, RemoveUserOp(op)
  PROVE  CountTypeOK'
<1>1. CASE \E e \in mempool : entryCount' = Decremented(entryCount, e)
  BY <1>1, RolesNat, MinusNat DEF RemoveUserOp, CountTypeOK, RepTypeOK, repVars, Decremented
<1>2. CASE UNCHANGED memVars
  BY <1>2 DEF RemoveUserOp, CountTypeOK, RepTypeOK, repVars, memVars
<1>. QED
  BY <1>1, <1>2 DEF RemoveUserOp, Remove, FindBySenderNonce

LEMMA CrashTyped ==
  ASSUME RepTypeOK, NEW op \in UserOp, NEW blamed \in {op.sender, op.factory, op.paymaster},
         IF blamed = NoAddr THEN UNCHANGED repVars ELSE CrashedHandleOps(blamed)
  PROVE  RepTypeOK'
<1>1. CASE blamed = NoAddr
  BY <1>1 DEF RepTypeOK, repVars
<1>2. CASE blamed # NoAddr
  <2>1. blamed \in Spelling
    BY <1>2, UserOpAssumption, AddrLower
  <2>2. Lower[blamed] \in Addr
    BY <2>1, AddrLower
  <2>. QED
    BY <1>2, <2>2, ParamsAssumption DEF CrashedHandleOps, RepTypeOK, listVars
<1>. QED
  BY <1>1, <1>2

LEMMA LogGrows ==
  ASSUME LogInv, NEW ops \in Seq(UserOp), log' = log \o Events(ops), head' = head + 1
  PROVE  /\ LogInv' /\ Len(log') = Len(log) + Len(ops) /\ DOMAIN log \subseteq DOMAIN log'
         /\ \A i \in DOMAIN log : log'[i] = log[i]
         /\ \A i \in DOMAIN log' \ DOMAIN log : log'[i].block = head + 1
<1>. DEFINE new == Events(ops)
<1>1. new \in Seq(Event) /\ Len(new) = Len(ops) /\ \A i \in 1 .. Len(ops) : new[i].block = head + 1
  <2>1. DOMAIN ops = 1 .. Len(ops) /\ Len(ops) \in Nat /\ \A i \in 1 .. Len(ops) : ops[i] \in UserOp
    OBVIOUS
  <2>2. new = [i \in 1 .. Len(ops) |-> [op |-> ops[i], block |-> head + 1]]
    BY <2>1 DEF Events
  <2>3. \A i \in 1 .. Len(ops) : [op |-> ops[i], block |-> head + 1] \in Event
    BY <2>1 DEF Event, LogInv
  <2>. QED
    BY <2>1, <2>2, <2>3
<1>0. log' = log \o new
  OBVIOUS
<1>. HIDE DEF new
<1>2. /\ log' \in Seq(Event) /\ Len(log') = Len(log) + Len(ops) /\ Len(log) \in Nat /\ Len(ops) \in Nat
      /\ DOMAIN log = 1 .. Len(log) /\ DOMAIN log' = 1 .. Len(log) + Len(ops)
      /\ \A i \in DOMAIN log : log'[i] = log[i]
      /\ \A i \in DOMAIN log' \ DOMAIN log : i - Len(log) \in 1 .. Len(ops) /\ log'[i] = new[i - Len(log)]
  <2>1. log \in Seq(Event)
    BY DEF LogInv
  <2>2. DOMAIN new = 1 .. Len(ops)
    BY <1>1
  <2>. QED
    BY <1>0, <1>1, <2>1, <2>2, Concatenated
<1>3. ASSUME NEW i \in DOMAIN log' \ DOMAIN log
      PROVE  log'[i].block = head + 1
  BY <1>1, <1>2, <1>3
<1>4. \A i \in DOMAIN log' : log'[i].block \in 2 .. head'
  BY <1>2, <1>3 DEF LogInv
<1>5. \A i, j \in DOMAIN log' : i <= j => log'[i].block <= log'[j].block
  <2>1. SUFFICES ASSUME NEW i \in DOMAIN log', NEW j \in DOMAIN log', i <= j
                 PROVE  log'[i].block <= log'[j].block
    OBVIOUS
  <2>2. CASE j \in DOMAIN log
    BY <1>2, <2>1, <2>2 DEF LogInv
  <2>3. CASE j \notin DOMAIN log
    BY <1>3, <1>4, <2>3 DEF LogInv
  <2>. QED
    BY <2>2, <2>3
<1>. QED
  BY <1>2, <1>3, <1>4, <1>5 DEF LogInv

LEMMA LogSteps ==
  ASSUME LogInv, pendingTx \in Seq(UserOp), Mine \/ MineElsewhere
  PROVE  LogInv' /\ pendingTx' \in Seq(UserOp)
<1>1. CASE Mine
  <2>1. CASE log' = log \o Events(pendingTx)
    BY <1>1, <2>1, LogGrows DEF Mine
  <2>2. CASE log' = log
    BY <1>1, <2>2 DEF Mine, LogInv
  <2>. QED
    BY <1>1, <2>1, <2>2 DEF Mine
<1>2. CASE MineElsewhere
  <2>1. PICK op \in UserOp : log' = log \o Events(<<op>>)
    BY <1>2 DEF MineElsewhere
  <2>2. <<op>> \in Seq(UserOp)
    OBVIOUS
  <2>. QED
    BY <1>2, <2>1, <2>2, LogGrows DEF MineElsewhere
<1>. QED
  BY <1>1, <1>2

LEMMA ScanTyped ==
  ASSUME scan \in [Task -> [from : Nat, at : Nat, then : Thens]], NEW t \in Task,
         \/ \E then \in Thens : scan' = [scan EXCEPT ![t].then = then]
         \/ scan' = [scan EXCEPT ![t] = NoScan]
         \/ head \in Nat /\ \E from \in Nat : Query(t, from)
  PROVE  scan' \in [Task -> [from : Nat, at : Nat, then : Thens]]
<1>1. CASE \E then \in Thens : scan' = [scan EXCEPT ![t].then = then]
  BY <1>1
<1>2. CASE scan' = [scan EXCEPT ![t] = NoScan]
  BY <1>2 DEF NoScan, Thens
<1>3. CASE head \in Nat /\ \E from \in Nat : Query(t, from)
  BY <1>3 DEF Query
<1>. QED
  BY <1>1, <1>2, <1>3

LEMMA DataStep ==
  ASSUME MutexInv, PoolInv, BuildInv, DataInv, [Next]_vars
  PROVE  DataInv'
<1>. USE DEF DataInv
<1>1. ASSUME UNCHANGED <<poolVars, answer, scan, mode, eventVars, chainVars>>
      PROVE  DataInv'
  BY <1>1 DEF poolVars, memVars, repVars, eventVars, chainVars, CountTypeOK, RepTypeOK, LogInv
<1>2. ASSUME NEW t \in RpcTask, NEW op \in UserOp, Submit(t, op)
      PROVE  DataInv'
  BY <1>1, <1>2 DEF Submit
<1>3. ASSUME UNCHANGED <<poolVars, mode, heard, chainVars>>, lastBlock' \in Nat,
             answer' \in [Task -> {"none", "ok", "error"}],
             scan' \in [Task -> [from : Nat, at : Nat, then : Thens]]
      PROVE  DataInv'
  BY <1>3 DEF poolVars, memVars, repVars, chainVars, CountTypeOK, RepTypeOK, LogInv
<1>4. ASSUME UNCHANGED <<answer, scan, mode, eventVars, chainVars>>, CountTypeOK'
      PROVE  DataInv'
  BY <1>4 DEF eventVars, chainVars, LogInv
<1>5. ASSUME NEW t \in TimerTask \cup DebugTask, ForceBundle(t)
      PROVE  DataInv'
  BY <1>3, <1>5, ScanTyped DEF ForceBundle, SendNextBundle, eventVars, Thens, Task
<1>6. ASSUME NEW t \in Task, HandlePastEvents(t) \/ BlockNumber(t) \/ PastEventsFail(t)
      PROVE  DataInv'
  <2>1. CASE HandlePastEvents(t)
    BY <1>3, <2>1, ScanTyped DEF HandlePastEvents, LogInv, eventVars
  <2>2. CASE BlockNumber(t)
    <3>1. lastBlock' \in Nat
      BY <2>2, BundlerAssumption DEF BlockNumber, LogInv
    <3>. QED
      BY <1>3, <2>2, <3>1, ScanTyped DEF BlockNumber, LogInv
  <2>3. CASE PastEventsFail(t)
    BY <1>3, <2>3, ScanTyped DEF PastEventsFail, eventVars
  <2>. QED
    BY <1>6, <2>1, <2>2, <2>3
<1>7. ASSUME NEW t \in Task, PastEvents(t)
      PROVE  DataInv'
  <2>1. PICK upto \in scan[t].at .. head :
          HandleEvents({i \in DOMAIN log : log[i].block \in scan[t].from .. upto}, TRUE)
    BY <1>7 DEF PastEvents
  <2>2. CountTypeOK' /\ lastBlock' \in Nat
    BY <2>1, HandledTyped DEF PoolInv
  <2>. QED
    BY <1>7, <2>2, ScanTyped DEF PastEvents, chainVars, LogInv
<1>8. ASSUME NEW t \in Task, Validate(t) \/ LeaveBundle(t) \/ Finish(t)
      PROVE  DataInv'
  <2>1. CASE Validate(t)
    BY <1>1, <2>1 DEF Validate
  <2>2. CASE LeaveBundle(t)
    BY <1>3, <2>2, ScanTyped DEF LeaveBundle, eventVars, Thens
  <2>3. CASE Finish(t)
    BY <1>3, <2>3, ScanTyped DEF Finish, Reply, eventVars, Thens
  <2>. QED
    BY <1>8, <2>1, <2>2, <2>3
<1>9. ASSUME NEW t \in Task, Admit(t)
      PROVE  DataInv'
  <2>1. CountTypeOK'
    BY <1>9, AdmittedTyped DEF Admit, PoolInv
  <2>2. scan' \in [Task -> [from : Nat, at : Nat, then : Thens]]
    BY <1>9, ScanTyped DEF Admit, SendNextBundle, Thens
  <2>. QED
    BY <1>9, <2>1, <2>2 DEF Admit, eventVars, chainVars, LogInv
<1>10. ASSUME NEW t \in Task,
              CreateBundle(t) \/ RevalidateFails(t) \/ RevalidateSucceeds(t) \/ BalanceOf(t)
       PROVE  DataInv'
  <2>1. entryCount' \in [Addr -> Nat]
    BY <1>10, LoopTyped
       DEF CreateBundle, RevalidateFails, RevalidateSucceeds, BalanceOf, Include, CountTypeOK, PoolInv, memVars
  <2>2. UNCHANGED <<repVars, answer, scan, mode, eventVars, chainVars>>
    BY <1>10 DEF CreateBundle, RevalidateFails, RevalidateSucceeds, BalanceOf, buildUnchanged
  <2>. QED
    BY <1>4, <2>1, <2>2 DEF CountTypeOK, RepTypeOK, repVars
<1>11. ASSUME NEW t \in Task, BuildFails(t) \/ Prepare(t) \/ SendFatal(t)
       PROVE  DataInv'
  BY <1>1, <1>11 DEF BuildFails, Prepare, SendFatal, buildUnchanged, sendUnchanged, poolVars
<1>12. ASSUME NEW t \in Task, Send(t)
       PROVE  DataInv'
  <2>1. build.bundle \in Seq(UserOp)
    BY DEF BuildInv, Locals
  <2>2. pendingTx' \in Seq(UserOp) /\ UNCHANGED <<head, log, txCount>>
    BY <1>12, <2>1 DEF Send, NodeAccepts, chainVars
  <2>. QED
    BY <1>12, <2>2 DEF Send, sendUnchanged, poolVars, memVars, repVars, eventVars, CountTypeOK, RepTypeOK, LogInv
<1>13. ASSUME NEW t \in Task, SendBlames(t) \/ SendDrops(t)
       PROVE  DataInv'
  <2>1. build.bundle \in Seq(UserOp)
    BY DEF BuildInv, Locals
  <2>2. CASE SendBlames(t)
    <3>1. PICK i \in DOMAIN build.bundle :
            \E blamed \in {build.bundle[i].sender, build.bundle[i].factory, build.bundle[i].paymaster} :
              IF blamed = NoAddr THEN UNCHANGED repVars ELSE CrashedHandleOps(blamed)
      BY <2>2 DEF SendBlames
    <3>2. RepTypeOK'
      BY <2>1, <3>1, CrashTyped DEF CountTypeOK
    <3>. QED
      BY <1>4, <2>2, <3>2 DEF SendBlames, sendUnchanged, CountTypeOK, memVars
  <2>3. CASE SendDrops(t)
    <3>1. CountTypeOK'
      BY <2>3, DroppedTyped DEF SendDrops, PoolInv
    <3>. QED
      BY <1>4, <2>3, <3>1 DEF SendDrops, sendUnchanged
  <2>. QED
    BY <1>13, <2>2, <2>3
<1>14. CASE Listen
  <2>1. heard' \in DOMAIN log
    BY <1>14 DEF Listen, LogInv
  <2>2. CountTypeOK' /\ lastBlock' \in Nat
    BY <1>14, <2>1, HandledTyped DEF Listen, PoolInv
  <2>. QED
    BY <1>14, <2>2 DEF Listen, taskVars, chainVars, LogInv
<1>15. CASE SetAutoBundler
  BY <1>15 DEF SetAutoBundler, poolVars, memVars, repVars, taskVars, eventVars, chainVars,
     CountTypeOK, RepTypeOK, LogInv
<1>16. CASE Mine \/ MineElsewhere
  <2>1. LogInv' /\ pendingTx' \in Seq(UserOp)
    BY <1>16, LogSteps
  <2>2. txCount' \in Nat /\ UNCHANGED envUnchanged
    BY <1>16 DEF Mine, MineElsewhere
  <2>. QED
    BY <2>1, <2>2 DEF envUnchanged, poolVars, memVars, repVars, taskVars, eventVars, CountTypeOK, RepTypeOK
<1>17. CASE DebugClearState
  <2>1. CountTypeOK'
    BY <1>17 DEF DebugClearState, ClearReputation, CountTypeOK, RepTypeOK, repVars, listVars
  <2>. QED
    BY <1>4, <1>17, <2>1 DEF DebugClearState, taskVars
<1>18. CASE UNCHANGED vars
  BY <1>1, <1>18 DEF vars, taskVars
<1>. QED
  BY <1>2, <1>5, <1>6, <1>7, <1>8, <1>9, <1>10, <1>11, <1>12, <1>13, <1>14, <1>15, <1>16, <1>17, <1>18
     DEF Next, Step

LEMMA PoolInvAlways == Spec => [](MutexInv /\ PoolInv /\ BuildInv)
<1>1. MutexInv /\ PoolInv /\ BuildInv /\ [Next]_vars => PoolInv' /\ BuildInv'
  BY PoolStep, BuildStep
<1>. QED
  BY <1>1, BuildInit, MutexInvAlways, PTL DEF Spec

LEMMA DataInvAlways == Spec => []DataInv
<1>1. ASSUME Init
      PROVE  DataInv
  <2>1. CountTypeOK
    BY <1>1 DEF Init, MemInit, RepInit, CountTypeOK, RepTypeOK
  <2>2. LogInv
    <3>1. log = <<>> /\ head = 1
      BY <1>1 DEF Init
    <3>. QED
      BY <3>1 DEF LogInv
  <2>3. scan \in [Task -> [from : Nat, at : Nat, then : Thens]]
    BY <1>1 DEF Init, NoScan, Thens
  <2>. QED
    BY <1>1, <2>1, <2>2, <2>3 DEF Init, DataInv
<1>2. MutexInv /\ PoolInv /\ BuildInv /\ DataInv /\ [Next]_vars => DataInv'
  BY DataStep
<1>. QED
  BY <1>1, <1>2, PoolInvAlways, PTL DEF Spec

(* Every variable of the bundler keeps its type, whatever calls, events,   *)
(* failures of the node and debug calls come, in whatever order.           *)
THEOREM BundlerTypeCorrect == Spec => []TypeOK
<1>1. ASSUME MutexInv, PoolInv, BuildInv, DataInv
      PROVE  TypeOK
  <2>1. MemTypeOK
    BY <1>1 DEF PoolInv, DataInv, CountTypeOK, MemTypeOK
  <2>2. build.bundle \in Seq(UserOp) /\ build.todo \in Seq(UserOp)
    BY <1>1 DEF BuildInv, Locals
  <2>3. ASSUME NEW i \in DOMAIN log
        PROVE  log[i].op \in UserOp /\ log[i].block \in 1 .. head
    <3>1. log \in Seq(Event) /\ log[i].block \in 2 .. head /\ head \in Nat
      BY <1>1 DEF DataInv, LogInv
    <3>2. log[i] \in Event
      BY <3>1
    <3>. QED
      BY <3>1, <3>2 DEF Event
  <2>4. /\ pc \in [Task -> Waits] /\ execQueue \in Seq(RpcTask) /\ bundleQueue \in Seq(Task)
        /\ arg \in [RpcTask -> UserOp \cup {NoOp}]
    BY <1>1 DEF MutexInv, ExecInv, BundleInv, PoolInv
  <2>5. /\ answer \in [Task -> {"none", "ok", "error"}]
        /\ scan \in [Task -> [from : Nat, at : Nat, then : {"none", "create", "finish", "flushed"}]]
        /\ mode \in Modes /\ lastBlock \in Nat /\ heard \in Nat /\ head \in Nat /\ txCount \in Nat
        /\ pendingTx \in Seq(UserOp)
    BY <1>1 DEF DataInv, LogInv, Thens
  <2>. QED
    BY <2>1, <2>2, <2>3, <2>4, <2>5 DEF TypeOK
<1>. QED
  BY <1>1, PoolInvAlways, DataInvAlways, PTL

-----------------------------------------------------------------------------
(* What a bundle costs                                                     *)

LEMMA TotalSums ==
  ASSUME NEW q \in Seq(Int)
  PROVE  \E f : SumsUp(f, q) /\ Total(q) = f[Len(q)]
<1>. DEFINE sum == CHOOSE f : f = [n \in 0 .. Len(q) |-> IF n = 0 THEN 0 ELSE f[n - 1] + q[n]]
<1>1. SumsUp(sum, q)
  BY SumExists DEF SumsUp
<1>2. Total(q) = sum[Len(q)]
  BY DEF Total
<1>. QED
  BY <1>1, <1>2

LEMMA TotalEmpty ==
  ASSUME NEW q \in Seq(Int), Len(q) = 0
  PROVE  Total(q) = 0
<1>1. PICK f : SumsUp(f, q) /\ Total(q) = f[Len(q)]
  BY TotalSums
<1>. QED
  BY <1>1 DEF SumsUp

LEMMA TotalAppend ==
  ASSUME NEW q \in Seq(Int), NEW x \in Int
  PROVE  Total(q) \in Int /\ Total(Append(q, x)) = Total(q) + x
<1>. DEFINE p == Append(q, x)
<1>1. /\ p \in Seq(Int) /\ Len(p) = Len(q) + 1 /\ p[Len(p)] = x /\ Len(q) \in Nat
      /\ \A n \in 1 .. Len(q) : p[n] = q[n]
  OBVIOUS
<1>. HIDE DEF p
<1>2. PICK f : SumsUp(f, q) /\ Total(q) = f[Len(q)]
  BY TotalSums
<1>3. PICK g : SumsUp(g, p) /\ Total(p) = g[Len(p)]
  BY <1>1, TotalSums
<1>4. f[Len(q)] \in Int /\ g[Len(q)] = f[Len(q)]
  BY <1>1, <1>2, <1>3, SumUnique
<1>5. g[Len(p)] = g[Len(q)] + x
  BY <1>1, <1>3 DEF SumsUp
<1>. QED
  BY <1>2, <1>3, <1>4, <1>5 DEF p

\* The same of an amount that every operation has
LEMMA TotalOfOps ==
  ASSUME NEW amount \in [UserOp -> Int], NEW ops \in Seq(UserOp), NEW op \in UserOp
  PROVE  /\ Total([i \in DOMAIN ops |-> amount[ops[i]]]) \in Int
         /\ Total([i \in DOMAIN Append(ops, op) |-> amount[Append(ops, op)[i]]])
              = Total([i \in DOMAIN ops |-> amount[ops[i]]]) + amount[op]
<1>. DEFINE q == [i \in DOMAIN ops |-> amount[ops[i]]]
            more == Append(ops, op)
            p == [i \in DOMAIN more |-> amount[more[i]]]
<1>1. /\ Len(ops) \in Nat /\ DOMAIN ops = 1 .. Len(ops) /\ \A i \in 1 .. Len(ops) : ops[i] \in UserOp
      /\ DOMAIN more = 1 .. Len(ops) + 1 /\ more[Len(ops) + 1] = op
      /\ \A i \in 1 .. Len(ops) : more[i] = ops[i]
  OBVIOUS
<1>. HIDE DEF more
<1>2. q \in Seq(Int) /\ Len(q) = Len(ops)
  BY <1>1
<1>3. p = Append(q, amount[op])
  <2>1. /\ Append(q, amount[op]) \in Seq(Int) /\ DOMAIN Append(q, amount[op]) = 1 .. Len(q) + 1
        /\ \A i \in 1 .. Len(q) : Append(q, amount[op])[i] = q[i]
        /\ Append(q, amount[op])[Len(q) + 1] = amount[op]
    BY <1>2
  <2>2. p \in [1 .. Len(ops) + 1 -> Int]
    BY <1>1
  <2>3. \A i \in 1 .. Len(ops) + 1 : p[i] = Append(q, amount[op])[i]
    BY <1>1, <1>2, <2>1
  <2>4. Append(q, amount[op]) = [i \in 1 .. Len(ops) + 1 |-> Append(q, amount[op])[i]]
    BY <1>2, <2>1
  <2>5. p = [i \in 1 .. Len(ops) + 1 |-> p[i]]
    BY <2>2
  <2>. HIDE DEF p, q
  <2>. QED
    BY <2>3, <2>4, <2>5
<1>. HIDE DEF p, q
<1>4. Total(q) \in Int /\ Total(p) = Total(q) + amount[op]
  BY <1>2, <1>3, TotalAppend
<1>. QED
  BY <1>4 DEF p, q, more

LEMMA GasAppend ==
  ASSUME NEW ops \in Seq(UserOp), NEW op \in UserOp
  PROVE  GasOf(Append(ops, op)) = GasOf(ops) + op.gas
<1>. DEFINE amount == [o \in UserOp |-> o.gas]
<1>1. amount \in [UserOp -> Int]
  BY OpAssumption
<1>2. \A s \in Seq(UserOp) :
        [i \in DOMAIN s |-> s[i].gas] = [i \in DOMAIN s |-> amount[s[i]]]
  OBVIOUS
<1>3. Append(ops, op) \in Seq(UserOp)
  OBVIOUS
<1>. HIDE DEF amount
<1>4. /\ GasOf(ops) = Total([i \in DOMAIN ops |-> amount[ops[i]]])
      /\ GasOf(Append(ops, op)) = Total([i \in DOMAIN Append(ops, op) |-> amount[Append(ops, op)[i]]])
  BY <1>2, <1>3 DEF GasOf
<1>5. amount[op] = op.gas
  BY DEF amount
<1>. QED
  BY <1>1, <1>4, <1>5, TotalOfOps

LEMMA PrefundAppend ==
  ASSUME NEW ops \in Seq(UserOp), NEW op \in UserOp, NEW a
  PROVE  /\ PrefundOf(a, ops) \in Int
         /\ PrefundOf(a, Append(ops, op)) = PrefundOf(a, ops) + IF op.paymaster = a THEN op.prefund ELSE 0
<1>. DEFINE amount == [o \in UserOp |-> IF o.paymaster = a THEN o.prefund ELSE 0]
<1>1. amount \in [UserOp -> Int]
  BY OpAssumption
<1>2. \A s \in Seq(UserOp) :
        [i \in DOMAIN s |-> IF s[i].paymaster = a THEN s[i].prefund ELSE 0]
          = [i \in DOMAIN s |-> amount[s[i]]]
  OBVIOUS
<1>3. Append(ops, op) \in Seq(UserOp)
  OBVIOUS
<1>. HIDE DEF amount
<1>4. /\ PrefundOf(a, ops) = Total([i \in DOMAIN ops |-> amount[ops[i]]])
      /\ PrefundOf(a, Append(ops, op)) = Total([i \in DOMAIN Append(ops, op) |-> amount[Append(ops, op)[i]]])
  BY <1>2, <1>3 DEF PrefundOf
<1>5. amount[op] = IF op.paymaster = a THEN op.prefund ELSE 0
  BY DEF amount
<1>. QED
  BY <1>1, <1>4, <1>5, TotalOfOps

LEMMA CostsNothing ==
  ASSUME NEW ops \in Seq(UserOp), Len(ops) = 0
  PROVE  GasOf(ops) = 0 /\ \A a : PrefundOf(a, ops) = 0
<1>. DEFINE gas == [i \in DOMAIN ops |-> ops[i].gas]
            prefund(a) == [i \in DOMAIN ops |-> IF ops[i].paymaster = a THEN ops[i].prefund ELSE 0]
<1>1. gas \in Seq(Int) /\ Len(gas) = 0
  BY OpAssumption
<1>2. \A a : prefund(a) \in Seq(Int) /\ Len(prefund(a)) = 0
  BY OpAssumption
<1>. HIDE DEF gas, prefund
<1>3. Total(gas) = 0 /\ \A a : Total(prefund(a)) = 0
  BY <1>1, <1>2, TotalEmpty
<1>. QED
  BY <1>3 DEF gas, prefund, GasOf, PrefundOf

(* The gas of the operations that were taken is what was counted and fits; *)
(* what is left of a deposit is what was read less the prefunds, and no    *)
(* operation of a paymaster is taken before its deposit is read.           *)
Covered(b) ==
  /\ b.gas \in Nat /\ GasOf(b.bundle) = b.gas /\ b.gas <= MaxBundleGas
  /\ b.deposit \in [Addr -> Int] /\ b.balance \in [Addr -> Int]
  /\ \A a \in Addr :
       IF b.deposit[a] = Unread
       THEN PrefundOf(a, b.bundle) = 0 /\ \A i \in DOMAIN b.bundle : b.bundle[i].paymaster # a
       ELSE b.deposit[a] \in Nat /\ PrefundOf(a, b.bundle) + b.deposit[a] = b.balance[a]

Fits(b, op) == b.gas + op.gas <= MaxBundleGas

\* The deposit that is awaited was not read before, and the gas still fits.
Awaited(b) ==
  /\ Candidate.paymaster \in Addr /\ build.deposit[Candidate.paymaster] = Unread
  /\ Fits(build, Candidate)

CostInv ==
  /\ Covered(build)
  /\ \A t \in Task : pc[t] = "balance" => Awaited(build)

LEMMA NothingCovered ==
  ASSUME NEW b, b.bundle = NoBuild.bundle, b.gas = NoBuild.gas, b.deposit = NoBuild.deposit,
         b.balance = NoBuild.balance
  PROVE  Covered(b)
<1>1. /\ b.bundle = <<>> /\ b.gas = 0
      /\ b.deposit = [a \in Addr |-> Unread] /\ b.balance = [a \in Addr |-> Unread]
  BY DEF NoBuild
<1>2. b.bundle \in Seq(UserOp) /\ Len(b.bundle) = 0 /\ DOMAIN b.bundle = {}
  <2>1. <<>> \in Seq(UserOp) /\ Len(<<>>) = 0 /\ DOMAIN <<>> = {}
    OBVIOUS
  <2>. QED
    BY <1>1, <2>1
<1>3. GasOf(b.bundle) = 0 /\ \A a : PrefundOf(a, b.bundle) = 0
  BY <1>2, CostsNothing
<1>. QED
  BY <1>1, <1>2, <1>3, BundlerAssumption DEF Covered, Unread

LEMMA LoopCosts ==
  ASSUME NEW t \in Task, NEW V, NEW b \in Locals(V), NEW judged, Loop(t, b, judged), Covered(b)
  PROVE  Covered(build')
<1>1. PICK rest : build' = [b EXCEPT !.todo = rest]
  BY DEF Loop
<1>2. /\ build'.bundle = b.bundle /\ build'.gas = b.gas /\ build'.deposit = b.deposit
      /\ build'.balance = b.balance
  BY <1>1 DEF Locals
<1>. QED
  BY <1>2 DEF Covered

LEMMA IncludeCosts ==
  ASSUME NEW t \in Task, NEW V, NEW b \in Locals(V), NEW op \in UserOp, Include(t, op, b),
         Covered(b), Fits(b, op)
  PROVE  Covered(build')
<1>. DEFINE deposit == [a \in Addr |-> IF a = op.paymaster THEN b.deposit[a] - op.prefund ELSE b.deposit[a]]
            more == [b EXCEPT !.bundle = Append(@, op), !.gas = @ + op.gas, !.deposit = deposit]
            W == V \cup {b.gas + op.gas, deposit}
<1>1. CASE op.paymaster = NoAddr \/ b.deposit[op.paymaster] >= op.prefund
  <2>1. Loop(t, more, {})
    BY <1>1 DEF Include
  <2>2. \A a \in Addr : deposit[a] = IF a = op.paymaster THEN b.deposit[a] - op.prefund ELSE b.deposit[a]
    OBVIOUS
  <2>3. deposit \in [Addr -> Int]
    BY OpAssumption DEF Covered
  <2>. HIDE DEF deposit
  <2>4. /\ b.bundle \in Seq(UserOp) /\ Append(b.bundle, op) \in Seq(UserOp)
        /\ DOMAIN b.bundle = 1 .. Len(b.bundle) /\ Len(b.bundle) \in Nat
        /\ DOMAIN Append(b.bundle, op) = 1 .. Len(b.bundle) + 1
        /\ \A i \in DOMAIN b.bundle : Append(b.bundle, op)[i] = b.bundle[i]
        /\ Append(b.bundle, op)[Len(b.bundle) + 1] = op
    BY DEF Locals
  <2>5. /\ more \in Locals(W) /\ more.bundle = Append(b.bundle, op)
        /\ more.gas = b.gas + op.gas /\ more.deposit = deposit /\ more.balance = b.balance
    BY <2>4 DEF Locals
  <2>. HIDE DEF more, W
  <2>6. more.gas \in Nat /\ GasOf(more.bundle) = more.gas /\ more.gas <= MaxBundleGas
    BY <2>4, <2>5, GasAppend, OpAssumption DEF Covered, Fits
  <2>7. ASSUME NEW a \in Addr
        PROVE  IF deposit[a] = Unread
               THEN /\ PrefundOf(a, more.bundle) = 0
                    /\ \A i \in DOMAIN more.bundle : more.bundle[i].paymaster # a
               ELSE deposit[a] \in Nat /\ PrefundOf(a, more.bundle) + deposit[a] = b.balance[a]
    <3>1. /\ PrefundOf(a, b.bundle) \in Int
          /\ PrefundOf(a, more.bundle)
               = PrefundOf(a, b.bundle) + IF op.paymaster = a THEN op.prefund ELSE 0
      BY <2>4, <2>5, PrefundAppend
    <3>2. CASE op.paymaster = a
      <4>1. op.prefund \in Nat /\ b.deposit[a] \in Int /\ b.balance[a] \in Int /\ b.deposit[a] >= op.prefund
        BY <1>1, <3>2, OpAssumption, AddrLower DEF Covered
      <4>2. b.deposit[a] # Unread
        BY <4>1 DEF Unread
      <4>3. PrefundOf(a, b.bundle) + b.deposit[a] = b.balance[a]
        BY <4>2 DEF Covered
      <4>4. deposit[a] = b.deposit[a] - op.prefund /\ deposit[a] # Unread /\ deposit[a] \in Nat
        BY <2>2, <3>2, <4>1 DEF Unread
      <4>. QED
        BY <3>1, <3>2, <4>1, <4>3, <4>4
    <3>3. CASE op.paymaster # a
      <4>1. deposit[a] = b.deposit[a] /\ PrefundOf(a, more.bundle) = PrefundOf(a, b.bundle)
        BY <2>2, <3>1, <3>3
      <4>2. b.deposit[a] = Unread => \A i \in DOMAIN more.bundle : more.bundle[i].paymaster # a
        BY <2>4, <2>5, <3>3 DEF Covered
      <4>. QED
        BY <4>1, <4>2 DEF Covered
    <3>. QED
      BY <3>2, <3>3
  <2>8. Covered(more)
    BY <2>3, <2>5, <2>6, <2>7 DEF Covered
  <2>. QED
    BY <2>1, <2>5, <2>8, LoopCosts
<1>2. CASE ~(op.paymaster = NoAddr \/ b.deposit[op.paymaster] >= op.prefund)
  BY <1>2, LoopCosts DEF Include
<1>. QED
  BY <1>1, <1>2

LEMMA CostOf ==
  ASSUME MutexInv, CostInv, NEW t \in Task, InSection(t), pc' = [pc EXCEPT ![t] = pc'[t]],
         Covered(build'), pc'[t] = "balance" => Awaited(build)'
  PROVE  CostInv'
<1>1. \A q \in Task \ {t} : pc'[q] # "balance"
  BY DEF MutexInv, BundleInv, InSection, Building
<1>. QED
  BY <1>1 DEF CostInv

LEMMA CostSame ==
  ASSUME MutexInv, CostInv, NEW t \in Task, pc' = [pc EXCEPT ![t] = pc'[t]], build' = build,
         pc'[t] # "balance"
  PROVE  CostInv'
<1>1. \A q \in Task : pc'[q] = "balance" => q # t /\ pc[q] = pc'[q]
  BY DEF MutexInv
<1>. QED
  BY <1>1 DEF CostInv, Covered, Awaited, Fits, Candidate

\* A loop ends anywhere but at the await of balanceOf.
LEMMA LoopCost ==
  ASSUME MutexInv, CostInv, NEW t \in Task, InSection(t), NEW V, NEW b \in Locals(V), NEW judged,
         Loop(t, b, judged), Covered(b)
  PROVE  CostInv'
<1>1. pc \in [Task -> Waits]
  BY DEF MutexInv
<1>2. pc' = [pc EXCEPT ![t] = pc'[t]] /\ pc'[t] # "balance"
  BY <1>1 DEF Loop, Goto
<1>. QED
  BY <1>2, LoopCosts, CostOf

LEMMA IncludeCost ==
  ASSUME MutexInv, CostInv, NEW t \in Task, InSection(t), NEW V, NEW b \in Locals(V), NEW op \in UserOp,
         Include(t, op, b), Covered(b), Fits(b, op)
  PROVE  CostInv'
<1>1. pc \in [Task -> Waits]
  BY DEF MutexInv
<1>2. pc' = [pc EXCEPT ![t] = pc'[t]] /\ pc'[t] # "balance"
  BY <1>1 DEF Include, Loop, Goto
<1>. QED
  BY <1>2, IncludeCosts, CostOf

LEMMA JudgeCosts ==
  ASSUME MutexInv, BuildInv, CostInv, NEW t \in Task,
         RevalidateFails(t) \/ RevalidateSucceeds(t) \/ BalanceOf(t)
  PROVE  CostInv'
<1>1. /\ pc[t] \in {"revalidate", "balance"} /\ InSection(t) /\ pc \in [Task -> Waits]
      /\ HasCandidate(build)
  BY DEF RevalidateFails, RevalidateSucceeds, BalanceOf, InSection, Building, MutexInv, BuildInv
<1>2. PICK V : build \in Locals(V)
  BY DEF BuildInv
<1>3. Rest \in Locals(V) /\ Rest.bundle = build.bundle /\ Candidate \in UserOp
  BY <1>1, <1>2, RestGood
<1>4. Rest.gas = build.gas /\ Rest.deposit = build.deposit /\ Rest.balance = build.balance
  BY <1>2 DEF Rest, Locals
<1>5. Covered(Rest)
  BY <1>3, <1>4 DEF CostInv, Covered
<1>6. CASE RevalidateFails(t)
  BY <1>1, <1>3, <1>5, <1>6, LoopCost DEF RevalidateFails
<1>7. CASE RevalidateSucceeds(t)
  <2>1. CASE TouchesKnownSender(Candidate)
    BY <1>1, <1>3, <1>5, <1>7, <2>1, LoopCost DEF RevalidateSucceeds
  <2>2. CASE ~TouchesKnownSender(Candidate) /\ build.gas + Candidate.gas > MaxBundleGas
    <3>. DEFINE none == <<>>
                b == [build EXCEPT !.todo = none]
    <3>1. none \in Seq(UserOp)
      OBVIOUS
    <3>2. Loop(t, b, {})
      BY <1>7, <2>2 DEF RevalidateSucceeds
    <3>. HIDE DEF none
    <3>3. /\ b \in Locals(V) /\ b.bundle = build.bundle /\ b.gas = build.gas
          /\ b.deposit = build.deposit /\ b.balance = build.balance
      BY <1>2, <3>1 DEF Locals
    <3>. HIDE DEF b
    <3>4. Covered(b)
      BY <3>3 DEF CostInv, Covered
    <3>. QED
      BY <1>1, <3>2, <3>3, <3>4, LoopCost
  <2>3. CASE Fits(build, Candidate) /\ Candidate.paymaster # NoAddr
               /\ build.deposit[Candidate.paymaster] = Unread
               /\ Goto(t, "balance") /\ build' = build
    <3>1. Candidate.paymaster \in Addr
      BY <1>3, <2>3, UserOpAssumption
    <3>2. Awaited(build)'
      BY <2>3, <3>1 DEF Awaited, Fits, Candidate
    <3>3. Covered(build')
      BY <2>3 DEF CostInv
    <3>4. pc' = [pc EXCEPT ![t] = pc'[t]]
      BY <1>1, <2>3 DEF Goto
    <3>. QED
      BY <1>1, <3>2, <3>3, <3>4, CostOf
  <2>4. CASE Fits(build, Candidate) /\ Include(t, Candidate, Rest)
    <3>1. Fits(Rest, Candidate)
      BY <1>4, <2>4 DEF Fits
    <3>. QED
      BY <1>1, <1>3, <1>5, <2>4, <3>1, IncludeCost
  <2>5. ~(build.gas + Candidate.gas > MaxBundleGas) => Fits(build, Candidate)
    BY <1>3, OpAssumption, BundlerAssumption DEF Fits, CostInv, Covered
  <2>. QED
    BY <1>7, <2>1, <2>2, <2>3, <2>4, <2>5 DEF RevalidateSucceeds
<1>8. CASE BalanceOf(t)
  <2>1. PICK d \in Deposit :
          Include(t, Candidate, [Rest EXCEPT !.deposit[Candidate.paymaster] = d,
                                             !.balance[Candidate.paymaster] = d])
    BY <1>8 DEF BalanceOf
  <2>. DEFINE a == Candidate.paymaster
              deposit == [build.deposit EXCEPT ![a] = d]
              balance == [build.balance EXCEPT ![a] = d]
              b == [Rest EXCEPT !.deposit = deposit, !.balance = balance]
  <2>2. Include(t, Candidate, b)
    <3>1. [Rest EXCEPT !.deposit[a] = d, !.balance[a] = d] = b
      BY <1>3, <1>4 DEF Locals
    <3>. QED
      BY <2>1, <3>1
  <2>3. a \in Addr /\ build.deposit[a] = Unread /\ Fits(build, Candidate) /\ Covered(build) /\ d \in Nat
    BY <1>8, BundlerAssumption DEF BalanceOf, CostInv, Awaited
  <2>4. /\ deposit \in [Addr -> Int] /\ balance \in [Addr -> Int]
        /\ deposit[a] = d /\ balance[a] = d
        /\ \A x \in Addr \ {a} : deposit[x] = build.deposit[x] /\ balance[x] = build.balance[x]
    BY <2>3 DEF Covered
  <2>. HIDE DEF deposit, balance
  <2>5. /\ b \in Locals(V \cup {deposit, balance}) /\ b.bundle = build.bundle /\ b.gas = build.gas
        /\ b.deposit = deposit /\ b.balance = balance
    BY <1>3, <1>4 DEF Locals
  <2>. HIDE DEF b
  <2>6. Covered(b)
    <3>1. d # Unread /\ PrefundOf(a, b.bundle) = 0
      BY <2>3, <2>5 DEF Unread, Covered
    <3>. QED
      BY <2>3, <2>4, <2>5, <3>1 DEF Covered
  <2>7. Fits(b, Candidate)
    BY <2>3, <2>5 DEF Fits
  <2>. QED
    BY <1>1, <1>3, <2>2, <2>5, <2>6, <2>7, IncludeCost
<1>. QED
  BY <1>6, <1>7, <1>8

LEMMA CostStep ==
  ASSUME MutexInv, PoolInv, BuildInv, CostInv, [Next]_vars
  PROVE  CostInv'
<1>1. ASSUME UNCHANGED <<pc, build>>
      PROVE  CostInv'
  BY <1>1 DEF CostInv, Covered, Awaited, Fits, Candidate
<1>2. CASE \/ \E t \in RpcTask, op \in UserOp : Submit(t, op)
           \/ \E t \in TimerTask \cup DebugTask : ForceBundle(t)
  BY <1>2, CostSame DEF Submit, ForceBundle, SendNextBundle, Goto, MutexInv, Task
<1>3. ASSUME NEW t \in Task, Step(t)
      PROVE  CostInv'
  <2>. USE DEF Goto
  <2>1. CASE HandlePastEvents(t) \/ BlockNumber(t) \/ PastEventsFail(t)
    BY <2>1, CostSame DEF HandlePastEvents, BlockNumber, PastEventsFail, Query, MutexInv
  <2>2. CASE PastEvents(t)
    <3>1. scan[t].then # "balance"
      BY <2>2 DEF PastEvents, MutexInv, ScanShape, Thens
    <3>. QED
      BY <2>2, <3>1, CostSame DEF PastEvents, MutexInv
  <2>3. CASE Validate(t) \/ Admit(t) \/ Finish(t)
    BY <2>3, CostSame DEF Validate, Admit, SendNextBundle, Finish, Reply, MutexInv
  <2>4. CASE LeaveBundle(t)
    <3>1. /\ pc[t] \in {"return", "throw"} /\ pc' = [pc EXCEPT ![t] = pc'[t]]
          /\ pc'[t] \in {"scan", "finish", "fail"} /\ build' = NoBuild
      BY <2>4 DEF LeaveBundle, MutexInv
    <3>. QED
      BY <3>1, NothingCovered, CostOf DEF InSection, Building
  <2>5. CASE CreateBundle(t)
    <3>1. PICK entries \in SortedForInclusion :
            Loop(t, [NoBuild EXCEPT !.todo = entries, !.known = KnownSenders], {})
      BY <2>5 DEF CreateBundle
    <3>. DEFINE b == [NoBuild EXCEPT !.todo = entries, !.known = KnownSenders]
                V == {KnownSenders, {}, NoBuild.gas, NoBuild.deposit, NoBuild.balance, NoBuild.nonce}
    <3>2. entries \in Seq(UserOp)
      BY <3>1, FS_CardinalityType DEF SortedForInclusion, PoolInv
    <3>3. NoBuild \in Locals(V)
      BY DEF NoBuild, Locals
    <3>4. /\ b \in Locals(V) /\ b.bundle = NoBuild.bundle /\ b.gas = NoBuild.gas
          /\ b.deposit = NoBuild.deposit /\ b.balance = NoBuild.balance
      BY <3>2, <3>3 DEF Locals
    <3>. HIDE DEF b, V
    <3>5. Covered(b)
      BY <3>4, NothingCovered
    <3>6. Loop(t, b, {})
      BY <3>1 DEF b
    <3>. QED
      BY <2>5, <3>4, <3>5, <3>6, LoopCost DEF CreateBundle, InSection, Building
  <2>6. CASE RevalidateFails(t) \/ RevalidateSucceeds(t) \/ BalanceOf(t)
    BY <2>6, JudgeCosts
  <2>7. CASE Prepare(t)
    <3>1. PICK V : build \in Locals(V)
      BY DEF BuildInv
    <3>2. /\ build'.bundle = build.bundle /\ build'.gas = build.gas
          /\ build'.deposit = build.deposit /\ build'.balance = build.balance
      BY <2>7, <3>1 DEF Prepare, Locals
    <3>3. Covered(build')
      BY <3>2 DEF CostInv, Covered
    <3>. QED
      BY <2>7, <3>3, CostOf DEF Prepare, MutexInv, InSection, Building
  <2>8. CASE BuildFails(t) \/ Send(t) \/ SendFatal(t) \/ SendBlames(t) \/ SendDrops(t)
    BY <2>8, CostSame DEF BuildFails, Send, SendFatal, SendBlames, SendDrops, sendUnchanged, MutexInv
  <2>. QED
    BY <1>3, <2>1, <2>2, <2>3, <2>4, <2>5, <2>6, <2>7, <2>8 DEF Step
<1>4. CASE Listen \/ SetAutoBundler \/ DebugClearState \/ Mine \/ MineElsewhere \/ UNCHANGED vars
  BY <1>1, <1>4 DEF Listen, SetAutoBundler, DebugClearState, Mine, MineElsewhere, envUnchanged, vars, taskVars
<1>. QED
  BY <1>2, <1>3, <1>4 DEF Next

(* A bundle has one operation per sender, at most maxBundleGas, and for    *)
(* every paymaster no more prefunds than the deposit that was read         *)
(* (BundleManager.ts:163-262), for any number of operations, whatever      *)
(* order they come in and whoever changes the mempool in between.          *)
THEOREM BundleSoundAlways == Spec => []BundleSound
<1>1. ASSUME Init
      PROVE  CostInv
  <2>1. build = NoBuild /\ \A t \in Task : pc[t] = "idle"
    BY <1>1 DEF Init
  <2>2. Covered(build)
    BY <2>1, NothingCovered
  <2>. QED
    BY <2>1, <2>2 DEF CostInv
<1>2. MutexInv /\ PoolInv /\ BuildInv /\ CostInv /\ [Next]_vars => CostInv'
  BY CostStep
<1>3. ASSUME BuildInv, CostInv
      PROVE  BundleSound
  <2>1. build.bundle \in Seq(UserOp) /\ \A i \in DOMAIN build.bundle : build.bundle[i] \in UserOp
    BY <1>3 DEF BuildInv, Locals
  <2>2. ASSUME NEW i \in DOMAIN build.bundle, build.bundle[i].paymaster # NoAddr
        PROVE  PrefundOf(build.bundle[i].paymaster, build.bundle) <= build.balance[build.bundle[i].paymaster]
    <3>. DEFINE a == build.bundle[i].paymaster
    <3>1. a \in Addr
      BY <2>1, <2>2, UserOpAssumption
    <3>2. build.deposit[a] # Unread
      BY <1>3, <3>1 DEF CostInv, Covered
    <3>3. build.deposit[a] \in Nat /\ PrefundOf(a, build.bundle) + build.deposit[a] = build.balance[a]
      BY <1>3, <3>1, <3>2 DEF CostInv, Covered
    <3>4. PrefundOf(a, build.bundle) \in Int
      BY <2>1, PrefundAppend
    <3>. QED
      BY <3>3, <3>4
  <2>. QED
    BY <1>3, <2>2 DEF BundleSound, BuildInv, Good, CostInv, Covered
<1>. QED
  BY <1>1, <1>2, <1>3, PoolInvAlways, PTL DEF Spec

-----------------------------------------------------------------------------
(* What leaves the mempool, and why                                        *)

\* What a step of the bundler can do to the pending operations
LEMMA PoolChange ==
  ASSUME MutexInv, PoolInv, [Next]_vars
  PROVE  \/ mempool' \subseteq mempool
         \/ \E op \in UserOp : InsertUserOp(op) \/ ReplaceUserOp(op)
<1>. USE DEF poolVars, memVars
<1>1. ASSUME NEW t \in Task, Step(t)
      PROVE  \/ mempool' \subseteq mempool
             \/ \E op \in UserOp : InsertUserOp(op) \/ ReplaceUserOp(op)
  <2>1. CASE Admit(t)
    BY <2>1 DEF Admit, PoolInv, RejectUserOp, RefuseReplacement
  <2>2. CASE PastEvents(t)
    BY <2>2 DEF PastEvents, HandleEvents, RemoveEntries
  <2>3. CASE CreateBundle(t) \/ RevalidateFails(t) \/ RevalidateSucceeds(t) \/ BalanceOf(t)
    BY <2>3, LoopShrinks DEF CreateBundle, RevalidateFails, RevalidateSucceeds, BalanceOf, Include
  <2>4. CASE SendDrops(t)
    BY <2>4 DEF SendDrops, RemoveUserOp, Remove
  <2>5. CASE HandlePastEvents(t) \/ BlockNumber(t) \/ PastEventsFail(t) \/ Validate(t) \/ LeaveBundle(t)
    BY <2>5 DEF HandlePastEvents, BlockNumber, PastEventsFail, Validate, LeaveBundle
  <2>6. CASE \/ Finish(t) \/ BuildFails(t) \/ Prepare(t) \/ Send(t) \/ SendFatal(t) \/ SendBlames(t)
    BY <2>6 DEF Finish, BuildFails, Prepare, Send, SendFatal, SendBlames
  <2>. QED
    BY <1>1, <2>1, <2>2, <2>3, <2>4, <2>5, <2>6 DEF Step
<1>2. CASE \/ \E t \in RpcTask, op \in UserOp : Submit(t, op)
           \/ \E t \in TimerTask \cup DebugTask : ForceBundle(t)
  BY <1>2 DEF Submit, ForceBundle
<1>3. CASE Listen \/ DebugClearState
  BY <1>3 DEF Listen, HandleEvents, RemoveEntries, DebugClearState
<1>4. CASE SetAutoBundler \/ Mine \/ MineElsewhere \/ UNCHANGED vars
  BY <1>4 DEF SetAutoBundler, Mine, MineElsewhere, envUnchanged, vars
<1>. QED
  BY <1>1, <1>2, <1>3, <1>4 DEF Next

(* The whole bundler, and not only MempoolManager by itself, keeps the     *)
(* promise of the board: whatever the handlers of events, of the calls and *)
(* of the ticks do in between, an operation is put on a free place, gives  *)
(* way to one that pays 10% more, or goes.                                 *)
THEOREM BundlerImplementsBoard == Spec => BoardSpec
<1>1. Init => Board!Init
  BY DEF Init, MemInit, Board!Init
<1>2. ASSUME MutexInv, PoolInv, [Next]_vars
      PROVE  [Board!Next]_mempool
  <2>1. ASSUME NEW op \in UserOp, ReplaceUserOp(op)
        PROVE  Board!Next
    <3>1. PICK old \in FindBySenderNonce(op) :
            CheckReplaceUserOp(old, op) /\ mempool' = (mempool \ {old}) \cup {op}
      BY <2>1 DEF ReplaceUserOp
    <3>2. old \in mempool /\ SameSenderNonce(old, op)
      BY DEF FindBySenderNonce
    <3>3. Board!Better(op, old)
      BY <3>1 DEF CheckReplaceUserOp, TenPercentMore, Board!Better
    <3>4. Board!Outbid(old, op)
      BY <3>1, <3>2, <3>3 DEF SameSenderNonce, Board!Outbid, Board!SamePlace
    <3>. QED
      BY <3>2, <3>4 DEF Board!Next
  <2>2. ASSUME NEW op \in UserOp, InsertUserOp(op)
        PROVE  Board!Next
    <3>1. Board!Place(op)
      BY <2>2 DEF InsertUserOp, FindBySenderNonce, SameSenderNonce, Board!Place, Board!SamePlace
    <3>. QED
      BY <3>1 DEF Board!Next
  <2>3. CASE mempool' \subseteq mempool
    BY <2>3 DEF Board!Next, Board!Withdraw
  <2>. QED
    BY <1>2, <2>1, <2>2, <2>3, PoolChange
<1>. QED
  BY <1>1, <1>2, PoolInvAlways, PTL DEF Spec, BoardSpec, Board!Spec

\* An operation that an event took was included.
LEMMA SeenOnChain ==
  ASSUME NEW I, I \subseteq DOMAIN log, NEW deployed, HandleEvents(I, deployed),
         NEW e \in mempool \ mempool'
  PROVE  OnChain(e)
<1>1. mempool' = mempool \ {x \in mempool : \E i \in I : Hash(x) = Hash(log[i].op)}
  BY DEF HandleEvents, RemoveEntries
<1>2. PICK i \in I : Hash(e) = Hash(log[i].op)
  BY <1>1
<1>. QED
  BY <1>2 DEF OnChain

\* The loop only drops slots of what it judges, and what is left to look at
\* does not grow.
LEMMA LoopDrops ==
  ASSUME NEW t \in Task, NEW V, NEW b \in Locals(V), NEW judged, Loop(t, b, judged)
  PROVE  /\ \A e \in mempool \ mempool' : \E op \in judged \cup Range(b.todo) :
              (op \in judged \/ BannedEntity(op)) /\ SameSenderNonce(op, e)
         /\ Len(build'.todo) <= Len(b.todo)
<1>. DEFINE len == Len(b.todo)
            kept == {i \in 1 .. len : ~Skipped(b.todo[i], b.bundle)}
            next == CHOOSE i \in kept \cup {len + 1} : \A j \in kept : i <= j
            banned == {b.todo[i] : i \in {j \in 1 .. next - 1 : BannedEntity(b.todo[j])}}
<1>1. len \in Nat /\ DOMAIN b.todo = 1 .. len /\ b.todo \in Seq(UserOp)
  BY DEF Locals
<1>2. next \in kept \cup {len + 1}
  <2>1. kept \cup {len + 1} \subseteq Nat /\ kept \cup {len + 1} # {}
    BY <1>1
  <2>. QED
    BY <2>1, SmallestExists
<1>3. /\ RemoveEntries(UNION {FindBySenderNonce(e) : e \in judged \cup banned})
      /\ build' = [b EXCEPT !.todo = SubSeq(b.todo, next, len)]
  BY DEF Loop
<1>. HIDE DEF next
<1>4. next \in 1 .. len + 1
  BY <1>1, <1>2
<1>5. Len(build'.todo) <= len
  <2>1. Len(SubSeq(b.todo, next, len)) = len - next + 1
    BY <1>1, <1>4
  <2>2. build'.todo = SubSeq(b.todo, next, len)
    BY <1>3 DEF Locals
  <2>. QED
    BY <1>1, <1>4, <2>1, <2>2
<1>6. \A op \in banned : op \in Range(b.todo) /\ BannedEntity(op)
  BY <1>1, <1>4 DEF Range
<1>. HIDE DEF banned, len
<1>7. ASSUME NEW e \in mempool \ mempool'
      PROVE  \E op \in judged \cup Range(b.todo) :
               (op \in judged \/ BannedEntity(op)) /\ SameSenderNonce(op, e)
  <2>1. PICK op \in judged \cup banned : e \in FindBySenderNonce(op)
    BY <1>3, <1>7 DEF RemoveEntries
  <2>2. SameSenderNonce(op, e)
    BY <2>1 DEF FindBySenderNonce, SameSenderNonce
  <2>. QED
    BY <1>6, <2>2
<1>. QED
  BY <1>5, <1>7 DEF len

\* A loop over what was left after the candidate, or over nothing, judges the
\* candidate and the banned ones.
LEMMA LoopJudges ==
  ASSUME MutexInv, BuildInv, NEW t \in Task, pc[t] \in {"revalidate", "balance"},
         NEW V, NEW b \in Locals(V), NEW judged \in SUBSET {Candidate}, Loop(t, b, judged),
         Len(b.todo) < Len(build.todo), Range(b.todo) \subseteq Range(build.todo),
         NEW e \in mempool \ mempool'
  PROVE  \E op \in UserOp : Judges(t, op) /\ SameSenderNonce(op, e)
<1>1. /\ build.todo \in Seq(UserOp) /\ build.todo # <<>>
      /\ Len(b.todo) \in Nat /\ Len(build.todo) \in Nat
  BY DEF BuildInv, Locals, HasCandidate
<1>2. Candidate \in Range(build.todo) /\ Range(build.todo) \subseteq UserOp
  BY <1>1 DEF Candidate, Range
<1>3. PICK op \in judged \cup Range(b.todo) :
        (op \in judged \/ BannedEntity(op)) /\ SameSenderNonce(op, e)
  BY LoopDrops
<1>4. build' # build
  BY <1>1, LoopDrops
<1>5. op \in Range(build.todo) /\ (op = Candidate \/ BannedEntity(op))
  BY <1>2, <1>3
<1>. QED
  BY <1>2, <1>3, <1>4, <1>5 DEF Judges

LEMMA BuilderJudges ==
  ASSUME MutexInv, PoolInv, BuildInv, NEW t \in Task,
         CreateBundle(t) \/ RevalidateFails(t) \/ RevalidateSucceeds(t) \/ BalanceOf(t),
         NEW e \in mempool \ mempool'
  PROVE  \E op \in UserOp : Judges(t, op) /\ SameSenderNonce(op, e)
<1>1. PICK V : build \in Locals(V)
  BY DEF BuildInv
<1>2. CASE CreateBundle(t)
  <2>1. PICK entries \in SortedForInclusion :
          Loop(t, [NoBuild EXCEPT !.todo = entries, !.known = KnownSenders], {})
    BY <1>2 DEF CreateBundle
  <2>. DEFINE b == [NoBuild EXCEPT !.todo = entries, !.known = KnownSenders]
              W == {KnownSenders, {}, NoBuild.gas, NoBuild.deposit, NoBuild.balance, NoBuild.nonce}
  <2>2. entries \in [1 .. Cardinality(mempool) -> mempool] /\ Cardinality(mempool) \in Nat
    BY <2>1, FS_CardinalityType DEF SortedForInclusion, PoolInv
  <2>3. entries \in Seq(UserOp) /\ Range(entries) \subseteq mempool
    BY <2>2 DEF PoolInv, Range
  <2>4. NoBuild \in Locals(W)
    BY DEF NoBuild, Locals
  <2>5. b \in Locals(W) /\ b.todo = entries
    BY <2>3, <2>4 DEF Locals
  <2>. HIDE DEF b, W
  <2>6. Loop(t, b, {})
    BY <2>1 DEF b
  <2>7. PICK op \in Range(entries) : BannedEntity(op) /\ SameSenderNonce(op, e)
    BY <2>5, <2>6, LoopDrops
  <2>8. pc[t] = "create" /\ pc' # pc
    BY <1>2, <2>6 DEF CreateBundle, Loop, Goto, MutexInv
  <2>9. Judges(t, op) /\ op \in UserOp
    BY <2>3, <2>7, <2>8 DEF Judges, PoolInv
  <2>. QED
    BY <2>7, <2>9
<1>3. CASE RevalidateFails(t) \/ RevalidateSucceeds(t) \/ BalanceOf(t)
  <2>1. pc[t] \in {"revalidate", "balance"} /\ HasCandidate(build)
    BY <1>3 DEF RevalidateFails, RevalidateSucceeds, BalanceOf, BuildInv
  <2>2. /\ build.todo \in Seq(UserOp) /\ build.todo # <<>> /\ Tail(build.todo) \in Seq(UserOp)
        /\ DOMAIN build.todo = 1 .. Len(build.todo) /\ Len(build.todo) \in Nat \ {0}
        /\ DOMAIN Tail(build.todo) = 1 .. Len(build.todo) - 1
        /\ Len(Tail(build.todo)) = Len(build.todo) - 1
        /\ \A i \in 1 .. Len(build.todo) - 1 : Tail(build.todo)[i] = build.todo[i + 1]
    BY <1>1, <2>1 DEF Locals, HasCandidate
  <2>3. /\ Len(Tail(build.todo)) < Len(build.todo)
        /\ Range(Tail(build.todo)) \subseteq Range(build.todo)
    BY <2>2 DEF Range
  <2>4. Rest \in Locals(V) /\ Rest.todo = Tail(build.todo)
    BY <1>1, <2>2 DEF Rest, Locals
  <2>5. ASSUME NEW b, NEW W, b \in Locals(W), b.todo = Tail(build.todo),
               NEW judged \in SUBSET {Candidate}, Loop(t, b, judged)
        PROVE  \E op \in UserOp : Judges(t, op) /\ SameSenderNonce(op, e)
    BY <2>1, <2>3, <2>5, LoopJudges
  <2>6. ASSUME NEW b, NEW W, b \in Locals(W), b.todo = Tail(build.todo), Include(t, Candidate, b)
        PROVE  \E op \in UserOp : Judges(t, op) /\ SameSenderNonce(op, e)
    <3>. DEFINE op == Candidate
                deposit == [a \in Addr |-> IF a = op.paymaster THEN b.deposit[a] - op.prefund ELSE b.deposit[a]]
                more == [b EXCEPT !.bundle = Append(@, op), !.gas = @ + op.gas, !.deposit = deposit]
                X == W \cup {b.gas + op.gas, deposit}
    <3>1. Loop(t, more, {}) \/ Loop(t, b, {})
      BY <2>6 DEF Include
    <3>. HIDE DEF deposit
    <3>2. Append(b.bundle, op) \in Seq(UserOp)
      BY <2>1, <2>2, <2>6 DEF Locals, Candidate
    <3>3. more \in Locals(X) /\ more.todo = b.todo
      BY <2>6, <3>2 DEF Locals
    <3>. HIDE DEF more, X, op
    <3>. QED
      BY <2>5, <2>6, <3>1, <3>3
  <2>7. CASE RevalidateFails(t)
    BY <2>4, <2>5, <2>7 DEF RevalidateFails
  <2>8. CASE RevalidateSucceeds(t)
    <3>1. CASE Loop(t, Rest, {})
      BY <2>4, <2>5, <3>1
    <3>2. CASE Loop(t, [build EXCEPT !.todo = <<>>], {})
      <4>. DEFINE none == <<>>
                  b == [build EXCEPT !.todo = none]
      <4>1. none \in Seq(UserOp) /\ Len(none) = 0 /\ Range(none) = {}
        BY DEF Range
      <4>2. Loop(t, b, {})
        BY <3>2
      <4>. HIDE DEF none
      <4>3. b \in Locals(V) /\ b.todo = none
        BY <1>1, <4>1 DEF Locals
      <4>. HIDE DEF b
      <4>. QED
        BY <2>1, <2>2, <4>1, <4>2, <4>3, LoopJudges
    <3>3. CASE UNCHANGED memVars
      BY <3>3 DEF memVars
    <3>4. CASE Include(t, Candidate, Rest)
      BY <2>4, <2>6, <3>4
    <3>. QED
      BY <2>8, <3>1, <3>2, <3>3, <3>4 DEF RevalidateSucceeds
  <2>9. CASE BalanceOf(t)
    <3>1. PICK d \in Deposit :
            Include(t, Candidate, [Rest EXCEPT !.deposit[Candidate.paymaster] = d,
                                               !.balance[Candidate.paymaster] = d])
      BY <2>9 DEF BalanceOf
    <3>. DEFINE b == [Rest EXCEPT !.deposit[Candidate.paymaster] = d, !.balance[Candidate.paymaster] = d]
    <3>2. b \in Locals(V \cup {b.deposit, b.balance}) /\ b.todo = Rest.todo
      BY <2>4 DEF Locals
    <3>. HIDE DEF b
    <3>3. Include(t, Candidate, b)
      BY <3>1 DEF b
    <3>. QED
      BY <2>4, <2>6, <3>2, <3>3
  <2>. QED
    BY <1>3, <2>7, <2>8, <2>9
<1>. QED
  BY <1>2, <1>3

(* An operation leaves the mempool for a cause (EventsManager.ts:96,       *)
(* BundleManager.ts:116-128 and 163-262, MempoolManager.ts:74-108,         *)
(* debug_bundler_clearState): no interleaving of the handlers loses one.   *)
THEOREM RemovedForCauseAlways == Spec => RemovedForCause
<1>1. ASSUME MutexInv, PoolInv, BuildInv, DataInv, [Next]_vars, NEW e \in mempool \ mempool'
      PROVE  \/ OnChain(e) \/ Outbid(e) \/ DebugClearState
             \/ \E t \in Task, op \in UserOp : Judges(t, op) /\ SameSenderNonce(op, e)
  <2>. USE DEF poolVars, memVars
  <2>1. ASSUME NEW t \in Task, Step(t)
        PROVE  \/ OnChain(e) \/ Outbid(e)
               \/ \E op \in UserOp : Judges(t, op) /\ SameSenderNonce(op, e)
    <3>1. CASE PastEvents(t)
      <4>1. PICK upto :
              HandleEvents({i \in DOMAIN log : log[i].block \in scan[t].from .. upto}, TRUE)
        BY <3>1 DEF PastEvents
      <4>. QED
        BY <1>1, <4>1, SeenOnChain
    <3>2. CASE Admit(t)
      <4>1. ASSUME NEW op, ReplaceUserOp(op)
            PROVE  Outbid(e)
        <5>1. PICK old \in FindBySenderNonce(op) :
                CheckReplaceUserOp(old, op) /\ mempool' = (mempool \ {old}) \cup {op}
          BY <4>1 DEF ReplaceUserOp
        <5>2. e = old
          BY <1>1, <5>1
        <5>3. SameSenderNonce(e, op) /\ CheckReplaceUserOp(e, op) /\ op \in mempool'
          BY <5>1, <5>2 DEF FindBySenderNonce
        <5>. QED
          BY <5>3 DEF Outbid
      <4>2. ASSUME NEW op, InsertUserOp(op) \/ RejectUserOp(op) \/ RefuseReplacement(op)
            PROVE  FALSE
        BY <1>1, <4>2 DEF InsertUserOp, RejectUserOp, RefuseReplacement
      <4>. QED
        BY <3>2, <4>1, <4>2 DEF Admit
    <3>3. CASE CreateBundle(t) \/ RevalidateFails(t) \/ RevalidateSucceeds(t) \/ BalanceOf(t)
      BY <1>1, <3>3, BuilderJudges
    <3>4. CASE SendDrops(t)
      <4>1. PICK i \in DOMAIN build.bundle : RemoveUserOp(build.bundle[i])
        BY <3>4 DEF SendDrops
      <4>2. build.bundle[i] \in UserOp /\ build.bundle[i] \in Range(build.bundle)
        BY <1>1 DEF BuildInv, Locals, Range
      <4>3. SameSenderNonce(build.bundle[i], e)
        BY <1>1, <4>1 DEF RemoveUserOp, Remove, FindBySenderNonce, SameSenderNonce
      <4>4. pc[t] = "send" /\ pc' # pc
        BY <1>1, <3>4 DEF SendDrops, Goto, MutexInv
      <4>. QED
        BY <4>2, <4>3, <4>4 DEF Judges
    <3>5. CASE HandlePastEvents(t) \/ BlockNumber(t) \/ PastEventsFail(t) \/ Validate(t) \/ LeaveBundle(t)
      BY <1>1, <3>5 DEF HandlePastEvents, BlockNumber, PastEventsFail, Validate, LeaveBundle
    <3>6. CASE Finish(t) \/ BuildFails(t) \/ Prepare(t) \/ Send(t) \/ SendFatal(t) \/ SendBlames(t)
      BY <1>1, <3>6 DEF Finish, BuildFails, Prepare, Send, SendFatal, SendBlames
    <3>. QED
      BY <2>1, <3>1, <3>2, <3>3, <3>4, <3>5, <3>6 DEF Step
  <2>2. CASE \/ \E t \in RpcTask, op \in UserOp : Submit(t, op)
             \/ \E t \in TimerTask \cup DebugTask : ForceBundle(t)
    BY <1>1, <2>2 DEF Submit, ForceBundle
  <2>3. CASE Listen
    <3>1. heard \in Nat /\ log \in Seq(Event)
      BY <1>1 DEF DataInv, LogInv
    <3>2. heard' \in DOMAIN log
      BY <2>3, <3>1 DEF Listen
    <3>. QED
      BY <1>1, <2>3, <3>2, SeenOnChain DEF Listen
  <2>4. CASE SetAutoBundler \/ Mine \/ MineElsewhere \/ UNCHANGED vars
    BY <1>1, <2>4 DEF SetAutoBundler, Mine, MineElsewhere, envUnchanged, vars
  <2>. QED
    BY <1>1, <2>1, <2>2, <2>3, <2>4 DEF Next
<1>2. MutexInv /\ PoolInv /\ BuildInv /\ DataInv /\ [Next]_vars =>
        [\A e \in mempool \ mempool' :
           \/ OnChain(e) \/ Outbid(e) \/ DebugClearState
           \/ \E t \in Task, op \in UserOp : Judges(t, op) /\ SameSenderNonce(op, e)]_mempool
  BY <1>1
<1>. QED
  BY <1>2, PoolInvAlways, DataInvAlways, PTL DEF Spec, RemovedForCause

-----------------------------------------------------------------------------
(* Scans under the mutex only                                              *)

\* Nothing listens, no debug call comes, and no mode makes attemptBundle scan
\* without the mutex.  (runBundler does start the listener: what is lost then is
\* what the runs bundler_twice and bundler_missed show.)
ScansLocked == ~Listening /\ ~DebugRpc /\ \A m \in Modes : m[2] # 0

\* The same counts as Inclusions, of any log, and of its events before a block
In(l, a, I) ==
  Cardinality({i \in I : Account(l[i].op) = a}) + Cardinality({i \in I : l[i].op.paymaster = a})
    + Cardinality({i \in I : l[i].op.factory = a})
Before(l, block) == {i \in DOMAIN l : l[i].block < block}
Counted(a) == In(log, a, Before(log, lastBlock))

LEMMA InclusionsIn ==
  ASSUME LogInv, NEW a, NEW I, I \subseteq DOMAIN log
  PROVE  In(log, a, I) = Inclusions(a, I) /\ In(log, a, I) \in Nat
<1>1. \A J : J \subseteq I => Cardinality(J) \in Nat
  BY IndicesFinite DEF LogInv
<1>2. /\ Cardinality({i \in I : Account(log[i].op) = a}) \in Nat
      /\ Cardinality({i \in I : log[i].op.paymaster = a}) \in Nat
      /\ Cardinality({i \in I : log[i].op.factory = a}) \in Nat
  BY <1>1
<1>. QED
  BY <1>2 DEF In, Inclusions, Involving, Deploying

\* Events are counted one by one.
LEMMA InJoined ==
  ASSUME LogInv, NEW a, NEW I, I \subseteq DOMAIN log, NEW J, J \subseteq DOMAIN log, I \cap J = {}
  PROVE  In(log, a, I \cup J) = In(log, a, I) + In(log, a, J)
<1>1. ASSUME NEW A, A \subseteq I, NEW B, B \subseteq J
      PROVE  /\ Cardinality(A \cup B) = Cardinality(A) + Cardinality(B)
             /\ Cardinality(A) \in Nat /\ Cardinality(B) \in Nat
  <2>1. IsFiniteSet(A) /\ IsFiniteSet(B) /\ Cardinality(A) \in Nat /\ Cardinality(B) \in Nat
    BY <1>1, IndicesFinite DEF LogInv
  <2>2. A \cap B = {}
    BY <1>1
  <2>. QED
    BY <2>1, <2>2, FS_Union, FS_EmptySet
<1>2. /\ {i \in I \cup J : Account(log[i].op) = a}
           = {i \in I : Account(log[i].op) = a} \cup {i \in J : Account(log[i].op) = a}
      /\ {i \in I \cup J : log[i].op.paymaster = a}
           = {i \in I : log[i].op.paymaster = a} \cup {i \in J : log[i].op.paymaster = a}
      /\ {i \in I \cup J : log[i].op.factory = a}
           = {i \in I : log[i].op.factory = a} \cup {i \in J : log[i].op.factory = a}
  OBVIOUS
<1>. DEFINE A1 == {i \in I : Account(log[i].op) = a}
            A2 == {i \in I : log[i].op.paymaster = a}
            A3 == {i \in I : log[i].op.factory = a}
            B1 == {i \in J : Account(log[i].op) = a}
            B2 == {i \in J : log[i].op.paymaster = a}
            B3 == {i \in J : log[i].op.factory = a}
<1>3. /\ In(log, a, I) = Cardinality(A1) + Cardinality(A2) + Cardinality(A3)
      /\ In(log, a, J) = Cardinality(B1) + Cardinality(B2) + Cardinality(B3)
      /\ In(log, a, I \cup J) = Cardinality(A1 \cup B1) + Cardinality(A2 \cup B2) + Cardinality(A3 \cup B3)
  BY <1>2 DEF In
<1>4. A1 \subseteq I /\ A2 \subseteq I /\ A3 \subseteq I /\ B1 \subseteq J /\ B2 \subseteq J /\ B3 \subseteq J
  OBVIOUS
<1>. HIDE DEF A1, A2, A3, B1, B2, B3
<1>5. /\ Cardinality(A1 \cup B1) = Cardinality(A1) + Cardinality(B1)
      /\ Cardinality(A1) \in Nat /\ Cardinality(B1) \in Nat
  BY <1>1, <1>4
<1>6. /\ Cardinality(A2 \cup B2) = Cardinality(A2) + Cardinality(B2)
      /\ Cardinality(A2) \in Nat /\ Cardinality(B2) \in Nat
  BY <1>1, <1>4
<1>7. /\ Cardinality(A3 \cup B3) = Cardinality(A3) + Cardinality(B3)
      /\ Cardinality(A3) \in Nat /\ Cardinality(B3) \in Nat
  BY <1>1, <1>4
<1>. QED
  BY <1>3, <1>5, <1>6, <1>7

LEMMA InNothing == \A l, a : In(l, a, {}) = 0
<1>1. \A l, a : /\ {i \in {} : Account(l[i].op) = a} = {} /\ {i \in {} : l[i].op.paymaster = a} = {}
                /\ {i \in {} : l[i].op.factory = a} = {}
  OBVIOUS
<1>. QED
  BY <1>1, FS_EmptySet DEF In

LEMMA InMore ==
  ASSUME LogInv, NEW a, NEW J, J \subseteq DOMAIN log, NEW I, I \subseteq J
  PROVE  In(log, a, I) <= In(log, a, J)
<1>1. I \cup (J \ I) = J /\ I \cap (J \ I) = {}
  OBVIOUS
<1>2. In(log, a, J) = In(log, a, I) + In(log, a, J \ I)
  BY <1>1, InJoined
<1>. QED
  BY <1>2, InclusionsIn

(* No call is in a scan but inside the mutex, and there it goes from       *)
(* lastBlock, which has not moved since.                                   *)
ScanInv ==
  /\ ScansLocked
  /\ \A t \in Task : scan[t].then \in {"none", "create"}
  /\ \A t \in DebugTask : pc[t] = "idle"
  /\ \A t \in Task : pc[t] = "number" => lastBlock = 0
  /\ \A t \in Task : pc[t] = "query" => scan[t].from = lastBlock
  /\ lastBlock <= head + 1
  /\ head <= MaxBlocks \/ head = 1

LEMMA ScansInside ==
  ASSUME MutexInv, ScanInv, NEW t \in Task, pc[t] \in {"number", "query"}
  PROVE  InSection(t) /\ scan[t].then = "create"
  BY DEF MutexInv, ScanInv, InSection

\* A task that moves what the scans look at is the only one in a scan.
LEMMA ScanOf ==
  ASSUME MutexInv, ScanInv, DataInv, NEW t \in Task, t \notin DebugTask,
         InSection(t) \/ lastBlock' = lastBlock,
         pc' = [pc EXCEPT ![t] = pc'[t]], scan' \in [Task -> [from : Nat, at : Nat, then : Thens]],
         \A q \in Task \ {t} : scan'[q] = scan[q],
         scan'[t].then \in {"none", "create"},
         pc'[t] = "number" => lastBlock' = 0,
         pc'[t] = "query" => scan'[t].from = lastBlock',
         lastBlock' <= head + 1, head' = head
  PROVE  ScanInv'
<1>1. ASSUME NEW q \in Task, q # t, pc'[q] \in {"number", "query"}
      PROVE  /\ pc[q] = pc'[q] /\ scan'[q] = scan[q] /\ lastBlock' = lastBlock
  <2>1. pc[q] = pc'[q] /\ scan'[q] = scan[q]
    BY <1>1 DEF MutexInv
  <2>2. InSection(q)
    BY <1>1, <2>1, ScansInside
  <2>. QED
    BY <1>1, <2>1, <2>2 DEF MutexInv, BundleInv
<1>2. \A q \in DebugTask : pc'[q] = "idle"
  BY DEF ScanInv, MutexInv, Task
<1>. QED
  BY <1>1, <1>2 DEF ScanInv, ScansLocked

\* Where a step of the bundle builder leads
LEMMA BuilderMoves ==
  ASSUME MutexInv, NEW t \in Task,
         \/ CreateBundle(t) \/ RevalidateFails(t) \/ RevalidateSucceeds(t) \/ BalanceOf(t)
         \/ BuildFails(t) \/ Prepare(t) \/ Send(t) \/ SendFatal(t) \/ SendBlames(t) \/ SendDrops(t)
  PROVE  /\ pc' = [pc EXCEPT ![t] = pc'[t]] /\ pc'[t] \in Building
         /\ pc[t] \in Building /\ scan' = scan /\ UNCHANGED eventVars /\ head' = head
<1>1. pc \in [Task -> Waits]
  BY DEF MutexInv
<1>2. CASE CreateBundle(t) \/ RevalidateFails(t) \/ RevalidateSucceeds(t) \/ BalanceOf(t)
  <2>1. \E to \in Building : Goto(t, to)
    BY <1>2, LoopGoes DEF CreateBundle, RevalidateFails, RevalidateSucceeds, BalanceOf, Include, Building
  <2>2. pc[t] \in Building /\ UNCHANGED <<scan, eventVars, chainVars>>
    BY <1>2 DEF CreateBundle, RevalidateFails, RevalidateSucceeds, BalanceOf, buildUnchanged, Building
  <2>. QED
    BY <1>1, <2>1, <2>2 DEF Goto, chainVars
<1>3. CASE BuildFails(t) \/ Prepare(t)
  BY <1>1, <1>3 DEF BuildFails, Prepare, buildUnchanged, Goto, chainVars, Building
<1>4. CASE Send(t) \/ SendFatal(t) \/ SendBlames(t) \/ SendDrops(t)
  BY <1>1, <1>4 DEF Send, SendFatal, SendBlames, SendDrops, sendUnchanged, NodeAccepts, Goto, chainVars, Building
<1>. QED
  BY <1>2, <1>3, <1>4

EventsIn(from, upto) == {i \in DOMAIN log : log[i].block \in from .. upto}
LastOf(I) == CHOOSE i \in I : \A j \in I : j <= i

\* The block after the last of the events in a range of blocks
LEMMA NextBlock ==
  ASSUME LogInv, NEW from \in Nat, NEW upto \in Int, EventsIn(from, upto) # {}
  PROVE  /\ log[LastOf(EventsIn(from, upto))].block + 1 \in from .. head + 1
         /\ Before(log, log[LastOf(EventsIn(from, upto))].block + 1) = Before(log, from) \cup EventsIn(from, upto)
<1>. DEFINE I == EventsIn(from, upto)
            k == LastOf(I)
<1>1. k \in I /\ \A j \in I : j <= k
  BY LastOfEvents DEF LogInv, LastOf, EventsIn
<1>2. /\ \A i \in DOMAIN log : log[i].block \in Nat /\ log[i].block <= head
      /\ \A i, j \in DOMAIN log : i <= j => log[i].block <= log[j].block
      /\ DOMAIN log \subseteq Nat
  BY DEF LogInv
<1>. HIDE DEF k
<1>3. \A i \in I : log[i].block <= log[k].block
  BY <1>1, <1>2 DEF EventsIn
<1>. DEFINE b == log[k].block
<1>4. b \in from .. upto /\ b \in Nat /\ b <= head /\ \A i \in DOMAIN log : log[i].block \in from .. upto => log[i].block <= b
  BY <1>1, <1>2, <1>3 DEF EventsIn
<1>. HIDE DEF b
<1>5. Before(log, b + 1) = Before(log, from) \cup EventsIn(from, upto)
  BY <1>2, <1>4 DEF Before, EventsIn
<1>6. b + 1 \in from .. head + 1
  BY <1>4 DEF LogInv
<1>. QED
  BY <1>5, <1>6 DEF b, k

LEMMA ScanInvStep ==
  ASSUME MutexInv, PoolInv, DataInv, ScanInv, [Next]_vars
  PROVE  ScanInv'
<1>. DEFINE ScanType == scan \in [Task -> [from : Nat, at : Nat, then : Thens]]
<1>0. ScanType /\ pc \in [Task -> Waits] /\ lastBlock \in Nat /\ head \in Nat \ {0}
  BY DEF DataInv, LogInv, MutexInv
<1>1. ASSUME UNCHANGED <<pc, scan, eventVars, head>>
      PROVE  ScanInv'
  BY <1>1 DEF ScanInv, ScansLocked, eventVars
<1>2. ASSUME NEW t \in RpcTask, NEW op \in UserOp, Submit(t, op)
      PROVE  ScanInv'
  BY <1>0, <1>2, ScanOf, BundlerAssumption DEF Submit, Goto, eventVars, chainVars, ScanInv, Task
<1>3. ASSUME NEW t \in TimerTask \cup DebugTask, ForceBundle(t)
      PROVE  ScanInv'
  <2>1. t \in TimerTask /\ t \in Task /\ t \notin DebugTask
    BY <1>3, BundlerAssumption DEF ForceBundle, ScanInv, ScansLocked, Task
  <2>2. scan' = [scan EXCEPT ![t].then = "create"] /\ pc' = [pc EXCEPT ![t] = "scan"]
    BY <1>3 DEF ForceBundle, SendNextBundle, Goto
  <2>3. scan' \in [Task -> [from : Nat, at : Nat, then : Thens]] /\ scan'[t].then = "create"
        /\ \A q \in Task \ {t} : scan'[q] = scan[q]
    BY <1>0, <2>1, <2>2 DEF Thens
  <2>. QED
    BY <1>0, <1>3, <2>1, <2>2, <2>3, ScanOf DEF ForceBundle, eventVars, chainVars, ScanInv
<1>4. ASSUME NEW t \in Task, Step(t)
      PROVE  ScanInv'
  <2>1. pc[t] # "idle" /\ t \notin DebugTask
    <3>1. pc[t] # "idle"
      <4>1. scan[t].then # "idle"
        BY <1>0 DEF Thens
      <4>. QED
        BY <1>4 DEF Step, HandlePastEvents, BlockNumber, PastEvents, PastEventsFail, Validate, Admit,
           LeaveBundle, Finish, CreateBundle, RevalidateFails, RevalidateSucceeds, BalanceOf, BuildFails,
           Prepare, Send, SendFatal, SendBlames, SendDrops
    <3>. QED
      BY <3>1 DEF ScanInv
  <2>2. CASE HandlePastEvents(t)
    <3>1. scan[t].then \in {"none", "create"} /\ lastBlock <= head + 1
      BY DEF ScanInv
    <3>2. CASE lastBlock = 0
      BY <1>0, <2>1, <2>2, <3>1, <3>2, ScanOf DEF HandlePastEvents, Goto, eventVars, chainVars
    <3>3. CASE lastBlock # 0 /\ Query(t, lastBlock)
      <4>1. scan' \in [Task -> [from : Nat, at : Nat, then : Thens]]
        BY <1>0, <3>3, ScanTyped
      <4>2. /\ scan'[t].from = lastBlock /\ scan'[t].then = scan[t].then
            /\ \A q \in Task \ {t} : scan'[q] = scan[q]
        BY <1>0, <3>3 DEF Query
      <4>3. pc' = [pc EXCEPT ![t] = pc'[t]] /\ pc'[t] = "query" /\ UNCHANGED <<eventVars, chainVars>>
        BY <1>0, <2>2, <3>3 DEF HandlePastEvents, Query, Goto
      <4>. QED
        BY <2>1, <3>1, <4>1, <4>2, <4>3, ScanOf DEF eventVars, chainVars
    <3>. QED
      BY <2>2, <3>2, <3>3 DEF HandlePastEvents
  <2>3. CASE BlockNumber(t)
    <3>1. Query(t, lastBlock') /\ lastBlock' \in Nat /\ lastBlock' <= head + 1 /\ pc[t] = "number"
          /\ UNCHANGED chainVars
      BY <1>0, <2>3, BundlerAssumption DEF BlockNumber
    <3>2. scan' \in [Task -> [from : Nat, at : Nat, then : Thens]]
      BY <1>0, <3>1, ScanTyped
    <3>3. /\ scan'[t].from = lastBlock' /\ scan'[t].then = scan[t].then
          /\ \A q \in Task \ {t} : scan'[q] = scan[q]
      BY <1>0, <3>1 DEF Query
    <3>4. pc' = [pc EXCEPT ![t] = pc'[t]] /\ pc'[t] = "query"
      BY <1>0, <3>1 DEF Query, Goto
    <3>5. InSection(t) /\ scan[t].then = "create"
      BY <3>1, ScansInside
    <3>. QED
      BY <2>1, <3>1, <3>2, <3>3, <3>4, <3>5, ScanOf DEF chainVars
  <2>4. CASE PastEvents(t)
    <3>1. PICK upto \in scan[t].at .. head :
            HandleEvents({i \in DOMAIN log : log[i].block \in scan[t].from .. upto}, TRUE)
      BY <2>4 DEF PastEvents
    <3>2. /\ pc[t] = "query" /\ pc' = [pc EXCEPT ![t] = scan[t].then] /\ UNCHANGED chainVars
          /\ scan' = [scan EXCEPT ![t] = NoScan]
      BY <2>4 DEF PastEvents, Goto
    <3>3. InSection(t) /\ scan[t].then = "create" /\ scan[t].from = lastBlock
      BY <3>2, ScansInside DEF ScanInv
    <3>4. scan' \in [Task -> [from : Nat, at : Nat, then : Thens]]
      BY <1>0, <3>2, ScanTyped
    <3>5. scan'[t].then = "none" /\ \A q \in Task \ {t} : scan'[q] = scan[q]
      BY <1>0, <3>2 DEF NoScan
    <3>6. lastBlock' <= head + 1
      <4>1. HandleEvents(EventsIn(lastBlock, upto), TRUE)
        BY <3>1, <3>3 DEF EventsIn
      <4>. DEFINE I == EventsIn(lastBlock, upto)
      <4>2. lastBlock' = IF I = {} THEN lastBlock ELSE log[LastOf(I)].block + 1
        BY <4>1 DEF HandleEvents, LastOf
      <4>3. upto \in Int /\ LogInv
        BY <1>0, <3>1 DEF DataInv
      <4>4. I # {} => log[LastOf(I)].block + 1 \in lastBlock .. head + 1
        BY <1>0, <4>3, NextBlock
      <4>. HIDE DEF I
      <4>. QED
        BY <1>0, <4>2, <4>4 DEF ScanInv
    <3>. QED
      BY <1>0, <2>1, <3>2, <3>3, <3>4, <3>5, <3>6, ScanOf DEF chainVars
  <2>5. CASE PastEventsFail(t)
    <3>1. /\ pc' = [pc EXCEPT ![t] = pc'[t]] /\ pc'[t] \in {"throw", "fail"}
          /\ UNCHANGED <<eventVars, chainVars>> /\ scan' = [scan EXCEPT ![t] = NoScan]
      BY <1>0, <2>5 DEF PastEventsFail, Goto
    <3>2. scan' \in [Task -> [from : Nat, at : Nat, then : Thens]]
      BY <1>0, <3>1, ScanTyped
    <3>3. scan'[t].then = "none" /\ \A q \in Task \ {t} : scan'[q] = scan[q]
      BY <1>0, <3>1 DEF NoScan
    <3>. QED
      BY <2>1, <3>1, <3>2, <3>3, ScanOf DEF eventVars, chainVars, ScanInv
  <2>6. CASE Validate(t)
    <3>1. /\ pc' = [pc EXCEPT ![t] = pc'[t]] /\ pc'[t] \in {"admit", "fail"}
          /\ UNCHANGED <<eventVars, chainVars, scan>>
      BY <1>0, <2>6 DEF Validate, Goto
    <3>. QED
      BY <1>0, <2>1, <3>1, ScanOf DEF eventVars, chainVars, ScanInv
  <2>7. CASE Admit(t)
    <3>1. /\ pc' = [pc EXCEPT ![t] = pc'[t]] /\ pc'[t] \in {"scan", "finish", "fail"}
          /\ UNCHANGED <<eventVars, chainVars>>
          /\ scan' = scan \/ scan' = [scan EXCEPT ![t].then = "create"]
      BY <1>0, <2>7 DEF Admit, SendNextBundle, Goto
    <3>2. /\ scan' \in [Task -> [from : Nat, at : Nat, then : Thens]] /\ scan'[t].then \in {"none", "create"}
          /\ \A q \in Task \ {t} : scan'[q] = scan[q]
      BY <1>0, <3>1 DEF Thens, ScanInv
    <3>. QED
      BY <2>1, <3>1, <3>2, ScanOf DEF eventVars, chainVars, ScanInv
  <2>8. CASE LeaveBundle(t)
    <3>1. mode[2] # 0
      BY DEF DataInv, ScanInv, ScansLocked
    <3>2. /\ pc' = [pc EXCEPT ![t] = pc'[t]] /\ pc'[t] \in {"finish", "fail"}
          /\ UNCHANGED <<eventVars, chainVars, scan>>
      BY <1>0, <2>8, <3>1 DEF LeaveBundle, Goto
    <3>. QED
      BY <1>0, <2>1, <3>2, ScanOf DEF eventVars, chainVars, ScanInv
  <2>9. CASE Finish(t)
    <3>1. /\ pc' = [pc EXCEPT ![t] = pc'[t]] /\ pc'[t] = "done"
          /\ UNCHANGED <<eventVars, chainVars, scan>>
      BY <1>0, <2>1, <2>9 DEF Finish, Reply, Goto
    <3>. QED
      BY <1>0, <2>1, <3>1, ScanOf DEF eventVars, chainVars, ScanInv
  <2>10. CASE \/ CreateBundle(t) \/ RevalidateFails(t) \/ RevalidateSucceeds(t) \/ BalanceOf(t)
              \/ BuildFails(t) \/ Prepare(t) \/ Send(t) \/ SendFatal(t) \/ SendBlames(t) \/ SendDrops(t)
    <3>1. /\ pc' = [pc EXCEPT ![t] = pc'[t]] /\ pc'[t] \in Building
          /\ scan' = scan /\ UNCHANGED eventVars /\ head' = head
      BY <2>10, BuilderMoves
    <3>. QED
      BY <1>0, <2>1, <3>1, ScanOf DEF eventVars, ScanInv, Building
  <2>. QED
    BY <1>4, <2>2, <2>3, <2>4, <2>5, <2>6, <2>7, <2>8, <2>9, <2>10 DEF Step
<1>5. ~Listen /\ ~SetAutoBundler /\ ~DebugClearState
  BY DEF Listen, SetAutoBundler, DebugClearState, ScanInv, ScansLocked
<1>6. CASE Mine \/ MineElsewhere
  <2>1. head' = head + 1 /\ head < MaxBlocks /\ UNCHANGED <<taskVars, eventVars>>
    BY <1>6 DEF Mine, MineElsewhere, envUnchanged
  <2>. QED
    BY <1>0, <2>1, BundlerAssumption DEF ScanInv, ScansLocked, taskVars, eventVars
<1>7. CASE UNCHANGED vars
  BY <1>1, <1>7 DEF vars, taskVars, chainVars
<1>. QED
  BY <1>2, <1>3, <1>4, <1>5, <1>6, <1>7 DEF Next

\* What the scan of a task does when the node has answered
LEMMA ScanCounts ==
  ASSUME MutexInv, DataInv, ScanInv, NEW t \in Task, PastEvents(t)
  PROVE  /\ lastBlock' \in Nat /\ lastBlock' >= lastBlock /\ log' = log
         /\ \A a \in Addr : opsIncluded'[a] = opsIncluded[a] + In(log, a, Before(log, lastBlock'))
                                                - In(log, a, Before(log, lastBlock))
<1>1. PICK upto \in scan[t].at .. head :
        HandleEvents({i \in DOMAIN log : log[i].block \in scan[t].from .. upto}, TRUE)
  BY DEF PastEvents
<1>2. scan[t].from = lastBlock /\ log' = log /\ lastBlock \in Nat /\ upto \in Int /\ LogInv
  BY <1>1 DEF PastEvents, ScanInv, DataInv, LogInv, chainVars
<1>. DEFINE I == EventsIn(lastBlock, upto)
<1>3. HandleEvents(I, TRUE)
  BY <1>1, <1>2 DEF EventsIn
<1>4. I \subseteq DOMAIN log /\ I \cap Before(log, lastBlock) = {} /\ Before(log, lastBlock) \subseteq DOMAIN log
  BY <1>2 DEF Before, EventsIn
<1>5. /\ lastBlock' \in Nat /\ lastBlock' >= lastBlock
      /\ Before(log, lastBlock') = Before(log, lastBlock) \cup I
  <2>1. lastBlock' = IF I = {} THEN lastBlock ELSE log[LastOf(I)].block + 1
    BY <1>3 DEF HandleEvents, LastOf
  <2>2. I # {} => /\ log[LastOf(I)].block + 1 \in lastBlock .. head + 1
                  /\ Before(log, log[LastOf(I)].block + 1) = Before(log, lastBlock) \cup I
    BY <1>2, NextBlock
  <2>. HIDE DEF I
  <2>3. head \in Nat
    BY <1>2 DEF LogInv
  <2>. QED
    BY <1>2, <2>1, <2>2, <2>3
<1>. HIDE DEF I
<1>6. ASSUME NEW a \in Addr
      PROVE  opsIncluded'[a] = opsIncluded[a] + In(log, a, Before(log, lastBlock'))
                                 - In(log, a, Before(log, lastBlock))
  <2>1. In(log, a, Before(log, lastBlock')) = In(log, a, Before(log, lastBlock)) + In(log, a, I)
    BY <1>2, <1>4, <1>5, InJoined
  <2>2. In(log, a, I) = Inclusions(a, I) /\ In(log, a, I) \in Nat /\ In(log, a, Before(log, lastBlock)) \in Nat
    BY <1>2, <1>4, InclusionsIn
  <2>3. /\ Inclusions(a, I) = Involving(a, I) + Deploying(a, I)
        /\ Involving(a, I) \in Nat /\ Deploying(a, I) \in Nat /\ opsIncluded[a] \in Nat
    BY <1>2, <1>4, TimesNat DEF Inclusions, LogInv, DataInv, CountTypeOK, RepTypeOK
  <2>. QED
    BY <1>3, <2>1, <2>2, <2>3 DEF HandleEvents
<1>. QED
  BY <1>2, <1>5, <1>6

\* New events are after all that was counted.
LEMMA MinedLater ==
  ASSUME LogInv, NEW ops \in Seq(UserOp), log' = log \o Events(ops), head' = head + 1,
         NEW b \in Nat, b <= head + 1
  PROVE  Before(log', b) = Before(log, b) /\ \A a : In(log', a, Before(log', b)) = In(log, a, Before(log, b))
<1>1. /\ DOMAIN log \subseteq DOMAIN log' /\ head \in Nat
      /\ \A i \in DOMAIN log : log'[i] = log[i]
      /\ \A i \in DOMAIN log' \ DOMAIN log : log'[i].block = head + 1
  BY LogGrows DEF LogInv
<1>2. Before(log', b) = Before(log, b) /\ \A i \in Before(log, b) : log'[i] = log[i]
  BY <1>1 DEF Before
<1>. DEFINE J == Before(log, b)
<1>3. \A i \in J : log'[i] = log[i]
  BY <1>2
<1>. HIDE DEF J
<1>4. \A a : /\ {i \in J : Account(log'[i].op) = a} = {i \in J : Account(log[i].op) = a}
             /\ {i \in J : log'[i].op.paymaster = a} = {i \in J : log[i].op.paymaster = a}
             /\ {i \in J : log'[i].op.factory = a} = {i \in J : log[i].op.factory = a}
  BY <1>3
<1>5. \A a : In(log', a, J) = In(log, a, J)
  BY <1>4 DEF In
<1>. QED
  BY <1>2, <1>5 DEF J

LEMMA CountStep ==
  ASSUME MutexInv, PoolInv, BuildInv, DataInv, ScanInv, [Next]_vars
  PROVE  /\ lastBlock' >= lastBlock
         /\ \/ \A a \in Addr : opsIncluded'[a] = opsIncluded[a] + Counted(a)' - Counted(a)
            \/ UNCHANGED <<lastBlock, log>> /\ \E s \in Spelling : CrashedHandleOps(s)
            \/ /\ UNCHANGED <<opsIncluded, log>> /\ \A a : Counted(a) = 0
               /\ lastBlock' = IF head - Window < 1 THEN 1 ELSE head - Window
<1>0. /\ lastBlock \in Nat /\ \A a \in Addr : opsIncluded[a] \in Nat /\ Counted(a) \in Nat
  <2>1. Before(log, lastBlock) \subseteq DOMAIN log
    BY DEF Before
  <2>. QED
    BY <2>1, InclusionsIn DEF DataInv, CountTypeOK, RepTypeOK, Counted
<1>1. ASSUME UNCHANGED <<opsIncluded, lastBlock, log>>
      PROVE  lastBlock' >= lastBlock /\ \A a \in Addr : opsIncluded'[a] = opsIncluded[a] + Counted(a)' - Counted(a)
  BY <1>0, <1>1 DEF Counted
<1>. USE DEF poolVars, repVars, listVars, eventVars, chainVars
<1>2. CASE \/ \E t \in RpcTask, op \in UserOp : Submit(t, op)
           \/ \E t \in TimerTask \cup DebugTask : ForceBundle(t)
  BY <1>1, <1>2 DEF Submit, ForceBundle
<1>3. ASSUME NEW t \in Task, Step(t)
      PROVE  /\ lastBlock' >= lastBlock
             /\ \/ \A a \in Addr : opsIncluded'[a] = opsIncluded[a] + Counted(a)' - Counted(a)
                \/ UNCHANGED <<lastBlock, log>> /\ \E s \in Spelling : CrashedHandleOps(s)
                \/ /\ UNCHANGED <<opsIncluded, log>> /\ \A a : Counted(a) = 0
                   /\ lastBlock' = IF head - Window < 1 THEN 1 ELSE head - Window
  <2>1. CASE PastEvents(t)
    BY <2>1, ScanCounts DEF Counted
  <2>2. CASE BlockNumber(t)
    <3>1. lastBlock = 0 /\ lastBlock' \in Nat
      BY <2>2, BundlerAssumption DEF BlockNumber, ScanInv, DataInv, LogInv
    <3>2. Before(log, 0) = {}
      BY DEF Before, DataInv, LogInv
    <3>3. \A a : Counted(a) = 0
      BY <3>1, <3>2, InNothing DEF Counted
    <3>. QED
      BY <2>2, <3>1, <3>3 DEF BlockNumber
  <2>3. CASE SendBlames(t)
    <3>1. PICK i \in DOMAIN build.bundle :
            \E blamed \in {build.bundle[i].sender, build.bundle[i].factory, build.bundle[i].paymaster} :
              IF blamed = NoAddr THEN UNCHANGED repVars ELSE CrashedHandleOps(blamed)
      BY <2>3 DEF SendBlames
    <3>2. build.bundle[i] \in UserOp
      BY <3>1 DEF BuildInv, Locals
    <3>3. PICK blamed \in {build.bundle[i].sender, build.bundle[i].factory, build.bundle[i].paymaster} :
            IF blamed = NoAddr THEN UNCHANGED repVars ELSE CrashedHandleOps(blamed)
      BY <3>1
    <3>4. blamed \in Spelling \cup {NoAddr}
      BY <3>2, UserOpAssumption, AddrLower
    <3>5. UNCHANGED <<lastBlock, log>>
      BY <2>3 DEF SendBlames, sendUnchanged
    <3>6. CASE blamed = NoAddr
      BY <1>1, <3>3, <3>5, <3>6
    <3>7. CASE blamed # NoAddr
      BY <1>0, <3>3, <3>4, <3>5, <3>7
    <3>. QED
      BY <3>6, <3>7
  <2>4. CASE Admit(t)
    BY <1>1, <2>4 DEF Admit, InsertUserOp, ReplaceUserOp, RejectUserOp, RefuseReplacement, UpdateSeenRoles
  <2>5. CASE HandlePastEvents(t) \/ PastEventsFail(t) \/ Validate(t) \/ LeaveBundle(t) \/ Finish(t)
    BY <1>1, <2>5 DEF HandlePastEvents, PastEventsFail, Validate, LeaveBundle, Finish
  <2>6. CASE \/ CreateBundle(t) \/ RevalidateFails(t) \/ RevalidateSucceeds(t) \/ BalanceOf(t)
             \/ BuildFails(t) \/ Prepare(t)
    BY <1>1, <2>6 DEF CreateBundle, RevalidateFails, RevalidateSucceeds, BalanceOf, BuildFails, Prepare, buildUnchanged
  <2>7. CASE Send(t) \/ SendFatal(t) \/ SendDrops(t)
    BY <1>1, <2>7 DEF Send, SendFatal, SendDrops, sendUnchanged, NodeAccepts, RemoveUserOp
  <2>. QED
    BY <1>3, <2>1, <2>2, <2>3, <2>4, <2>5, <2>6, <2>7 DEF Step
<1>4. ~Listen /\ ~SetAutoBundler /\ ~DebugClearState
  BY DEF Listen, SetAutoBundler, DebugClearState, ScanInv, ScansLocked
<1>5. CASE Mine \/ MineElsewhere
  <2>1. UNCHANGED <<opsIncluded, lastBlock>> /\ head' = head + 1
    BY <1>5 DEF Mine, MineElsewhere, envUnchanged
  <2>2. log' = log \/ \E ops \in Seq(UserOp) : log' = log \o Events(ops)
    <3>1. \A op \in UserOp : <<op>> \in Seq(UserOp)
      OBVIOUS
    <3>. QED
      BY <1>5, <3>1 DEF Mine, MineElsewhere, DataInv
  <2>3. ASSUME NEW ops \in Seq(UserOp), log' = log \o Events(ops)
        PROVE  \A a : Counted(a)' = Counted(a)
    <3>1. lastBlock <= head + 1 /\ LogInv
      BY DEF ScanInv, DataInv
    <3>2. \A a : In(log', a, Before(log', lastBlock)) = In(log, a, Before(log, lastBlock))
      BY <1>0, <2>1, <2>3, <3>1, MinedLater
    <3>. QED
      BY <2>1, <3>2 DEF Counted
  <2>. QED
    BY <1>0, <1>1, <2>1, <2>2, <2>3
<1>6. CASE UNCHANGED vars
  BY <1>1, <1>6 DEF vars
<1>. QED
  BY <1>2, <1>3, <1>4, <1>5, <1>6 DEF Next

LEMMA CountedNat == DataInv => \A a \in Addr : Counted(a) \in Nat
<1>1. ASSUME DataInv
      PROVE  \A a \in Addr : Counted(a) \in Nat
  <2>1. Before(log, lastBlock) \subseteq DOMAIN log
    BY DEF Before
  <2>. QED
    BY <1>1, <2>1, InclusionsIn DEF DataInv, Counted
<1>. QED
  BY <1>1

LEMMA ScanInvAlways == ScansLocked /\ Spec => [](MutexInv /\ PoolInv /\ BuildInv /\ DataInv /\ ScanInv)
<1>1. ScansLocked /\ Init => ScanInv
  BY DEF Init, NoScan, ScanInv, Task
<1>2. MutexInv /\ PoolInv /\ DataInv /\ ScanInv /\ [Next]_vars => ScanInv'
  BY ScanInvStep
<1>. QED
  BY <1>1, <1>2, PoolInvAlways, DataInvAlways, PTL DEF Spec

(* Where scans run under the mutex only, lastBlock never moves back        *)
(* (EventsManager.ts:34-51): the block that one scan assigns, from an      *)
(* answer it has awaited, is never behind what another one has assigned    *)
(* meanwhile.                                                              *)
THEOREM ScansAdvanceLocked == ScansLocked /\ Spec => ScansAdvance
<1>1. MutexInv /\ PoolInv /\ BuildInv /\ DataInv /\ ScanInv /\ [Next]_vars => [lastBlock' >= lastBlock]_lastBlock
  BY CountStep
<1>. QED
  BY <1>1, ScanInvAlways, PTL DEF Spec, ScansAdvance

(* Where scans run under the mutex only, no inclusion is credited twice    *)
(* (EventsManager.ts:31-51 with its comment): not by a scan that fails and *)
(* is made again, nor by one that awaits while blocks are mined, nor when  *)
(* a crash has reset the counters.                                         *)
THEOREM CountedAtMostOnceLocked == ScansLocked /\ Spec => []CountedAtMostOnce
<1>. DEFINE AtMost == \A a \in Addr : opsIncluded[a] <= Counted(a)
<1>1. ASSUME Init
      PROVE  AtMost
  <2>1. log = <<>> /\ \A a \in Addr : opsIncluded[a] = 0
    BY <1>1 DEF Init, MemInit, RepInit
  <2>2. Before(log, lastBlock) = {}
    BY <2>1 DEF Before
  <2>3. \A a : Counted(a) = 0
    BY <2>2, InNothing DEF Counted
  <2>. QED
    BY <2>1, <2>3
<1>2. ASSUME MutexInv, PoolInv, BuildInv, DataInv, DataInv', ScanInv, AtMost, [Next]_vars
      PROVE  AtMost'
  <2>1. (\A a \in Addr : Counted(a) \in Nat) /\ (\A a \in Addr : Counted(a) \in Nat)'
    <3>1. (DataInv => \A a \in Addr : Counted(a) \in Nat)'
      BY CountedNat, PTL
    <3>. QED
      BY <1>2, <3>1, CountedNat
  <2>2. opsIncluded \in [Addr -> Nat]
    BY <1>2 DEF DataInv, CountTypeOK, RepTypeOK
  <2>3. CASE \A a \in Addr : opsIncluded'[a] = opsIncluded[a] + Counted(a)' - Counted(a)
    BY <1>2, <2>1, <2>2, <2>3
  <2>4. ASSUME UNCHANGED <<lastBlock, log>>, NEW s \in Spelling, CrashedHandleOps(s)
        PROVE  AtMost'
    <3>1. \A a \in Addr : Counted(a)' = Counted(a)
      BY <2>4 DEF Counted
    <3>2. \A a \in Addr : opsIncluded'[a] \in {opsIncluded[a], 0}
      BY <2>2, <2>4 DEF CrashedHandleOps
    <3>. QED
      BY <1>2, <2>1, <2>2, <3>1, <3>2
  <2>5. CASE opsIncluded' = opsIncluded /\ \A a : Counted(a) = 0
    BY <1>2, <2>1, <2>2, <2>5
  <2>. QED
    BY <1>2, <2>3, <2>4, <2>5, CountStep
<1>3. ASSUME DataInv, AtMost
      PROVE  CountedAtMostOnce
  <2>1. Before(log, lastBlock) \subseteq DOMAIN log /\ LogInv
    BY <1>3 DEF Before, DataInv
  <2>2. ASSUME NEW a \in Addr
        PROVE  opsIncluded[a] <= Inclusions(a, DOMAIN log)
    <3>1. In(log, a, Before(log, lastBlock)) <= In(log, a, DOMAIN log)
      BY <2>1, InMore
    <3>2. In(log, a, DOMAIN log) = Inclusions(a, DOMAIN log) /\ In(log, a, DOMAIN log) \in Nat
      BY <2>1, InclusionsIn
    <3>3. In(log, a, Before(log, lastBlock)) \in Nat /\ opsIncluded[a] \in Nat
      BY <1>3, <2>1, InclusionsIn DEF DataInv, CountTypeOK, RepTypeOK
    <3>. QED
      BY <1>3, <3>1, <3>2, <3>3 DEF Counted
  <2>. QED
    BY <2>2 DEF CountedAtMostOnce
<1>. HIDE DEF AtMost
<1>. QED
  BY <1>1, <1>2, <1>3, ScanInvAlways, PTL DEF Spec

\* No FailedOp blames an account, a paymaster or a factory.
NobodyCrashes == [][\A s \in Spelling : ~CrashedHandleOps(s)]_vars

(* Where scans run under the mutex only, no event is older than the first  *)
(* scan looks back and nobody's counter is reset, every event before       *)
(* lastBlock has been credited exactly once and none after it              *)
(* (EventsManager.ts:31-66 and 81-119).                                    *)
THEOREM CountedExactlyLocked ==
  ScansLocked /\ MaxBlocks <= Window /\ NobodyCrashes /\ Spec => []CountedExactly
<1>. DEFINE Exact == MaxBlocks <= Window /\ \A a \in Addr : opsIncluded[a] = Counted(a)
<1>1. ASSUME MaxBlocks <= Window /\ Init
      PROVE  Exact
  <2>1. log = <<>> /\ \A a \in Addr : opsIncluded[a] = 0
    BY <1>1 DEF Init, MemInit, RepInit
  <2>2. Before(log, lastBlock) = {}
    BY <2>1 DEF Before
  <2>3. \A a : Counted(a) = 0
    BY <2>2, InNothing DEF Counted
  <2>. QED
    BY <1>1, <2>1, <2>3
<1>2. ASSUME MutexInv, PoolInv, BuildInv, DataInv, DataInv', ScanInv, Exact, [Next]_vars,
             [\A s \in Spelling : ~CrashedHandleOps(s)]_vars
      PROVE  Exact'
  <2>1. (\A a \in Addr : Counted(a) \in Nat) /\ (\A a \in Addr : Counted(a) \in Nat)'
    <3>1. (DataInv => \A a \in Addr : Counted(a) \in Nat)'
      BY CountedNat, PTL
    <3>. QED
      BY <1>2, <3>1, CountedNat
  <2>2. opsIncluded \in [Addr -> Nat]
    BY <1>2 DEF DataInv, CountTypeOK, RepTypeOK
  <2>3. CASE \A a \in Addr : opsIncluded'[a] = opsIncluded[a] + Counted(a)' - Counted(a)
    BY <1>2, <2>1, <2>2, <2>3
  <2>4. CASE UNCHANGED vars
    BY <1>2, <2>4 DEF vars, poolVars, repVars, eventVars, chainVars, Counted
  <2>5. CASE /\ UNCHANGED <<opsIncluded, log>> /\ \A a : Counted(a) = 0
             /\ lastBlock' = IF head - Window < 1 THEN 1 ELSE head - Window
    <3>1. lastBlock' = 1
      BY <1>2, <2>5, BundlerAssumption DEF ScanInv, DataInv, LogInv
    <3>2. Before(log', lastBlock') = {}
      BY <1>2, <2>5, <3>1 DEF Before, DataInv, LogInv
    <3>3. \A a : Counted(a)' = 0
      BY <3>2, InNothing DEF Counted
    <3>. QED
      BY <1>2, <2>5, <3>3
  <2>. QED
    BY <1>2, <2>3, <2>4, <2>5, CountStep
<1>3. ASSUME DataInv, Exact
      PROVE  CountedExactly
  <2>1. Before(log, lastBlock) \subseteq DOMAIN log /\ LogInv
    BY <1>3 DEF Before, DataInv
  <2>2. \A a \in Addr : Counted(a) = Inclusions(a, Before(log, lastBlock))
    BY <2>1, InclusionsIn DEF Counted
  <2>. QED
    BY <1>3, <2>2 DEF CountedExactly, Before
<1>. HIDE DEF Exact
<1>. QED
  BY <1>1, <1>2, <1>3, ScanInvAlways, PTL DEF Spec, NobodyCrashes
=============================================================================
