----------------------- MODULE WatcherPipelineProofs -----------------------
(***************************************************************************)
(* No change is forgotten on its way through the watcher, for any set of   *)
(* paths and any capacities.                                               *)
(***************************************************************************)
EXTENDS WatcherPipeline, TLAPS

\* The three special requests are requests, and a merge is one.
LEMMA RequestTypes ==
    /\ Full \in Request /\ Nothing \in Request
    /\ \A s \in SUBSET Paths : ForPaths(s) \in Request
    /\ \A limit : \A r, s \in Request : Merge(r, s, limit) \in Request
BY DEF Request, Full, Nothing, ForPaths, Merge

\* A merge covers what its arguments cover: degrading to a full request
\* loses no path.
LEMMA MergeCovers ==
    ASSUME NEW r \in Request, NEW s \in Request, NEW limit
    PROVE  Covers(r) \cup Covers(s) \subseteq Covers(Merge(r, s, limit))
BY DEF Request, Full, Nothing, ForPaths, Merge, Covers

\* A request covers paths of the repository; a full one covers all of them.
LEMMA CoversPaths ==
    /\ \A r \in Request : Covers(r) \subseteq Paths
    /\ Covers(Full) = Paths
    /\ Covers(Nothing) = {}
    /\ \A s : Covers(ForPaths(s)) = s
BY DEF Request, Full, Nothing, ForPaths, Covers

\* The elements of a queue after an operation on it.
LEMMA QueueElements ==
    ASSUME NEW q \in Seq(Request)
    PROVE  /\ Elements(<<>>) = {}
           /\ Elements(q) \subseteq Request
           /\ \A e \in Request : Elements(Append(q, e)) = Elements(q) \cup {e}
           /\ q # <<>> => /\ Head(q) \in Request
                          /\ Tail(q) \in Seq(Request)
                          /\ Len(Tail(q)) = Len(q) - 1
                          /\ Elements(q) = {Head(q)} \cup Elements(Tail(q))
<1>1. Elements(<<>>) = {} /\ Elements(q) \subseteq Request
  BY DEF Elements
<1>2. ASSUME NEW e \in Request PROVE Elements(Append(q, e)) = Elements(q) \cup {e}
  <2>1. /\ Len(Append(q, e)) = Len(q) + 1 /\ Len(q) \in Nat
        /\ \A i \in 1..Len(q) : Append(q, e)[i] = q[i]
        /\ Append(q, e)[Len(q) + 1] = e
    OBVIOUS
  <2>2. 1..(Len(q) + 1) = 1..Len(q) \cup {Len(q) + 1}
    BY <2>1
  <2> QED BY <2>1, <2>2 DEF Elements
<1>3. ASSUME q # <<>>
      PROVE  /\ Head(q) \in Request /\ Tail(q) \in Seq(Request)
             /\ Len(Tail(q)) = Len(q) - 1
             /\ Elements(q) = {Head(q)} \cup Elements(Tail(q))
  <2>1. /\ Head(q) = q[1] /\ Tail(q) \in Seq(Request) /\ Head(q) \in Request
        /\ Len(Tail(q)) = Len(q) - 1 /\ Len(q) \in Nat \ {0}
        /\ \A i \in 1..(Len(q) - 1) : Tail(q)[i] = q[i + 1]
    BY <1>3
  <2>2. ASSUME NEW x \in Elements(q) PROVE x \in {Head(q)} \cup Elements(Tail(q))
    <3>1. PICK i \in 1..Len(q) : x = q[i] BY DEF Elements
    <3>2. CASE i = 1 BY <2>1, <3>1, <3>2
    <3>3. CASE i # 1
      <4>1. i - 1 \in 1..Len(Tail(q)) /\ Tail(q)[i - 1] = x BY <2>1, <3>1, <3>3
      <4> QED BY <4>1 DEF Elements
    <3> QED BY <3>2, <3>3
  <2>3. ASSUME NEW x \in Elements(Tail(q)) PROVE x \in Elements(q)
    <3>1. PICK i \in 1..Len(Tail(q)) : x = Tail(q)[i] BY DEF Elements
    <3>2. i + 1 \in 1..Len(q) /\ x = q[i + 1] BY <2>1, <3>1
    <3> QED BY <3>2 DEF Elements
  <2>4. Head(q) \in Elements(q) BY <2>1 DEF Elements
  <2> QED BY <2>1, <2>2, <2>3, <2>4
<1> QED BY <1>1, <1>2, <1>3

\* What the path of a change has to go through: the requests held, a running
\* reconciliation or the overflow flag.
LEMMA KnownPaths ==
    /\ \A f \in Paths : f \in Known <=> \/ \E e \in Held : f \in Covers(e)
                                       \/ f \in unread \cup read
                                       \/ overflowed
    /\ \A f \in Paths : f \in Known' <=> \/ \E e \in Held' : f \in Covers(e)
                                        \/ f \in unread' \cup read'
                                        \/ overflowed'
BY DEF Known, Covers

USE DEF vars, disk, source, watcher, sched, run

\* Nothing is watched and nothing is pending at first.
LEMMA InitInvariant == Init => IInv /\ PendingIsScheduled
<1> SUFFICES ASSUME Init PROVE IInv /\ PendingIsScheduled
  OBVIOUS
<1>1. TypeOK
  <2>1. <<>> \in Seq(Request) /\ Len(<<>>) = 0
    OBVIOUS
  <2>2. 0 \in 0..MaxEdits /\ 0 \in 0..MaxFaults /\ 0 <= RawCapacity /\ 0 <= Capacity
    BY PipelineAssumption
  <2> QED BY <2>1, <2>2, RequestTypes DEF Init, TypeOK
<1>2. ActionCovers /\ NoLostChange /\ PendingIsScheduled
  BY DEF Init, ActionCovers, NoLostChange, PendingIsScheduled
<1> QED BY <1>1, <1>2 DEF IInv

\* A change adds an event of its paths when it is watched.
LEMMA EditStep ==
    ASSUME IInv, PendingIsScheduled, NEW s \in SUBSET Paths, Edit(s)
    PROVE  IInv' /\ PendingIsScheduled'
<1> USE RequestTypes, CoversPaths, PipelineAssumption
<1>1. TypeOK'
  BY QueueElements DEF Edit, IInv, TypeOK
<1>2. ActionCovers'
  BY DEF Edit, IInv, TypeOK, ActionCovers
<1>3. NoLostChange'
  BY KnownPaths, QueueElements, MergeCovers
     DEF Edit, IInv, TypeOK, ActionCovers, NoLostChange, Held
<1>4. PendingIsScheduled'
  BY DEF Edit, IInv, TypeOK, PendingIsScheduled
<1> QED BY <1>1, <1>2, <1>3, <1>4 DEF IInv

\* Noise adds an event that covers nothing.
LEMMA NoiseStep ==
    ASSUME IInv, PendingIsScheduled, Noise
    PROVE  IInv' /\ PendingIsScheduled'
<1> USE RequestTypes, CoversPaths, PipelineAssumption
<1>1. TypeOK'
  BY QueueElements DEF Noise, IInv, TypeOK
<1>2. ActionCovers'
  BY DEF Noise, IInv, TypeOK, ActionCovers
<1>3. NoLostChange'
  BY KnownPaths, QueueElements, MergeCovers
     DEF Noise, IInv, TypeOK, ActionCovers, NoLostChange, Held
<1>4. PendingIsScheduled'
  BY DEF Noise, IInv, TypeOK, PendingIsScheduled
<1> QED BY <1>1, <1>2, <1>3, <1>4 DEF IInv

\* Lost notifications are replaced by a rescan.
LEMMA KernelStep ==
    ASSUME IInv, PendingIsScheduled, KernelOverflow
    PROVE  IInv' /\ PendingIsScheduled'
<1> USE RequestTypes, CoversPaths, PipelineAssumption
<1>1. TypeOK'
  BY QueueElements DEF KernelOverflow, IInv, TypeOK
<1>2. ActionCovers'
  BY DEF KernelOverflow, IInv, TypeOK, ActionCovers
<1>3. NoLostChange'
  BY KnownPaths, QueueElements, MergeCovers
     DEF KernelOverflow, IInv, TypeOK, ActionCovers, NoLostChange, Held
<1>4. PendingIsScheduled'
  BY DEF KernelOverflow, IInv, TypeOK, PendingIsScheduled
<1> QED BY <1>1, <1>2, <1>3, <1>4 DEF IInv

\* An event moves to the raw queue, or stays in the callback's hands.
LEMMA SendStep ==
    ASSUME IInv, PendingIsScheduled, NEW e \in kernel, CallbackSend(e)
    PROVE  IInv' /\ PendingIsScheduled'
<1> USE RequestTypes, CoversPaths, PipelineAssumption
<1>a. e \in Request
  BY DEF IInv, TypeOK
<1>1. TypeOK'
  <2>1. CASE Len(raw) < RawCapacity /\ raw' = Append(raw, e) /\ UNCHANGED callback
    <3>1. raw' \in Seq(Request) /\ Len(raw') = Len(raw) + 1
      BY <1>a, <2>1 DEF IInv, TypeOK
    <3>2. Len(raw') <= RawCapacity
      BY <3>1, <2>1 DEF IInv, TypeOK
    <3> QED BY <2>1, <3>1, <3>2 DEF CallbackSend, IInv, TypeOK
  <2>2. CASE Len(raw) = RawCapacity /\ callback' = {e} /\ UNCHANGED raw
    BY <1>a, <2>2 DEF CallbackSend, IInv, TypeOK
  <2> QED BY <2>1, <2>2 DEF CallbackSend
<1>2. ActionCovers'
  BY DEF CallbackSend, IInv, TypeOK, ActionCovers
<1>3. NoLostChange'
  <2>1. Held' = Held
    <3>1. CASE Len(raw) < RawCapacity /\ raw' = Append(raw, e) /\ UNCHANGED callback
      <4>1. Elements(raw') = Elements(raw) \cup {e}
        BY <3>1, <1>a, QueueElements DEF IInv, TypeOK
      <4> QED BY <3>1, <4>1 DEF CallbackSend, Held
    <3>2. CASE Len(raw) = RawCapacity /\ callback' = {e} /\ UNCHANGED raw
      BY <3>2 DEF CallbackSend, Held
    <3> QED BY <3>1, <3>2 DEF CallbackSend
  <2> QED BY <2>1, KnownPaths DEF CallbackSend, IInv, TypeOK, NoLostChange
<1>4. PendingIsScheduled'
  BY DEF CallbackSend, IInv, TypeOK, PendingIsScheduled
<1> QED BY <1>1, <1>2, <1>3, <1>4 DEF IInv

\* The flag covers the event that is dropped.
LEMMA OverflowStep ==
    ASSUME IInv, PendingIsScheduled, CallbackOverflow
    PROVE  IInv' /\ PendingIsScheduled'
<1> USE RequestTypes, CoversPaths, PipelineAssumption
<1>1. TypeOK'
  BY QueueElements DEF CallbackOverflow, IInv, TypeOK
<1>2. ActionCovers'
  BY DEF CallbackOverflow, IInv, TypeOK, ActionCovers
<1>3. NoLostChange'
  BY KnownPaths, QueueElements, MergeCovers
     DEF CallbackOverflow, IInv, TypeOK, ActionCovers, NoLostChange, Held
<1>4. PendingIsScheduled'
  BY DEF CallbackOverflow, IInv, TypeOK, PendingIsScheduled
<1> QED BY <1>1, <1>2, <1>3, <1>4 DEF IInv

\* The flag becomes a full request.
LEMMA TopStep ==
    ASSUME IInv, PendingIsScheduled, TaskTop
    PROVE  IInv' /\ PendingIsScheduled'
<1> USE RequestTypes, CoversPaths, PipelineAssumption
<1>1. TypeOK'
  BY QueueElements DEF TaskTop, IInv, TypeOK
<1>2. ActionCovers'
  BY DEF TaskTop, IInv, TypeOK, ActionCovers
<1>3. NoLostChange'
  BY KnownPaths, QueueElements, MergeCovers
     DEF TaskTop, IInv, TypeOK, ActionCovers, NoLostChange, Held
<1>4. PendingIsScheduled'
  <2>1. pending.full => pending # Nothing
    BY DEF Nothing, ForPaths
  <2> QED BY <2>1 DEF TaskTop, IInv, TypeOK, PendingIsScheduled
<1> QED BY <1>1, <1>2, <1>3, <1>4 DEF IInv

\* An event is merged into the pending request.
LEMMA EventStep ==
    ASSUME IInv, PendingIsScheduled, TaskEvent
    PROVE  IInv' /\ PendingIsScheduled'
<1> USE RequestTypes, CoversPaths, PipelineAssumption
<1>1. TypeOK'
  BY QueueElements DEF TaskEvent, RawReady, IInv, TypeOK
<1>2. ActionCovers'
  BY DEF TaskEvent, RawReady, IInv, TypeOK, ActionCovers
<1>3. NoLostChange'
  <2>1. raw \in Seq(Request) /\ raw # <<>>
    BY DEF TaskEvent, RawReady, IInv, TypeOK
  <2>2. Head(raw) \in Request /\ Elements(raw) = {Head(raw)} \cup Elements(Tail(raw))
    BY <2>1, QueueElements
  <2>3. Covers(pending) \cup Covers(Head(raw)) \subseteq Covers(pending')
    BY <2>2, MergeCovers DEF TaskEvent, IInv, TypeOK
  <2>4. \A e \in Held : Covers(e) \subseteq UNION {Covers(d) : d \in Held'}
    BY <2>2, <2>3 DEF TaskEvent, Held
  <2> QED BY <2>4, KnownPaths DEF TaskEvent, IInv, TypeOK, NoLostChange
<1>4. PendingIsScheduled'
  BY DEF TaskEvent, RawReady, IInv, TypeOK, PendingIsScheduled
<1> QED BY <1>1, <1>2, <1>3, <1>4 DEF IInv

\* A poll tick asks for everything.
LEMMA PollStep ==
    ASSUME IInv, PendingIsScheduled, TaskPoll
    PROVE  IInv' /\ PendingIsScheduled'
<1> USE RequestTypes, CoversPaths, PipelineAssumption
<1>1. TypeOK'
  BY QueueElements DEF TaskPoll, IInv, TypeOK
<1>2. ActionCovers'
  BY DEF TaskPoll, IInv, TypeOK, ActionCovers
<1>3. NoLostChange'
  BY KnownPaths, QueueElements, MergeCovers
     DEF TaskPoll, IInv, TypeOK, ActionCovers, NoLostChange, Held
<1>4. PendingIsScheduled'
  <2>1. pending.full => pending # Nothing
    BY DEF Nothing, ForPaths
  <2> QED BY <2>1 DEF TaskPoll, IInv, TypeOK, PendingIsScheduled
<1> QED BY <1>1, <1>2, <1>3, <1>4 DEF IInv

\* The flag is taken by a request that is full already.
LEMMA SleepStep ==
    ASSUME IInv, PendingIsScheduled, TaskSleep
    PROVE  IInv' /\ PendingIsScheduled'
<1> USE RequestTypes, CoversPaths, PipelineAssumption
<1>1. TypeOK'
  BY QueueElements DEF TaskSleep, IInv, TypeOK
<1>2. ActionCovers'
  BY DEF TaskSleep, IInv, TypeOK, ActionCovers
<1>3. NoLostChange'
  <2>1. ASSUME pending.full PROVE Paths \subseteq Known'
    BY <2>1, KnownPaths DEF TaskSleep, Held, Covers
  <2>2. Held' = Held
    BY DEF TaskSleep, Held
  <2>3. CASE pending.full
    BY <2>1, <2>3 DEF TaskSleep, IInv, TypeOK, NoLostChange
  <2>4. CASE ~pending.full
    BY <2>2, <2>4, KnownPaths DEF TaskSleep, IInv, TypeOK, NoLostChange
  <2> QED BY <2>3, <2>4
<1>4. PendingIsScheduled'
  BY DEF TaskSleep, IInv, TypeOK, PendingIsScheduled
<1> QED BY <1>1, <1>2, <1>3, <1>4 DEF IInv

\* The queue is drained into a full request.
LEMMA CoalesceStep ==
    ASSUME IInv, PendingIsScheduled, TaskCoalesce
    PROVE  IInv' /\ PendingIsScheduled'
<1> USE RequestTypes, CoversPaths, PipelineAssumption
<1>1. TypeOK'
  BY QueueElements DEF TaskCoalesce, IInv, TypeOK
<1>2. ActionCovers'
  BY DEF TaskCoalesce, IInv, TypeOK, ActionCovers
<1>3. NoLostChange'
  <2>1. ASSUME pending.full PROVE Paths \subseteq Known'
    BY <2>1, KnownPaths DEF TaskCoalesce, Held, Covers
  <2> QED BY <2>1 DEF TaskCoalesce, IInv, TypeOK, ActionCovers, NoLostChange
<1>4. PendingIsScheduled'
  BY DEF TaskCoalesce, IInv, TypeOK, PendingIsScheduled
<1> QED BY <1>1, <1>2, <1>3, <1>4 DEF IInv

\* The request is delivered, or degrades to a full one.
LEMMA FlushStep ==
    ASSUME IInv, PendingIsScheduled, TaskFlush
    PROVE  IInv' /\ PendingIsScheduled'
<1> USE RequestTypes, CoversPaths, PipelineAssumption
<1>1. TypeOK'
  BY QueueElements DEF TaskFlush, Flush, IInv, TypeOK
<1>2. ActionCovers'
  BY DEF TaskFlush, Flush, IInv, TypeOK, ActionCovers
<1>3. NoLostChange'
  BY KnownPaths, QueueElements, MergeCovers
     DEF TaskFlush, Flush, IInv, TypeOK, ActionCovers, NoLostChange, Held
<1>4. PendingIsScheduled'
  BY DEF TaskFlush, Flush, IInv, TypeOK, PendingIsScheduled
<1> QED BY <1>1, <1>2, <1>3, <1>4 DEF IInv

\* The first scan is still to come.
LEMMA RegisterStep ==
    ASSUME IInv, PendingIsScheduled, Register
    PROVE  IInv' /\ PendingIsScheduled'
<1> USE RequestTypes, CoversPaths, PipelineAssumption
<1>1. TypeOK'
  BY QueueElements DEF Register, IInv, TypeOK
<1>2. ActionCovers'
  BY DEF Register, IInv, TypeOK, ActionCovers
<1>3. NoLostChange'
  BY KnownPaths, QueueElements, MergeCovers
     DEF Register, IInv, TypeOK, ActionCovers, NoLostChange, Held
<1>4. PendingIsScheduled'
  BY DEF Register, IInv, TypeOK, PendingIsScheduled
<1> QED BY <1>1, <1>2, <1>3, <1>4 DEF IInv

\* The first scan reads every path.
LEMMA StartStep ==
    ASSUME IInv, PendingIsScheduled, StartScan
    PROVE  IInv' /\ PendingIsScheduled'
<1> USE RequestTypes, CoversPaths, PipelineAssumption
<1>1. TypeOK'
  BY QueueElements DEF StartScan, IInv, TypeOK
<1>2. ActionCovers'
  BY DEF StartScan, IInv, TypeOK, ActionCovers
<1>3. NoLostChange'
  BY KnownPaths, QueueElements, MergeCovers
     DEF StartScan, IInv, TypeOK, ActionCovers, NoLostChange, Held
<1>4. PendingIsScheduled'
  BY DEF StartScan, IInv, TypeOK, PendingIsScheduled
<1> QED BY <1>1, <1>2, <1>3, <1>4 DEF IInv

\* A message is merged into the schedule.
LEMMA ReceiveStep ==
    ASSUME IInv, PendingIsScheduled, Receive
    PROVE  IInv' /\ PendingIsScheduled'
<1> USE RequestTypes, CoversPaths, PipelineAssumption
<1> DEFINE m == Head(messages)
            kept == [m EXCEPT !.paths = @ \ Artifacts]
<1>q. /\ m \in Request /\ Tail(messages) \in Seq(Request)
      /\ Len(Tail(messages)) = Len(messages) - 1
      /\ Elements(messages) = {m} \cup Elements(Tail(messages))
  BY QueueElements DEF Receive, IInv, TypeOK
<1>k. kept \in Request /\ Covers(m) \ Artifacts \subseteq Covers(kept)
  BY <1>q DEF Request, Covers
<1>e. \/ kept = Nothing /\ UNCHANGED sched
      \/ kept # Nothing /\ scheduled' = Merge(scheduled, kept, MaxScheduled)
         /\ quiet' = TRUE
  BY DEF Receive, Enqueue
<1>s. /\ scheduled' \in Request /\ quiet' \in BOOLEAN
      /\ Covers(scheduled) \cup Covers(kept) \subseteq Covers(scheduled')
  <2>1. scheduled \in Request /\ quiet \in BOOLEAN BY DEF IInv, TypeOK
  <2>2. Merge(scheduled, kept, MaxScheduled) \in Request BY <1>k, <2>1
  <2>3. Covers(scheduled) \cup Covers(kept)
           \subseteq Covers(Merge(scheduled, kept, MaxScheduled))
    BY <1>k, <2>1, MergeCovers
  <2> QED BY <1>e, <2>1, <2>2, <2>3
<1>1. TypeOK'
  <2>1. Len(messages') <= Capacity
    BY <1>q DEF Receive, IInv, TypeOK
  <2> QED BY <1>q, <1>s, <2>1 DEF Receive, IInv, TypeOK
<1>2. ActionCovers'
  BY DEF Receive, Enqueue, IInv, TypeOK, ActionCovers
<1>3. NoLostChange'
  <2>1. ASSUME NEW e \in Held
        PROVE  Covers(e) \ Artifacts \subseteq UNION {Covers(d) : d \in Held'}
    <3>1. CASE e \in Held'
      BY <3>1
    <3>2. CASE e \notin Held'
      <4>1. scheduled' \in Held' BY DEF Held
      <4>2. e \in {m, scheduled}
        BY <1>q, <3>2 DEF Receive, Held
      <4>3. Covers(e) \ Artifacts \subseteq Covers(scheduled')
        BY <1>k, <1>s, <4>2
      <4> QED BY <4>1, <4>3
    <3> QED BY <3>1, <3>2
  <2> QED BY <2>1, KnownPaths
          DEF Receive, IInv, TypeOK, NoLostChange
<1>4. PendingIsScheduled'
  BY DEF Receive, Enqueue, IInv, TypeOK, PendingIsScheduled
<1> QED BY <1>1, <1>2, <1>3, <1>4 DEF IInv

\* The leader only moves on.
LEMMA DrainedStep ==
    ASSUME IInv, PendingIsScheduled, Drained
    PROVE  IInv' /\ PendingIsScheduled'
<1> USE RequestTypes, CoversPaths, PipelineAssumption
<1>1. TypeOK'
  BY QueueElements DEF Drained, IInv, TypeOK
<1>2. ActionCovers'
  BY DEF Drained, IInv, TypeOK, ActionCovers
<1>3. NoLostChange'
  BY KnownPaths, QueueElements, MergeCovers
     DEF Drained, IInv, TypeOK, ActionCovers, NoLostChange, Held
<1>4. PendingIsScheduled'
  BY DEF Drained, IInv, TypeOK, PendingIsScheduled
<1> QED BY <1>1, <1>2, <1>3, <1>4 DEF IInv

\* The scheduled request becomes the paths to read.
LEMMA TakeStep ==
    ASSUME IInv, PendingIsScheduled, TakeReady
    PROVE  IInv' /\ PendingIsScheduled'
<1> USE RequestTypes, CoversPaths, PipelineAssumption
<1>1. TypeOK'
  BY QueueElements DEF TakeReady, IInv, TypeOK
<1>2. ActionCovers'
  BY DEF TakeReady, IInv, TypeOK, ActionCovers
<1>3. NoLostChange'
  <2>1. Held \subseteq Held' \cup {scheduled}
    BY DEF TakeReady, Held
  <2>2. read \cup unread = {} /\ dirty \cap Artifacts = {}
    BY DEF TakeReady, IInv, TypeOK, ActionCovers
  <2> QED BY <2>1, <2>2, KnownPaths
          DEF TakeReady, IInv, TypeOK, ActionCovers, NoLostChange
<1>4. PendingIsScheduled'
  BY DEF TakeReady, IInv, TypeOK, PendingIsScheduled
<1> QED BY <1>1, <1>2, <1>3, <1>4 DEF IInv

\* A path is read.
LEMMA ReadStep ==
    ASSUME IInv, PendingIsScheduled, NEW f \in unread, ReadFile(f)
    PROVE  IInv' /\ PendingIsScheduled'
<1> USE RequestTypes, CoversPaths, PipelineAssumption
<1>1. TypeOK'
  BY QueueElements DEF ReadFile, IInv, TypeOK
<1>2. ActionCovers'
  BY DEF ReadFile, IInv, TypeOK, ActionCovers
<1>3. NoLostChange'
  BY KnownPaths, QueueElements, MergeCovers
     DEF ReadFile, IInv, TypeOK, ActionCovers, NoLostChange, Held
<1>4. PendingIsScheduled'
  BY DEF ReadFile, IInv, TypeOK, PendingIsScheduled
<1> QED BY <1>1, <1>2, <1>3, <1>4 DEF IInv

\* A path is given up.
LEMMA ReadFailureStep ==
    ASSUME IInv, PendingIsScheduled, NEW f \in unread, ReadFailure(f)
    PROVE  IInv' /\ PendingIsScheduled'
<1> USE RequestTypes, CoversPaths, PipelineAssumption
<1>1. TypeOK'
  BY QueueElements DEF ReadFailure, IInv, TypeOK
<1>2. ActionCovers'
  BY DEF ReadFailure, IInv, TypeOK, ActionCovers
<1>3. NoLostChange'
  BY KnownPaths, QueueElements, MergeCovers
     DEF ReadFailure, IInv, TypeOK, ActionCovers, NoLostChange, Held
<1>4. PendingIsScheduled'
  BY DEF ReadFailure, IInv, TypeOK, PendingIsScheduled
<1> QED BY <1>1, <1>2, <1>3, <1>4 DEF IInv

\* What was read is indexed.
LEMMA SucceedStep ==
    ASSUME IInv, PendingIsScheduled, Succeed
    PROVE  IInv' /\ PendingIsScheduled'
<1> USE RequestTypes, CoversPaths, PipelineAssumption
<1>1. TypeOK'
  BY QueueElements DEF Succeed, IInv, TypeOK
<1>2. ActionCovers'
  BY DEF Succeed, IInv, TypeOK, ActionCovers
<1>3. NoLostChange'
  BY KnownPaths, QueueElements, MergeCovers
     DEF Succeed, IInv, TypeOK, ActionCovers, NoLostChange, Held
<1>4. PendingIsScheduled'
  BY DEF Succeed, IInv, TypeOK, PendingIsScheduled
<1> QED BY <1>1, <1>2, <1>3, <1>4 DEF IInv

\* The action is scheduled again.
LEMMA FailStep ==
    ASSUME IInv, PendingIsScheduled, Fail
    PROVE  IInv' /\ PendingIsScheduled'
<1> USE RequestTypes, CoversPaths, PipelineAssumption
<1>1. TypeOK'
  BY QueueElements DEF Fail, IInv, TypeOK
<1>2. ActionCovers'
  BY DEF Fail, IInv, TypeOK, ActionCovers
<1>3. NoLostChange'
  <2>1. Covers(scheduled) \cup Covers(action) \subseteq Covers(scheduled')
    BY MergeCovers DEF Fail, IInv, TypeOK
  <2>2. scheduled' \in Held' /\ Held \subseteq Held' \cup {scheduled}
    BY DEF Fail, Held
  <2>3. unread \cup read \subseteq Covers(action)
    BY DEF IInv, ActionCovers
  <2> QED BY <2>1, <2>2, <2>3, KnownPaths DEF Fail, IInv, TypeOK, NoLostChange
<1>4. PendingIsScheduled'
  BY DEF Fail, IInv, TypeOK, PendingIsScheduled
<1> QED BY <1>1, <1>2, <1>3, <1>4 DEF IInv

\* Nothing is watched any more.
LEMMA StopStep ==
    ASSUME IInv, PendingIsScheduled, NEW next \in {"down", "ended"}, Stop(next)
    PROVE  IInv' /\ PendingIsScheduled'
<1> USE RequestTypes, CoversPaths, PipelineAssumption
<1>1. TypeOK'
  <2>1. <<>> \in Seq(Request) /\ Len(<<>>) = 0
    OBVIOUS
  <2>2. 0 <= RawCapacity /\ 0 <= Capacity
    OBVIOUS
  <2>3. /\ raw' \in Seq(Request) /\ Len(raw') <= RawCapacity
        /\ messages' \in Seq(Request) /\ Len(messages') <= Capacity
    BY <2>1, <2>2 DEF Stop
  <2>4. faults' \in 0..MaxFaults
    BY DEF Stop, IInv, TypeOK
  <2>5. /\ dirty' \in SUBSET (Paths \ Artifacts) /\ failed' \in SUBSET Paths
        /\ edits' \in 0..MaxEdits
    BY DEF Stop, IInv, TypeOK
  <2>6. /\ watching' \in BOOLEAN /\ kernel' \in SUBSET Request
        /\ callback' \in SUBSET Request /\ overflowed' \in BOOLEAN
        /\ pending' \in Request /\ scheduled' \in Request /\ action' \in Request
        /\ unread' \in SUBSET Paths /\ read' \in SUBSET Paths
    BY DEF Stop
  <2> QED BY <2>3, <2>4, <2>5, <2>6 DEF Stop, TypeOK
<1>2. ActionCovers'
  BY DEF Stop, IInv, TypeOK, ActionCovers
<1>3. NoLostChange'
  BY KnownPaths, QueueElements, MergeCovers
     DEF Stop, IInv, TypeOK, ActionCovers, NoLostChange, Held
<1>4. PendingIsScheduled'
  BY DEF Stop, IInv, TypeOK, PendingIsScheduled
<1> QED BY <1>1, <1>2, <1>3, <1>4 DEF IInv

-----------------------------------------------------------------------------
\* The invariant holds in every state: one case per action.
THEOREM InductiveInvariant == Spec => [](IInv /\ PendingIsScheduled)
<1>1. ASSUME IInv, PendingIsScheduled, [Next]_vars
      PROVE  IInv' /\ PendingIsScheduled'
  <2>1. CASE Callback
    BY <1>1, <2>1, SendStep, OverflowStep DEF Callback
  <2>2. CASE Task
    BY <1>1, <2>2, TopStep, EventStep, SleepStep, CoalesceStep, FlushStep DEF Task
  <2>3. CASE TaskPoll
    BY <1>1, <2>3, PollStep
  <2>4. CASE Leader
    BY <1>1, <2>4, RegisterStep, StartStep, ReceiveStep, DrainedStep, TakeStep,
       ReadStep, SucceedStep DEF Leader, Reading
  <2>5. CASE Environment
    BY <1>1, <2>5, EditStep, NoiseStep, KernelStep, ReadFailureStep, FailStep,
       StopStep DEF Environment, FailFirstScan, End
  <2>6. CASE UNCHANGED vars
    BY <1>1, <2>6 DEF IInv, TypeOK,
       ActionCovers, NoLostChange, Known, Held, PendingIsScheduled
  <2> QED BY <1>1, <2>1, <2>2, <2>3, <2>4, <2>5, <2>6 DEF Next
<1> QED BY InitInvariant, <1>1, PTL DEF Spec

\* Every variable keeps its type, and no queue exceeds its capacity.
THEOREM TypeCorrect == Spec => []TypeOK
BY InductiveInvariant, PTL DEF IInv

\* A change is known to some stage until it is indexed: overflow of the raw
\* queue, a full channel, too many paths, a failed action and drained events
\* all leave a request that covers it.
THEOREM ChangesAreKept == Spec => []NoLostChange
BY InductiveInvariant, PTL DEF IInv

\* The watcher task and the scheduler have a deadline for what they hold.
THEOREM WorkIsScheduled == Spec => []PendingIsScheduled
BY InductiveInvariant, PTL

=============================================================================
