----------------------------- MODULE McpRuntime -----------------------------
(***************************************************************************)
(* One MCP server process: main/mcp_runtime.rs, the readiness handles of    *)
(* mcp/state.rs and the index leadership loop.                              *)
(*                                                                         *)
(* The transport is served first.  The repository runtime starts when the   *)
(* handshake completes or a first retrieval selects the primary             *)
(* repository; every other approved repository (a context) starts when a    *)
(* call first selects it.  Each started repository runs an index loop that  *)
(* competes with other processes for the leadership of its index.  The      *)
(* supervisor stops the runtime when the transport closes, and keeps the    *)
(* transport open when the runtime stops.                                   *)
(*                                                                         *)
(* A Notify of tokio keeps no memory: notify_waiters reaches the futures    *)
(* that exist at that moment.  Every wait of the code is therefore three    *)
(* steps (create the future, read the flag, wait), and raising a signal is  *)
(* two (set the flag, notify), and they interleave freely.                  *)
(***************************************************************************)
EXTENDS Naturals

CONSTANTS Primary,     \* the repository the server was started in
          Contexts,    \* the other approved repositories
          Handshake    \* the signal of the protocol handshake

ASSUME ServicesAssumption ==
  Primary \notin Contexts /\ Handshake \notin Contexts /\ Handshake # Primary

Services == {Primary} \cup Contexts
Signals  == Services \cup {Handshake}

VARIABLES
  server,     \* the transport task: serving, closed or panicked
  main,       \* where run_mcp and its supervisor are
  outcome,    \* how run_mcp returned, "none" before
  cancelled,  \* the cancellation token of the runtime
  flag,       \* activation_requested and protocol_initialized
  owed,       \* the flag is set and notify_waiters is still to be called
  wait,       \* where the waiter of each signal is
  notified,   \* its current future was notified
  state,      \* McpServiceState of each registered repository
  run,        \* where the task of each repository is
  runtime,    \* the task run_mcp_runtime
  leader      \* who holds the leadership of each repository's index

vars == <<server, main, outcome, cancelled, flag, owed, wait, notified, state,
          run, runtime, leader>>
signalVars == <<flag, owed, wait, notified>>

WaitPCs == {"off", "create", "check", "poll", "sleep", "done"}
RunPCs  == {"off", "configure", "wait", "open", "probe", "lead", "backoff",
            "follow", "ended"}

\* Type correctness.
TypeOK ==
  /\ server \in {"serving", "closed", "panicked"}
  /\ main \in {"select", "supervise", "join", "drain", "exit"}
  /\ outcome \in {"none", "closed", "stopped", "failed", "timeout", "panicked"}
  /\ cancelled \in BOOLEAN
  /\ flag \in [Signals -> BOOLEAN] /\ owed \in [Signals -> BOOLEAN]
  /\ wait \in [Signals -> WaitPCs] /\ notified \in [Signals -> BOOLEAN]
  /\ state \in [Services -> {"absent", "starting", "ready", "failed"}]
  /\ run \in [Services -> RunPCs]
  /\ runtime \in {"off", "running", "joining", "done"}
  /\ leader \in [Services -> {"none", "self", "other"}]

\* run_mcp: the server is spawned and main waits for the handshake and for
\* the activation of the primary.
Init ==
  /\ server = "serving" /\ main = "select" /\ outcome = "none"
  /\ cancelled = FALSE
  /\ flag = [g \in Signals |-> FALSE] /\ owed = [g \in Signals |-> FALSE]
  /\ wait = [g \in Signals |-> IF g \in Contexts THEN "off" ELSE "create"]
  /\ notified = [g \in Signals |-> FALSE]
  /\ state = [s \in Services |-> IF s = Primary THEN "starting" ELSE "absent"]
  /\ run = [s \in Services |-> "off"]
  /\ runtime = "off"
  /\ leader \in [Services -> {"none", "other"}]

Alive == main # "exit"

-----------------------------------------------------------------------------
(* Signals.                                                                *)

\* The value of the signal variables after setting flag g: request_activation
\* notifies only when it is the first, mark_protocol_initialized always.
RaiseFlag(g) ==
  /\ flag' = [flag EXCEPT ![g] = TRUE]
  /\ owed' = [owed EXCEPT ![g] = @ \/ g = Handshake \/ ~flag[g]]
  /\ UNCHANGED <<wait, notified>>

\* A retrieval selects registered repository s: request_activation sets the flag.
RequestActivation(s) ==
  /\ Alive /\ server = "serving" /\ state[s] # "absent"
  /\ RaiseFlag(s)
  /\ UNCHANGED <<server, main, outcome, cancelled, state, run, runtime, leader>>

\* The session is accepted, or the client sends "initialized".
MarkInitialized ==
  /\ Alive /\ server = "serving"
  /\ RaiseFlag(Handshake)
  /\ UNCHANGED <<server, main, outcome, cancelled, state, run, runtime, leader>>

\* The futures it would reach if the future were created by the wait itself.
ListeningAsleep(g) == wait[g] = "sleep"

\* The futures notify_waiters reaches: those already created.
Listening(g) == wait[g] \in {"check", "poll", "sleep"}

\* notify_waiters, after the flag was set.
NotifyWaiters(g) ==
  /\ Alive /\ owed[g]
  /\ owed' = [owed EXCEPT ![g] = FALSE]
  /\ notified' = [notified EXCEPT ![g] = @ \/ Listening(g)]
  /\ UNCHANGED <<flag, wait>>
  /\ UNCHANGED <<server, main, outcome, cancelled, state, run, runtime, leader>>

\* wait_for_activation and wait_initialized: create and enable the future.
CreateNotified(g) ==
  /\ Alive /\ wait[g] = "create"
  /\ wait' = [wait EXCEPT ![g] = "check"]
  /\ notified' = [notified EXCEPT ![g] = FALSE]
  /\ UNCHANGED <<flag, owed>>
  /\ UNCHANGED <<server, main, outcome, cancelled, state, run, runtime, leader>>

\* Read the flag.
CheckFlag(g) ==
  /\ Alive /\ wait[g] = "check"
  /\ wait' = [wait EXCEPT ![g] = IF flag[g] THEN "done" ELSE "poll"]
  /\ UNCHANGED <<flag, owed, notified>>
  /\ UNCHANGED <<server, main, outcome, cancelled, state, run, runtime, leader>>

\* Wait: loop when the future was notified, sleep when it was not.
AwaitNotified(g) ==
  /\ Alive
  /\ \/ /\ wait[g] \in {"poll", "sleep"} /\ notified[g]
        /\ wait' = [wait EXCEPT ![g] = "create"]
     \/ /\ wait[g] = "poll" /\ ~notified[g]
        /\ wait' = [wait EXCEPT ![g] = "sleep"]
  /\ UNCHANGED <<flag, owed, notified>>
  /\ UNCHANGED <<server, main, outcome, cancelled, state, run, runtime, leader>>

-----------------------------------------------------------------------------
(* The main task.                                                          *)

\* The process ends: its tasks stop and the system releases its file locks.
Exit(how) ==
  /\ main' = "exit" /\ outcome' = how
  /\ leader' = [s \in Services |-> IF leader[s] = "self" THEN "none" ELSE leader[s]]

\* The client closes standard input, an interrupt arrives, or the task panics.
ServerEnds ==
  /\ Alive /\ server = "serving"
  /\ server' \in {"closed", "panicked"}
  /\ UNCHANGED <<main, outcome, cancelled, signalVars, state, run, runtime, leader>>

\* The select of run_mcp: the server ended before any session.
ReturnUnstarted ==
  /\ main = "select" /\ server # "serving"
  /\ Exit(server)
  /\ UNCHANGED <<server, cancelled, signalVars, state, run, runtime>>

\* The select of run_mcp: the handshake or an activation of the primary starts
\* the runtime; the two waits are dropped.
StartRuntime ==
  /\ main = "select"
  /\ "done" \in {wait[Handshake], wait[Primary]}
  /\ main' = "supervise" /\ runtime' = "running"
  /\ run' = [run EXCEPT ![Primary] = "configure"]
  /\ wait' = [wait EXCEPT ![Handshake] = "off", ![Primary] = "off"]
  /\ UNCHANGED <<server, outcome, cancelled, flag, owed, notified, state, leader>>

\* supervise_mcp_tasks: the transport closed first.  A panicked transport is
\* reported at once, without joining the runtime.
StopRuntime ==
  /\ main = "supervise" /\ server # "serving"
  /\ cancelled' = TRUE
  /\ IF server = "panicked"
     THEN Exit("panicked")
     ELSE main' = "join" /\ UNCHANGED <<outcome, leader>>
  /\ UNCHANGED <<server, signalVars, state, run, runtime>>

\* The runtime ended within the shutdown timeout.
JoinRuntime ==
  /\ main = "join" /\ runtime = "done"
  /\ Exit("stopped")
  /\ UNCHANGED <<server, cancelled, signalVars, state, run, runtime>>

\* PRODUCTION_SHUTDOWN_TIMEOUT passed.
JoinTimeout ==
  /\ main = "join" /\ runtime # "done"
  /\ Exit("timeout")
  /\ UNCHANGED <<server, cancelled, signalVars, state, run, runtime>>

\* supervise_mcp_tasks: the runtime ended first.  The primary reports the
\* failure and the transport stays open.
ReportFailure ==
  /\ main = "supervise" /\ runtime = "done"
  /\ main' = "drain"
  /\ state' = [state EXCEPT ![Primary] = "failed"]
  /\ UNCHANGED <<server, outcome, cancelled, signalVars, run, runtime, leader>>

\* The transport closed after the runtime had stopped.
Drained ==
  /\ main = "drain" /\ server # "serving"
  /\ Exit("failed")
  /\ UNCHANGED <<server, cancelled, signalVars, state, run, runtime>>

-----------------------------------------------------------------------------
(* The runtime task: run_mcp_runtime.                                      *)

\* The configuration is read and the contexts are registered, or it is
\* invalid and the runtime returns.
Configure ==
  /\ Alive /\ run[Primary] = "configure"
  /\ \/ /\ run' = [run EXCEPT ![Primary] = "open"]
        /\ state' = [s \in Services |-> IF s \in Contexts THEN "starting" ELSE state[s]]
        /\ UNCHANGED runtime
     \/ /\ run' = [run EXCEPT ![Primary] = "ended"]
        /\ runtime' = "done"
        /\ UNCHANGED state
  /\ UNCHANGED <<server, main, outcome, cancelled, signalVars, leader>>

\* Services::open failed, or the runtime was cancelled meanwhile: no context
\* will start.
OpenPrimaryFails ==
  /\ Alive /\ run[Primary] = "open"
  /\ run' = [run EXCEPT ![Primary] = "ended"]
  /\ state' = [s \in Services |-> IF s \in Contexts THEN "failed" ELSE state[s]]
  /\ runtime' = "done"
  /\ UNCHANGED <<server, main, outcome, cancelled, signalVars, leader>>

\* The primary is ready; its index loop starts and every context waits for
\* its activation.
OpenPrimary ==
  /\ Alive /\ run[Primary] = "open" /\ ~cancelled
  /\ state' = [state EXCEPT ![Primary] = "ready"]
  /\ run' = [s \in Services |-> IF s = Primary THEN "probe" ELSE "wait"]
  /\ flag' = [flag EXCEPT ![Primary] = TRUE]
  /\ owed' = [owed EXCEPT ![Primary] = @ \/ ~flag[Primary]]
  /\ wait' = [g \in Signals |-> IF g \in Contexts THEN "create" ELSE wait[g]]
  /\ UNCHANGED <<server, main, outcome, cancelled, notified, runtime, leader>>

\* A runtime that returns as soon as the primary's loop ends.
JoinNothing ==
  /\ Alive /\ runtime = "joining"
  /\ runtime' = "done"
  /\ UNCHANGED <<server, main, outcome, cancelled, signalVars, state, run, leader>>

\* The primary's loop ended and every context task was joined.
JoinContexts ==
  /\ Alive /\ runtime = "joining"
  /\ \A c \in Contexts : run[c] = "ended"
  /\ runtime' = "done"
  /\ UNCHANGED <<server, main, outcome, cancelled, signalVars, state, run, leader>>

-----------------------------------------------------------------------------
(* The task of a context.                                                  *)

\* The wait for activation ended because a call selected the context.
Activated(c) ==
  /\ Alive /\ run[c] = "wait" /\ wait[c] = "done"
  /\ run' = [run EXCEPT ![c] = "open"]
  /\ wait' = [wait EXCEPT ![c] = "off"]
  /\ UNCHANGED <<server, main, outcome, cancelled, flag, owed, notified, state,
                 runtime, leader>>

\* A wait for activation that is not raced with the cancellation.
ActivationUncancelled(c) ==
  /\ Alive /\ run[c] = "wait" /\ wait[c] = "done" /\ cancelled
  /\ run' = [run EXCEPT ![c] = "ended"]
  /\ wait' = [wait EXCEPT ![c] = "off"]
  /\ UNCHANGED <<server, main, outcome, cancelled, flag, owed, notified, state,
                 runtime, leader>>

\* The wait ended because the runtime was cancelled: the state stays as it is.
ActivationCancelled(c) ==
  /\ Alive /\ run[c] = "wait" /\ wait[c] \in {"poll", "sleep"} /\ cancelled
  /\ run' = [run EXCEPT ![c] = "ended"]
  /\ wait' = [wait EXCEPT ![c] = "off"]
  /\ UNCHANGED <<server, main, outcome, cancelled, flag, owed, notified, state,
                 runtime, leader>>

\* The services of the context open (set_ready), or fail to (set_failed).
OpenContext(c) ==
  /\ Alive /\ run[c] = "open"
  /\ \E ok \in BOOLEAN :
       /\ state' = [state EXCEPT ![c] = IF ok THEN "ready" ELSE "failed"]
       /\ run' = [run EXCEPT ![c] = IF ok THEN "probe" ELSE "ended"]
  /\ UNCHANGED <<server, main, outcome, cancelled, signalVars, runtime, leader>>

-----------------------------------------------------------------------------
(* The index loop of a repository: run_mcp_index_loop.                     *)

\* A loop whose error is only logged.
EndLoopSilently(s, ok) ==
  /\ run' = [run EXCEPT ![s] = "ended"]
  /\ IF s = Primary
     THEN cancelled' = TRUE /\ runtime' = "joining" /\ UNCHANGED state
     ELSE UNCHANGED <<cancelled, runtime, state>>

\* The loop of s returns.  The primary's cancels every context; a context's
\* marks the context as failed when it returned an error.
EndLoop(s, ok) ==
  /\ run' = [run EXCEPT ![s] = "ended"]
  /\ IF s = Primary
     THEN cancelled' = TRUE /\ runtime' = "joining" /\ UNCHANGED state
     ELSE /\ state' = [state EXCEPT ![s] = IF ok THEN @ ELSE "failed"]
          /\ UNCHANGED <<cancelled, runtime>>

\* A loop that finds itself cancelled returns before it probes.
LoopCancelled(s) ==
  /\ Alive /\ run[s] = "probe" /\ cancelled
  /\ EndLoop(s, TRUE)
  /\ UNCHANGED <<server, main, outcome, signalVars, leader>>

\* try_acquire_index_leadership: acquired, or held by another.
ProbeLeadership(s) ==
  /\ Alive /\ run[s] = "probe" /\ ~cancelled
  /\ run' = [run EXCEPT ![s] = IF leader[s] = "none" THEN "lead" ELSE "follow"]
  /\ leader' = [leader EXCEPT ![s] = IF @ = "none" THEN "self" ELSE @]
  /\ UNCHANGED <<server, main, outcome, cancelled, signalVars, state, runtime>>

\* The lock file could not be opened or locked.
ProbeFails(s) ==
  /\ Alive /\ run[s] = "probe" /\ ~cancelled
  /\ EndLoop(s, FALSE)
  /\ UNCHANGED <<server, main, outcome, signalVars, leader>>

\* Leadership that is still held during the back-off.
KeepLeader(s) == UNCHANGED leader

\* The leadership s holds is dropped.
DropLeader(s) == leader' = [leader EXCEPT ![s] = "none"]

\* run_index_leader returned because of the cancellation, or while it
\* happened.
LeadCancelled(s) ==
  /\ Alive /\ run[s] = "lead" /\ cancelled
  /\ DropLeader(s)
  /\ EndLoop(s, TRUE)
  /\ UNCHANGED <<server, main, outcome, signalVars>>

\* It returned an error that a retry cannot repair.
LeadTerminal(s) ==
  /\ Alive /\ run[s] = "lead" /\ ~cancelled
  /\ DropLeader(s)
  /\ EndLoop(s, FALSE)
  /\ UNCHANGED <<server, main, outcome, signalVars>>

\* It returned another error, or its watcher stopped: back off and probe again.
LeadEnds(s) ==
  /\ Alive /\ run[s] = "lead" /\ ~cancelled
  /\ DropLeader(s)
  /\ run' = [run EXCEPT ![s] = "backoff"]
  /\ UNCHANGED <<server, main, outcome, cancelled, signalVars, state, runtime>>

\* The end of a delay, of a leader's or of a follower's.
DelayEnds(s) ==
  /\ Alive /\ run[s] \in {"backoff", "follow"}
  /\ run' = [run EXCEPT ![s] = "probe"]
  /\ UNCHANGED <<server, main, outcome, cancelled, signalVars, state, runtime, leader>>

\* A follower that is cancelled in its delay returns.
FollowCancelled(s) ==
  /\ Alive /\ run[s] = "follow" /\ cancelled
  /\ EndLoop(s, TRUE)
  /\ UNCHANGED <<server, main, outcome, signalVars, leader>>

\* Another process takes or loses the leadership.
OtherProcess(s) ==
  /\ Alive
  /\ \/ leader[s] = "none" /\ leader' = [leader EXCEPT ![s] = "other"]
     \/ leader[s] = "other" /\ leader' = [leader EXCEPT ![s] = "none"]
  /\ UNCHANGED <<server, main, outcome, cancelled, signalVars, state, run, runtime>>

\* The process has ended.
Terminated == ~Alive /\ UNCHANGED vars

-----------------------------------------------------------------------------
SignalStep(g) ==
  NotifyWaiters(g) \/ CreateNotified(g) \/ CheckFlag(g) \/ AwaitNotified(g)

MainStep ==
  ReturnUnstarted \/ StartRuntime \/ StopRuntime \/ JoinRuntime \/ ReportFailure
    \/ Drained

RuntimeStep == Configure \/ OpenPrimaryFails \/ OpenPrimary \/ JoinContexts

ContextStep(c) == Activated(c) \/ ActivationCancelled(c) \/ OpenContext(c)

\* What an index loop does by itself; leading lasts as long as it lasts.
LoopStep(s) ==
  LoopCancelled(s) \/ ProbeLeadership(s) \/ ProbeFails(s) \/ LeadCancelled(s)
    \/ DelayEnds(s) \/ FollowCancelled(s)

Next ==
  \/ \E s \in Services : RequestActivation(s)
  \/ MarkInitialized
  \/ ServerEnds
  \/ \E g \in Signals : SignalStep(g)
  \/ MainStep
  \/ JoinTimeout
  \/ RuntimeStep
  \/ \E c \in Contexts : ContextStep(c)
  \/ \E s \in Services : LoopStep(s) \/ LeadTerminal(s) \/ LeadEnds(s) \/ OtherProcess(s)
  \/ Terminated

Spec == Init /\ [][Next]_vars

\* Every task runs, delays end, opening a repository ends, and a cancelled
\* leader returns.  Nothing makes a client call or close, a leader stop, another
\* process release its leadership, or the shutdown timeout pass.
Fairness ==
  /\ WF_vars(MainStep)
  /\ WF_vars(RuntimeStep)
  /\ \A g \in Signals : WF_vars(SignalStep(g))
  /\ \A c \in Contexts : WF_vars(ContextStep(c))
  /\ \A s \in Services : WF_vars(LoopStep(s))

FairSpec == Spec /\ Fairness

-----------------------------------------------------------------------------
(* Properties.                                                             *)

\* A repository that a call selected becomes ready or failed, whatever the
\* moment of the call relative to the wait for it, unless the runtime is
\* stopped first: no activation is lost between the check of the flag and the
\* wait (mcp/state.rs, wait_for_activation).
ActivationServed ==
  \A s \in Services :
    flag[s] ~> (state[s] \in {"ready", "failed"} \/ cancelled \/ ~Alive)

\* While the index loop of a repository runs, its index does not stay without
\* a leader: a follower takes over from a leader that stopped, and a leader
\* that failed competes again (main/mcp_runtime.rs, run_mcp_index_loop).
TakeOver ==
  \A s \in Services :
    (run[s] \in {"probe", "backoff", "follow"} /\ leader[s] # "other")
      ~> (run[s] \in {"lead", "ended"} \/ leader[s] = "other" \/ ~Alive)

\* A process that returns by itself and not because of the timeout or of a
\* panic leaves no repository task running: no index loop is cut in the middle
\* of a publication (supervise_mcp_tasks and the joins of run_mcp_runtime).
OrderlyExit ==
  outcome \in {"closed", "stopped", "failed"}
    => \A s \in Services : run[s] \in {"off", "ended"}

\* A repository that reports itself ready is kept current: its index loop runs,
\* unless the runtime is being stopped.  A context whose loop stopped by itself
\* says so (run_mcp_runtime, set_failed after run_mcp_index_loop).
ReadyIsMaintained ==
  \A s \in Services :
    state[s] = "ready" /\ ~cancelled
      => run[s] \in {"probe", "lead", "backoff", "follow"}

\* When the transport ends, the process ends, without the help of the shutdown
\* timeout: every wait of every task is left on cancellation.
CloseStops == (server # "serving") ~> ~Alive
=============================================================================
