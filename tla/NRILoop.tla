------------------------------- MODULE NRILoop -------------------------------
(***************************************************************************)
(* The goroutine Start launches to keep the NRI plugin running            *)
(* (driver.go): Run(ctx) connects to the container runtime and serves it  *)
(* until the connection ends or ctx is cancelled; the loop then returns   *)
(* if ctx is done, and otherwise restarts Run, at most maxAttempts times  *)
(* in all, before klog.Fatalf ends the process.                           *)
(*                                                                         *)
(* The runtime is the environment: a Run may fail to connect, or connect  *)
(* and later lose the connection (the runtime restarts). streak is a      *)
(* ghost variable: the number of Runs since the last one that connected.  *)
(***************************************************************************)
EXTENDS Naturals

CONSTANT MaxAttempts   \* maxAttempts

ASSUME MaxAttemptsAssumption == MaxAttempts \in Nat \ {0}

VARIABLES
    i,        \* the loop counter
    loc,      \* "connect", "serve" (inside Run), "check" (the select),
              \* "next" (the select took default: i++ and the loop test
              \* follow), "exited" (return), "fatal" (klog.Fatalf)
    ctxDone,  \* ctx has been cancelled
    streak    \* ghost: Runs since the last successful connection

vars == <<i, loc, ctxDone, streak>>

TypeOK ==
    /\ i \in 0..MaxAttempts
    /\ loc \in {"connect", "serve", "check", "next", "exited", "fatal"}
    /\ ctxDone \in BOOLEAN
    /\ streak \in 0..MaxAttempts

Init ==
    /\ i = 0
    /\ loc = "connect"
    /\ ctxDone = FALSE
    /\ streak = 0

(* Run connects to the runtime and registers the plugin. *)
Connect ==
    /\ loc = "connect"
    /\ ~ctxDone
    /\ loc' = "serve"
    /\ streak' = 0
    /\ UNCHANGED <<i, ctxDone>>

(* Run cannot connect and returns its error. *)
ConnectFail ==
    /\ loc = "connect"
    /\ loc' = "check"
    /\ streak' = streak + 1
    /\ UNCHANGED <<i, ctxDone>>

(* The connection is closed (the runtime restarts): Run returns. *)
Disconnect ==
    /\ loc = "serve"
    /\ loc' = "check"
    /\ UNCHANGED <<i, ctxDone, streak>>

(* ctx is cancelled while Run connects or serves: Run returns. *)
RunCancelled ==
    /\ loc \in {"connect", "serve"}
    /\ ctxDone
    /\ loc' = "check"
    /\ UNCHANGED <<i, ctxDone, streak>>

(* select: case <-ctx.Done(): return. *)
CheckDone ==
    /\ loc = "check"
    /\ ctxDone
    /\ loc' = "exited"
    /\ UNCHANGED <<i, ctxDone, streak>>

(* select: default, taken while ctx is live. *)
CheckDefault ==
    /\ loc = "check"
    /\ ~ctxDone
    /\ loc' = "next"
    /\ UNCHANGED <<i, ctxDone, streak>>

(* Mutant: the loop runs while i <= maxAttempts. *)
CheckRetryOffByOne ==
    /\ loc = "next"
    /\ i + 1 <= MaxAttempts
    /\ i' = i + 1
    /\ loc' = "connect"
    /\ UNCHANGED <<ctxDone, streak>>

(* i++, and the loop condition holds: Run is called again. ctx is not
   looked at again before Run. *)
CheckRetry ==
    /\ loc = "next"
    /\ i + 1 < MaxAttempts
    /\ i' = i + 1
    /\ loc' = "connect"
    /\ UNCHANGED <<ctxDone, streak>>

(* i++, the loop condition fails, and klog.Fatalf ends the process,
   whatever ctx has become since the select. *)
CheckFatal ==
    /\ loc = "next"
    /\ i + 1 = MaxAttempts
    /\ i' = i + 1
    /\ loc' = "fatal"
    /\ UNCHANGED <<ctxDone, streak>>

(* The context Start was given is cancelled (the driver is shut down);
   after Fatalf there is no process left to cancel. *)
Cancel ==
    /\ ~ctxDone
    /\ loc # "fatal"
    /\ ctxDone' = TRUE
    /\ UNCHANGED <<i, loc, streak>>

(* The steps of the goroutine itself. *)
Loop == RunCancelled \/ CheckDone \/ CheckDefault \/ CheckFatal \/ CheckRetry

(* What the runtime and the caller of Start do. *)
Environment == Connect \/ ConnectFail \/ Disconnect \/ Cancel

Next == Loop \/ Environment

(* The goroutine runs whenever it can; Run returns once ctx is done. *)
Spec == Init /\ [][Next]_vars /\ WF_vars(Loop)

-----------------------------------------------------------------------------
(* The select's case <-ctx.Done(): return: once the driver's context is
   cancelled, the NRI goroutine returns instead of restarting Run or
   ending the process in Fatalf, whatever iteration of the loop it is in. *)
CancelledLoopExits == ctxDone ~> loc = "exited"

(* The comment on maxAttempts: the driver tries to recover the NRI plugin
   maxAttempts times before failing. So Fatalf should end the process only
   after maxAttempts Runs in a row have failed to connect, not after
   maxAttempts reconnections spread over the life of the node. *)
FatalOnlyAfterPersistentFailure == loc = "fatal" => streak >= MaxAttempts

=============================================================================
