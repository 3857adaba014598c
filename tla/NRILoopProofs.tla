---------------------------- MODULE NRILoopProofs ----------------------------
(***************************************************************************)
(* Proofs about the NRI restart loop for every value of maxAttempts: the  *)
(* loop counter and the number of Runs in a row without a connection stay *)
(* within maxAttempts.                                                      *)
(***************************************************************************)
EXTENDS NRILoop, TLAPS

(***************************************************************************)
(* TypeOK is not inductive: that streak stays within maxAttempts rests on *)
(* streak never running ahead of the loop counter by more than the Run    *)
(* that has just returned, and on the counter being below maxAttempts     *)
(* whenever Run may be called again.                                      *)
(***************************************************************************)
NRIInv ==
    /\ TypeOK
    /\ loc \in {"connect", "serve"} => i < MaxAttempts /\ streak <= i
    /\ loc \in {"check", "next", "exited"} => i < MaxAttempts /\ streak <= i + 1
    /\ loc = "fatal" => i = MaxAttempts /\ streak <= i

(* Init satisfies the invariant. *)
LEMMA InitNRIInv == Init => NRIInv
<1> SUFFICES ASSUME Init PROVE NRIInv
    OBVIOUS
<1>1. ctxDone \in BOOLEAN
    BY Zenon DEF Init
<1>. QED
    BY <1>1, MaxAttemptsAssumption DEF Init, NRIInv, TypeOK

(* Every step of the loop and of its environment preserves the invariant. *)
LEMMA NextNRIInv == NRIInv /\ [Next]_vars => NRIInv'
<1> SUFFICES ASSUME NRIInv, [Next]_vars PROVE NRIInv'
    OBVIOUS
<1>. USE MaxAttemptsAssumption DEF NRIInv, TypeOK
<1>1. CASE Connect
    BY <1>1 DEF Connect
<1>2. CASE ConnectFail
    BY <1>2 DEF ConnectFail
<1>3. CASE Disconnect \/ RunCancelled \/ CheckDone \/ CheckDefault
    BY <1>3 DEF Disconnect, RunCancelled, CheckDone, CheckDefault
<1>4. CASE CheckFatal
    BY <1>4 DEF CheckFatal
<1>5. CASE CheckRetry
    BY <1>5 DEF CheckRetry
<1>6. CASE Cancel
    BY <1>6 DEF Cancel
<1>7. CASE UNCHANGED vars
    BY <1>7 DEF vars
<1>. QED
    BY <1>1, <1>2, <1>3, <1>4, <1>5, <1>6, <1>7 DEF Next, Loop, Environment

(***************************************************************************)
(* For every maxAttempts, the NRI goroutine calls Run at most maxAttempts *)
(* times (its counter stays within the bound the for loop sets), and the *)
(* number of Runs since the last connection never exceeds it.            *)
(***************************************************************************)
THEOREM NRITypeCorrect == Spec => []TypeOK
<1>1. NRIInv => TypeOK
    BY DEF NRIInv
<1>2. Spec => []NRIInv
    BY InitNRIInv, NextNRIInv, PTL DEF Spec
<1>. QED
    BY <1>1, <1>2, PTL

=============================================================================
