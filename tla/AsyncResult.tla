----------------------------- MODULE AsyncResult -----------------------------
(***************************************************************************)
(* What an awaitable of pyNetX promises its caller: a call's work ends     *)
(* with a value or an error, at most once; the awaitable stays pending     *)
(* until it is given exactly that outcome, or is cancelled, and never      *)
(* changes afterwards.                                                     *)
(***************************************************************************)
CONSTANT Calls

VARIABLES
    work,     \* the work behind each call
    answer    \* what the awaitable of each call shows

Init ==
    /\ work = [f \in Calls |-> "none"]
    /\ answer = [f \in Calls |-> "none"]

Start(f) ==
    /\ work[f] = "none"
    /\ work' = [work EXCEPT ![f] = "running"]
    /\ UNCHANGED answer

Await(f) ==
    /\ answer[f] = "none" /\ work[f] # "none"
    /\ answer' = [answer EXCEPT ![f] = "pending"]
    /\ UNCHANGED work

Finish(f) ==
    /\ work[f] = "running"
    /\ \E o \in {"value", "error"} : work' = [work EXCEPT ![f] = o]
    /\ UNCHANGED answer

Settle(f) ==
    /\ answer[f] = "pending" /\ work[f] \in {"value", "error"}
    /\ answer' = [answer EXCEPT ![f] = work[f]]
    /\ UNCHANGED work

Cancel(f) ==
    /\ answer[f] = "pending"
    /\ answer' = [answer EXCEPT ![f] = "cancelled"]
    /\ UNCHANGED work

Next == \E f \in Calls : Start(f) \/ Await(f) \/ Finish(f) \/ Settle(f) \/ Cancel(f)

Spec == Init /\ [][Next]_<<work, answer>>
=============================================================================
