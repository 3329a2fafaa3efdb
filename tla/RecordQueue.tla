---------------------------- MODULE RecordQueue ----------------------------
(***************************************************************************)
(* What a thread's group chain is for the rest of limbo: a first-in        *)
(* first-out queue of records, each with the epoch of its record_rcu; a    *)
(* hard_free frees the oldest while they are within its bound and its      *)
(* count lasts, and stops for no other reason.                             *)
(***************************************************************************)
EXTENDS Integers, Sequences

CONSTANTS Items,       \* pointers that can be recorded
          Callbacks,   \* those recorded with MemTagRcuCallback
          MaxEpoch,    \* bound on global_epoch
          Budget       \* elements one hard_free may free

VARIABLES queue,       \* records, oldest first
          now,         \* global_epoch
          pass,        \* idle, free (inside hard_free) or callback
          bound,       \* epoch_bound of the hard_free that runs
          count        \* what is left of its count

vars == <<queue, now, pass, bound, count>>

Waiting == {queue[i].item : i \in 1 .. Len(queue)}

Init == queue = <<>> /\ now = 0 /\ pass = "idle" /\ bound = 0 /\ count = 0

Tick == /\ now < MaxEpoch
        /\ now' = now + 1
        /\ UNCHANGED <<queue, pass, bound, count>>

Record(x) == /\ pass \in {"idle", "callback"}
             /\ queue' = Append(queue, [item |-> x, epoch |-> now])
             /\ UNCHANGED <<now, pass, bound, count>>

Begin(b) == /\ pass = "idle"
            /\ pass' = "free"
            /\ bound' = b
            /\ count' = Budget
            /\ UNCHANGED <<queue, now>>

MayFree == count > 0 /\ queue # <<>> /\ Head(queue).epoch <= bound

Free(x) == /\ pass = "free"
           /\ MayFree
           /\ Head(queue).item = x
           /\ queue' = Tail(queue)
           /\ count' = count - 1
           /\ pass' = IF x \in Callbacks THEN "callback" ELSE "free"
           /\ UNCHANGED <<now, bound>>

Return == /\ pass = "callback"
          /\ pass' = "free"
          /\ UNCHANGED <<queue, now, bound, count>>

End == /\ pass = "free"
       /\ ~ MayFree
       /\ pass' = "idle"
       /\ bound' = 0
       /\ count' = 0
       /\ UNCHANGED <<queue, now>>

Next == \/ Tick \/ Return \/ End
        \/ \E x \in Items : Record(x) \/ Free(x)
        \/ \E b \in 0 .. MaxEpoch : Begin(b)

Spec == Init /\ [][Next]_vars
============================================================================
