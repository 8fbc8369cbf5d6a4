--------------------------- MODULE ThreadPromise --------------------------
(***************************************************************************)
(* What the status of a thread tells its user, whatever wrote it: a thread *)
(* runs, may wait on the way, and is over once; only a new start reopens   *)
(* it, except that a stop may still replace the outcome it raced with.     *)
(***************************************************************************)
CONSTANT Threads
VARIABLE status

Endings == {"Done", "NeedMoreInfo", "Stopped"}

Init == status = [t \in Threads |-> "Absent"]

Becomes(t, s) == status' = [status EXCEPT ![t] = s]

Start(t)  == status[t] # "Running" /\ Becomes(t, "Running")
Wait(t)   == status[t] \in {"Absent", "Running"} /\ Becomes(t, "Waiting")
Finish(t) == status[t] = "Running" /\ \E s \in Endings : Becomes(t, s)
Stop(t)   == status[t] \in {"Waiting"} \cup Endings /\ Becomes(t, "Stopped")

Next == \E t \in Threads : Start(t) \/ Wait(t) \/ Finish(t) \/ Stop(t)

Spec == Init /\ [][Next]_status
===========================================================================
