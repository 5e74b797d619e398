---------------------------- MODULE DeliveryLog ----------------------------
(***************************************************************************)
(* What the push pipeline promises to whoever queues a message, and to the *)
(* administrators who read the delivery log: a message is sent out once,   *)
(* every targeted device gets one entry, an entry is open until it gets    *)
(* one outcome that nothing revises, and a message is complete only when   *)
(* every entry has its outcome.  Attempts, leases, tickets and workers are *)
(* not visible at this level.                                              *)
(***************************************************************************)
CONSTANTS
    Messages,   \* messages that may be queued
    Devices,    \* installations
    Outcomes    \* how a delivery may end: neither "absent" nor "open"

VARIABLES
    status,     \* the status of each message
    log         \* the entry of each message and device

logVars == << status, log >>

Entries == Messages \X Devices

LogTypeOK ==
    /\ status \in [Messages ->
                     {"absent", "pending", "fanned_out", "completed", "cancelled", "purged"}]
    /\ log \in [Entries -> {"absent", "open"} \cup Outcomes]

LogInit ==
    /\ status = [m \in Messages |-> "absent"]
    /\ log = [x \in Entries |-> "absent"]

Queue(m) ==
    /\ status[m] = "absent"
    /\ status' = [status EXCEPT ![m] = "pending"]
    /\ UNCHANGED log

\* The message goes out to some devices, once.
FanOut(m) ==
    /\ status[m] = "pending"
    /\ status' = [status EXCEPT ![m] = "fanned_out"]
    /\ \E S \in SUBSET Devices :
          log' = [x \in Entries |-> IF x[1] = m /\ x[2] \in S THEN "open" ELSE log[x]]

Cancel(m) ==
    /\ status[m] = "pending"
    /\ status' = [status EXCEPT ![m] = "cancelled"]
    /\ UNCHANGED log

\* Some open entries get their outcome.
Settles ==
    /\ log' \in [Entries -> {"absent", "open"} \cup Outcomes]
    /\ \A x \in Entries : log'[x] # log[x] => log[x] = "open" /\ log'[x] \in Outcomes
    /\ UNCHANGED status

\* Every entry of each message of S has its outcome.
CompleteAll(S) ==
    /\ \A m \in S : status[m] = "fanned_out" /\ \A d \in Devices : log[<<m, d>>] # "open"
    /\ status' = [m \in Messages |-> IF m \in S THEN "completed" ELSE status[m]]
    /\ UNCHANGED log

\* The retention is over.
Forget(S) ==
    /\ \A m \in S : status[m] \in {"completed", "cancelled"}
    /\ status' = [m \in Messages |-> IF m \in S THEN "purged" ELSE status[m]]
    /\ log' = [x \in Entries |-> IF x[1] \in S THEN "absent" ELSE log[x]]

\* An account is deleted, and with it what was sent to its devices.
DropDevices(D) ==
    /\ log' = [x \in Entries |-> IF x[2] \in D THEN "absent" ELSE log[x]]
    /\ UNCHANGED status

LogNext ==
    \/ \E m \in Messages : Queue(m) \/ FanOut(m) \/ Cancel(m)
    \/ Settles
    \/ \E S \in SUBSET Messages : CompleteAll(S) \/ Forget(S)
    \/ \E D \in SUBSET Devices : DropDevices(D)

LogSpec == LogInit /\ [][LogNext]_logVars

=============================================================================
