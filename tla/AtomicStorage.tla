---------------------------- MODULE AtomicStorage ----------------------------
(***************************************************************************)
(* What StorageHandle promises its callers, without a queue: a call that   *)
(* has been made takes effect at ONE moment between the call and its       *)
(* answer, whatever the other callers do; a caller that gives up does not  *)
(* take back what it asked for; calls that are pending when the manager    *)
(* goes away fail and have no effect; and every caller is answered.        *)
(***************************************************************************)
EXTENDS StorageCommands

CONSTANTS
    Requests,  \* the commands clients make
    MaxCalls   \* bound: calls per client

VARIABLES
    pending,   \* calls made and not yet performed
    status,    \* of the manager: "running", "stopping", "stopped"
    client     \* client -> [at, made, answer]

vars == <<storage, pending, status, client>>

Init ==
    /\ storage = [holder |-> "manager", cells |-> Empty, saved |-> Empty]
    /\ pending = {}
    /\ status = "running"
    /\ client = [c \in Clients |-> [at |-> "idle", made |-> 0, answer |-> Refused]]

Waits(call) == /\ client[call.from].at = "waiting"
               /\ client[call.from].made = call.n

Invoke(c, cmd) ==
    /\ client[c].at = "idle"
    /\ client[c].made < MaxCalls
    /\ \/ /\ status # "stopped"
          /\ pending' = pending \cup {[from |-> c, n |-> client[c].made + 1, cmd |-> cmd]}
          /\ client' = [client EXCEPT ![c].at = "waiting", ![c].made = @ + 1]
       \/ /\ status = "stopped"
          /\ client' = [client EXCEPT ![c] = [at |-> "answered", made |-> @.made + 1,
                                              answer |-> Refused]]
          /\ UNCHANGED pending
    /\ UNCHANGED <<storage, status>>

Perform(call) ==
    /\ status = "running"
    /\ call \in pending
    /\ Obey(call.from, call.cmd, Waits(call))
    /\ pending' = pending \ {call}
    /\ status' = IF call.cmd.op = "shutdown" THEN "stopping" ELSE status
    /\ client' = IF Waits(call)
                 THEN [client EXCEPT ![call.from].at = "answered",
                                     ![call.from].answer = Reply(call.cmd)]
                 ELSE client

Close ==
    /\ status = "stopping"
    /\ status' = "stopped"
    /\ pending' = {}
    /\ client' = [c \in Clients |->
                     IF client[c].at = "waiting"
                     THEN [client[c] EXCEPT !.at = "answered", !.answer = Refused]
                     ELSE client[c]]
    /\ UNCHANGED storage

Return(c) ==
    /\ storage.holder = c
    /\ client[c].at = "idle"
    /\ client[c].made < MaxCalls
    /\ pending' = IF status = "stopped" THEN pending
                  ELSE pending \cup {[from |-> c, n |-> client[c].made + 1,
                            cmd |-> [op |-> "return", cells |-> storage.cells,
                                     saved |-> storage.saved]]}
    /\ client' = [client EXCEPT ![c].made = @ + 1]
    /\ storage' = Dropped
    /\ UNCHANGED status

Use(c, put, del) ==
    /\ storage.holder = c
    /\ client[c].at = "idle"
    /\ storage' = [storage EXCEPT !.cells = Overwritten(@, put, del)]
    /\ UNCHANGED <<pending, status, client>>

Receive(c) ==
    /\ client[c].at = "answered"
    /\ client' = [client EXCEPT ![c].at = "idle"]
    /\ UNCHANGED <<storage, pending, status>>

GiveUp(c) ==
    /\ client[c].at # "idle" \/ storage.holder = c
    /\ client' = [client EXCEPT ![c].at = "idle"]
    /\ storage' = IF storage.holder = c THEN Dropped ELSE storage
    /\ UNCHANGED <<pending, status>>

Next ==
    \/ \E c \in Clients :
        \/ \E cmd \in Requests : Invoke(c, cmd)
        \/ Return(c)
        \/ \E w \in {r \in Requests : r.op = "write"} : Use(c, w.put, w.del)
        \/ Receive(c)
        \/ GiveUp(c)
    \/ \E call \in pending : Perform(call)
    \/ Close

Answered(c) == \E call \in pending : call.from = c /\ Perform(call)

Fairness == WF_vars(Close) /\ \A c \in Clients : WF_vars(Answered(c))

Spec == Init /\ [][Next]_vars /\ Fairness

=============================================================================
