--------------------------- MODULE StorageManager ---------------------------
(***************************************************************************)
(* StorageManager and StorageHandle (src/indexer/storage_manager.rs): one  *)
(* task owns the storage and takes commands from an unbounded channel, one *)
(* at a time, in the order they were sent.  A handle sends a command with  *)
(* a oneshot sender for the answer and awaits it.  The future of a handle  *)
(* may be dropped at any await (tonic drops the handler of a client that   *)
(* hangs up): the command stays in the channel and is obeyed, its answer   *)
(* goes nowhere.                                                           *)
(***************************************************************************)
EXTENDS StorageCommands

CONSTANTS
    Requests,  \* the commands clients send
    MaxCalls   \* bound: calls per client

ASSUME RequestTypes ==
    /\ Requests \subseteq ReadCommand \cup WriteCommand \cup PlainCommand
    /\ MaxCalls \in Nat

VARIABLES
    queue,     \* the mpsc channel: calls, oldest first
    status,    \* of run(): "running", "stopping" (loop left), "stopped"
    client     \* client -> where its call stands, how many it made, the answer

vars == <<storage, queue, status, client>>

Call == [from : Clients, n : Nat, cmd : Command]

Init ==
    /\ storage = [holder |-> "manager", cells |-> Empty, saved |-> Empty]
    /\ queue = <<>>
    /\ status = "running"
    /\ client = [c \in Clients |-> [at |-> "idle", made |-> 0, answer |-> Refused]]

-----------------------------------------------------------------------------
(* The handle.                                                             *)

\* The number stands for the oneshot that each call has of its own.
CallOf(c, cmd) == [from |-> c, n |-> client[c].made + 1, cmd |-> cmd]

\* A new call takes its place behind the others.
Enqueued(call) == Append(queue, call)

\* self.sender.send(..)? and rx.await: the send fails only once the receiver
\* is gone.
Send(c, cmd) ==
    /\ client[c].at = "idle"
    /\ client[c].made < MaxCalls
    /\ \/ /\ status # "stopped"
          /\ queue' = Enqueued(CallOf(c, cmd))
          /\ client' = [client EXCEPT ![c].at = "waiting", ![c].made = @ + 1]
       \/ /\ status = "stopped"
          /\ client' = [client EXCEPT ![c] = [at |-> "answered", made |-> @.made + 1,
                                              answer |-> Refused]]
          /\ UNCHANGED queue
    /\ UNCHANGED <<storage, status>>

Receive(c) ==
    /\ client[c].at = "answered"
    /\ client' = [client EXCEPT ![c].at = "idle"]
    /\ UNCHANGED <<storage, queue, status>>

\* The task is dropped at its await, and the storage with it if it holds it.
GiveUp(c) ==
    /\ client[c].at # "idle" \/ storage.holder = c
    /\ client' = [client EXCEPT ![c].at = "idle"]
    /\ storage' = IF storage.holder = c THEN Dropped ELSE storage
    /\ UNCHANGED <<queue, status>>

\* return_storage sends the storage itself, asks for no answer, and drops it
\* when the manager is gone.
Return(c) ==
    /\ storage.holder = c
    /\ client[c].at = "idle"
    /\ client[c].made < MaxCalls
    /\ queue' = IF status = "stopped" THEN queue
                ELSE Enqueued(CallOf(c, [op |-> "return", cells |-> storage.cells,
                                         saved |-> storage.saved]))
    /\ client' = [client EXCEPT ![c].made = @ + 1]
    /\ storage' = Dropped
    /\ UNCHANGED status

\* Whoever has taken the storage writes to it directly.
Use(c, put, del) ==
    /\ storage.holder = c
    /\ client[c].at = "idle"
    /\ storage' = [storage EXCEPT !.cells = Overwritten(@, put, del)]
    /\ UNCHANGED <<queue, status, client>>

-----------------------------------------------------------------------------
(* The manager.                                                            *)

\* As if the answer went to whatever the client waits for now.
AnyWait(call) == client[call.from].at = "waiting"

\* The oneshot of this call still has its receiver.
Waits(call) == /\ client[call.from].at = "waiting"
               /\ client[call.from].made = call.n

\* recv() and handle_command()
Handle ==
    /\ status = "running"
    /\ queue # <<>>
    /\ LET call == Head(queue) IN
       /\ Obey(call.from, call.cmd, Waits(call))
       /\ status' = IF call.cmd.op = "shutdown" THEN "stopping" ELSE status
       /\ client' = IF Waits(call)
                    THEN [client EXCEPT ![call.from].at = "answered",
                                        ![call.from].answer = Reply(call.cmd)]
                    ELSE client
    /\ queue' = Tail(queue)

\* As if nobody were told.
NeverHung(c) == FALSE

\* The clients whose answer will never come learn so: the receiver is dropped
\* with the commands still in it, and with their oneshot senders.
Hung(c) == client[c].at = "waiting"

Close ==
    /\ status = "stopping"
    /\ status' = "stopped"
    /\ queue' = <<>>
    /\ client' = [c \in Clients |->
                     IF Hung(c)
                     THEN [client[c] EXCEPT !.at = "answered", !.answer = Refused]
                     ELSE client[c]]
    /\ UNCHANGED storage

Next ==
    \/ \E c \in Clients :
        \/ \E cmd \in Requests : Send(c, cmd)
        \/ Return(c)
        \/ \E w \in {r \in Requests : r.op = "write"} : Use(c, w.put, w.del)
        \/ Receive(c)
        \/ GiveUp(c)
    \/ Handle
    \/ Close

\* The manager is a tokio task of its own: it is polled as long as it can go on.
Fairness == WF_vars(Handle) /\ WF_vars(Close)

Spec == Init /\ [][Next]_vars /\ Fairness

-----------------------------------------------------------------------------
Client == [at : {"idle", "waiting", "answered"}, made : Nat, answer : Answer]

TypeOK ==
    /\ storage \in Storage
    /\ queue \in Seq(Call)
    /\ status \in {"running", "stopping", "stopped"}
    /\ client \in [Clients -> Client]

(***************************************************************************)
(* Behind the queue, the manager is the atomic storage its callers count   *)
(* on.                                                                     *)
(***************************************************************************)
Atomic == INSTANCE AtomicStorage WITH pending <- {queue[i] : i \in DOMAIN queue}

ImplementsAtomicStorage == Atomic!Spec

(***************************************************************************)
(* Nobody waits for ever: a call is answered, refused or given up, also    *)
(* when it meets a shutdown.                                               *)
(***************************************************************************)
EveryCallAnswered ==
    \A c \in Clients : client[c].at = "waiting" ~> client[c].at # "waiting"

=============================================================================
