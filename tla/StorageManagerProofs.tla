------------------------ MODULE StorageManagerProofs ------------------------
(***************************************************************************)
(* For any clients, cells and commands: types, and that the manager with   *)
(* its queue implements the atomic storage.  Liveness stays with TLC.      *)
(***************************************************************************)
EXTENDS StorageManager, SequenceTheorems, TLAPS

-----------------------------------------------------------------------------
(* Contents, commands, answers.                                            *)

LEMMA ContentFacts ==
    /\ Empty \in Content
    /\ \A s, put \in Content : \A del : Overwritten(s, put, del) \in Content
    /\ \A s \in Content : \A S : Restricted(s, S) \in Content
<1>1. Empty \in [{} -> Values]
  BY DEF Empty
<1>2. Empty \in Content
  BY <1>1 DEF Content
<1>3. ASSUME NEW s \in Content, NEW put \in Content, NEW del
      PROVE  Overwritten(s, put, del) \in Content
  <2>1. PICK S \in SUBSET Cells : s \in [S -> Values]
    BY DEF Content
  <2>2. PICK P \in SUBSET Cells : put \in [P -> Values]
    BY DEF Content
  <2>3. Overwritten(s, put, del) \in [(S \ del) \cup P -> Values]
    BY <2>1, <2>2 DEF Overwritten
  <2>4. (S \ del) \cup P \in SUBSET Cells
    BY <2>1, <2>2
  <2>5. QED
    BY <2>3, <2>4 DEF Content
<1>4. ASSUME NEW s \in Content, NEW S PROVE Restricted(s, S) \in Content
  <2>1. PICK D \in SUBSET Cells : s \in [D -> Values]
    BY <1>4 DEF Content
  <2>2. Restricted(s, S) \in [D \cap S -> Values]
    BY <2>1 DEF Restricted
  <2>3. D \cap S \in SUBSET Cells
    BY <2>1
  <2>4. QED
    BY <2>2, <2>3 DEF Content
<1>5. QED
  BY <1>2, <1>3, <1>4

LEMMA ReplyTyped ==
    ASSUME storage \in Storage, NEW cmd PROVE Reply(cmd) \in Answer
BY ContentFacts DEF Reply, Answer, Refused, Storage

LEMMA ObeyTyped ==
    ASSUME storage \in Storage, NEW c \in Clients, NEW cmd \in Command, NEW heard,
           Obey(c, cmd, heard)
    PROVE  storage' \in Storage
<1>1. CASE UNCHANGED storage
  BY <1>1
<1>2. CASE cmd.op = "write" /\ storage' = [storage EXCEPT !.cells = Overwritten(@, cmd.put, cmd.del)]
  <2>1. cmd \in WriteCommand
    BY <1>2 DEF Command, ReadCommand, WriteCommand, PlainCommand, ReturnCommand
  <2>2. cmd.put \in Content
    BY <2>1 DEF WriteCommand
  <2>3. Overwritten(storage.cells, cmd.put, cmd.del) \in Content
    BY <2>2, ContentFacts DEF Storage
  <2>4. QED
    BY <1>2, <2>3 DEF Storage
<1>3. CASE cmd.op = "save" /\ storage' = [storage EXCEPT !.saved = storage.cells]
  BY <1>3 DEF Storage
<1>4. CASE cmd.op = "take" /\ storage' = IF heard THEN [storage EXCEPT !.holder = c] ELSE Dropped
  BY <1>4, ContentFacts DEF Storage, Dropped
<1>5. CASE cmd.op = "return" /\ storage' = [holder |-> "manager", cells |-> cmd.cells, saved |-> cmd.saved]
  <2>1. cmd \in ReturnCommand
    BY <1>5 DEF Command, ReadCommand, WriteCommand, PlainCommand, ReturnCommand
  <2>2. QED
    BY <1>5, <2>1 DEF ReturnCommand, Storage
<1>6. CASE cmd.op = "shutdown" /\ storage' = IF Available THEN Dropped ELSE storage
  BY <1>6, ContentFacts DEF Storage, Dropped
<1>7. QED
  BY <1>1, <1>2, <1>3, <1>4, <1>5, <1>6 DEF Obey

-----------------------------------------------------------------------------
(* Type correctness.                                                       *)

LEMMA InitType == Init => TypeOK
BY ContentFacts DEF Init, TypeOK, Storage, Client, Answer, Refused

LEMMA SendType ==
    ASSUME TypeOK, NEW c \in Clients, NEW cmd \in Requests, Send(c, cmd)
    PROVE  TypeOK'
<1>1. cmd \in Command
  BY RequestTypes DEF Command
<1>2. CallOf(c, cmd) \in Call
  BY <1>1 DEF CallOf, Call, TypeOK, Client
<1>3. queue' \in Seq(Call)
  BY <1>2 DEF Send, Enqueued, TypeOK
<1>4. Refused \in Answer
  BY ContentFacts DEF Refused, Answer
<1>5. client' \in [Clients -> Client]
  <2>1. CASE status # "stopped"
    BY <2>1 DEF Send, TypeOK, Client
  <2>2. CASE status = "stopped"
    <3>1. [at |-> "answered", made |-> client[c].made + 1, answer |-> Refused] \in Client
      BY <1>4 DEF TypeOK, Client
    <3>2. client' = [client EXCEPT ![c] =
                        [at |-> "answered", made |-> client[c].made + 1, answer |-> Refused]]
      BY <2>2 DEF Send
    <3>3. QED
      BY <3>1, <3>2 DEF TypeOK
  <2>3. QED
    BY <2>1, <2>2
<1>6. QED
  BY <1>3, <1>5 DEF Send, TypeOK

LEMMA ReturnType ==
    ASSUME TypeOK, NEW c \in Clients, Return(c)
    PROVE  TypeOK'
<1> DEFINE cmd == [op |-> "return", cells |-> storage.cells, saved |-> storage.saved]
<1>1. cmd \in Command
  BY DEF TypeOK, Storage, Command, ReturnCommand
<1>2. CallOf(c, cmd) \in Call
  BY <1>1 DEF CallOf, Call, TypeOK, Client
<1>3. queue' \in Seq(Call)
  BY <1>2 DEF Return, Enqueued, TypeOK
<1>4. client' \in [Clients -> Client]
  BY DEF Return, TypeOK, Client
<1>5. storage' \in Storage
  BY ContentFacts DEF Return, Dropped, Storage, TypeOK
<1>6. QED
  BY <1>3, <1>4, <1>5 DEF Return, TypeOK

LEMMA UseType ==
    ASSUME TypeOK, NEW c \in Clients, NEW w \in Requests, w.op = "write", Use(c, w.put, w.del)
    PROVE  TypeOK'
<1>1. w \in WriteCommand
  BY RequestTypes DEF ReadCommand, WriteCommand, PlainCommand
<1>2. w.put \in Content
  BY <1>1 DEF WriteCommand
<1>3. Overwritten(storage.cells, w.put, w.del) \in Content
  BY <1>2, ContentFacts DEF TypeOK, Storage
<1>4. storage' \in Storage
  BY <1>3 DEF Use, TypeOK, Storage
<1>5. QED
  BY <1>4 DEF Use, TypeOK

LEMMA HandleType ==
    ASSUME TypeOK, Handle
    PROVE  TypeOK'
<1> DEFINE call == Head(queue)
<1>1. call \in Call /\ queue' \in Seq(Call)
  BY HeadTailProperties DEF Handle, TypeOK
<1>2. storage' \in Storage
  BY <1>1, ObeyTyped DEF Handle, TypeOK, Call
<1>3. Reply(call.cmd) \in Answer
  BY ReplyTyped DEF TypeOK
<1>4. client' \in [Clients -> Client]
  <2>1. CASE Waits(call)
    BY <1>1, <1>3, <2>1 DEF Handle, TypeOK, Client, Call
  <2>2. CASE ~Waits(call)
    BY <2>2 DEF Handle, TypeOK
  <2>3. QED
    BY <2>1, <2>2
<1>5. status' \in {"running", "stopping", "stopped"}
  BY DEF Handle, TypeOK
<1>6. QED
  BY <1>1, <1>2, <1>4, <1>5 DEF TypeOK

LEMMA CloseType ==
    ASSUME TypeOK, Close
    PROVE  TypeOK'
<1>1. Refused \in Answer
  BY ContentFacts DEF Refused, Answer
<1>2. client' \in [Clients -> Client]
  BY <1>1 DEF Close, TypeOK, Client
<1>3. queue' = <<>> /\ UNCHANGED storage /\ status' = "stopped"
  BY DEF Close
<1>4. queue' \in Seq(Call)
  BY <1>3
<1>5. QED
  BY <1>2, <1>3, <1>4 DEF TypeOK

LEMMA ClientType ==
    ASSUME TypeOK, NEW c \in Clients, Receive(c) \/ GiveUp(c)
    PROVE  TypeOK'
<1>1. client' \in [Clients -> Client]
  BY DEF Receive, GiveUp, TypeOK, Client
<1>2. storage' \in Storage
  BY ContentFacts DEF Receive, GiveUp, TypeOK, Storage, Dropped
<1>3. QED
  BY <1>1, <1>2 DEF Receive, GiveUp, TypeOK

LEMMA NextType == TypeOK /\ [Next]_vars => TypeOK'
<1> SUFFICES ASSUME TypeOK, [Next]_vars PROVE TypeOK'
  OBVIOUS
<1>1. CASE UNCHANGED vars
  BY <1>1 DEF vars, TypeOK
<1>2. ASSUME NEW c \in Clients, NEW cmd \in Requests, Send(c, cmd) PROVE TypeOK'
  BY <1>2, SendType
<1>3. ASSUME NEW c \in Clients, Return(c) PROVE TypeOK'
  BY <1>3, ReturnType
<1>4. ASSUME NEW c \in Clients, NEW w \in {r \in Requests : r.op = "write"},
             Use(c, w.put, w.del)
      PROVE  TypeOK'
  BY <1>4, UseType
<1>5. ASSUME NEW c \in Clients, Receive(c) \/ GiveUp(c) PROVE TypeOK'
  BY <1>5, ClientType
<1>6. CASE Handle
  BY <1>6, HandleType
<1>7. CASE Close
  BY <1>7, CloseType
<1>8. ASSUME NEW c \in Clients,
             \/ \E cmd \in Requests : Send(c, cmd)
             \/ Return(c)
             \/ \E w \in {r \in Requests : r.op = "write"} : Use(c, w.put, w.del)
             \/ Receive(c)
             \/ GiveUp(c)
      PROVE  TypeOK'
  BY <1>2, <1>3, <1>4, <1>5, <1>8, Zenon
<1>9. QED
  BY <1>1, <1>6, <1>7, <1>8 DEF Next

(***************************************************************************)
(* Types of the storage, the channel, the manager and the calls.           *)
(***************************************************************************)
THEOREM StorageTypeCorrect == Spec => []TypeOK
<1>1. QED
  BY InitType, NextType, PTL DEF Spec

-----------------------------------------------------------------------------
(* The channel.                                                            *)

LEMMA AppendFacts ==
    ASSUME NEW S, NEW q \in Seq(S), NEW e
    PROVE  /\ DOMAIN Append(q, e) = DOMAIN q \cup {Len(q) + 1}
           /\ \A i \in DOMAIN q : i <= Len(q) /\ i \in Nat /\ Append(q, e)[i] = q[i]
           /\ Append(q, e)[Len(q) + 1] = e
           /\ Len(q) + 1 \notin DOMAIN q
BY AppendProperties

LEMMA TailFacts ==
    ASSUME NEW S, NEW q \in Seq(S), q # <<>>
    PROVE  /\ Tail(q) \in Seq(S)
           /\ 1 \in DOMAIN q /\ Head(q) = q[1] /\ Head(q) \in S
           /\ \A i \in DOMAIN Tail(q) : i + 1 \in DOMAIN q /\ i \in Nat \ {0} /\ Tail(q)[i] = q[i + 1]
           /\ \A i \in DOMAIN q : i # 1 => i - 1 \in DOMAIN Tail(q) /\ Tail(q)[i - 1] = q[i]
<1>1. Len(q) > 0 /\ Len(q) \in Nat
  BY EmptySeq
<1>2. /\ Tail(q) \in Seq(S) /\ Head(q) \in S /\ Head(q) = q[1]
      /\ Len(Tail(q)) = Len(q) - 1
      /\ \A i \in 1 .. Len(Tail(q)) : Tail(q)[i] = q[i + 1]
  BY HeadTailProperties
<1>3. DOMAIN q = 1 .. Len(q) /\ DOMAIN Tail(q) = 1 .. (Len(q) - 1)
  BY <1>1, <1>2, LenProperties
<1>4. QED
  BY <1>1, <1>2, <1>3

CallSet(q) == {q[i] : i \in DOMAIN q}

LEMMA CallSetFacts ==
    ASSUME NEW S, NEW q \in Seq(S)
    PROVE  /\ \A e : CallSet(Append(q, e)) = CallSet(q) \cup {e}
           /\ CallSet(<<>>) = {}
           /\ (q # <<>> /\ \A i \in DOMAIN q : i # 1 => q[i] # q[1])
                => CallSet(Tail(q)) = CallSet(q) \ {Head(q)}
<1>1. ASSUME NEW e PROVE CallSet(Append(q, e)) = CallSet(q) \cup {e}
  BY AppendFacts DEF CallSet
<1>2. CallSet(<<>>) = {}
  BY DEF CallSet
<1>3. ASSUME q # <<>>, \A i \in DOMAIN q : i # 1 => q[i] # q[1]
      PROVE  CallSet(Tail(q)) = CallSet(q) \ {Head(q)}
  <2>1. CallSet(Tail(q)) \subseteq CallSet(q) \ {Head(q)}
    BY <1>3, TailFacts DEF CallSet
  <2>2. CallSet(q) \ {Head(q)} \subseteq CallSet(Tail(q))
    <3> SUFFICES ASSUME NEW x \in CallSet(q) \ {Head(q)} PROVE x \in CallSet(Tail(q))
      OBVIOUS
    <3>1. PICK i \in DOMAIN q : x = q[i]
      BY DEF CallSet
    <3>2. i # 1
      BY <3>1, <1>3, TailFacts
    <3>3. i - 1 \in DOMAIN Tail(q) /\ Tail(q)[i - 1] = x
      BY <3>1, <3>2, <1>3, TailFacts
    <3>4. QED
      BY <3>3 DEF CallSet
  <2>3. QED
    BY <2>1, <2>2
<1>4. QED
  BY <1>1, <1>2, <1>3

-----------------------------------------------------------------------------
(* One lemma for what every step does to the channel and to the numbers.   *)

QueueStep ==
    \/ UNCHANGED queue
    \/ queue' = <<>>
    \/ queue # <<>> /\ queue' = Tail(queue)
    \/ \E c \in Clients, cmd \in Command :
          /\ queue' = Append(queue, CallOf(c, cmd))
          /\ client'[c].made = client[c].made + 1

LEMMA NextQueueStep ==
    ASSUME TypeOK, [Next]_vars
    PROVE  QueueStep /\ \A c \in Clients : client'[c].made >= client[c].made
<1>1. CASE UNCHANGED vars
  BY <1>1 DEF vars, QueueStep, TypeOK, Client
<1>2. ASSUME NEW c \in Clients, NEW cmd \in Requests, Send(c, cmd)
      PROVE  QueueStep /\ \A d \in Clients : client'[d].made >= client[d].made
  <2>1. cmd \in Command
    BY RequestTypes DEF Command
  <2>2. CASE status # "stopped"
    BY <1>2, <2>1, <2>2 DEF Send, Enqueued, QueueStep, TypeOK, Client
  <2>3. CASE status = "stopped"
    <3>1. UNCHANGED queue
      BY <1>2, <2>3 DEF Send
    <3>2. client' = [client EXCEPT ![c] =
              [at |-> "answered", made |-> client[c].made + 1, answer |-> Refused]]
      BY <1>2, <2>3 DEF Send
    <3>3. QED
      BY <3>1, <3>2 DEF QueueStep, TypeOK, Client
  <2>4. QED
    BY <2>2, <2>3
<1>3. ASSUME NEW c \in Clients, Return(c)
      PROVE  QueueStep /\ \A d \in Clients : client'[d].made >= client[d].made
  <2> DEFINE cmd == [op |-> "return", cells |-> storage.cells, saved |-> storage.saved]
  <2>1. cmd \in Command
    BY DEF TypeOK, Storage, Command, ReturnCommand
  <2>2. client' = [client EXCEPT ![c].made = @ + 1]
    BY <1>3 DEF Return
  <2>3. queue' \in {queue, Append(queue, CallOf(c, cmd))}
    BY <1>3 DEF Return, Enqueued
  <2>4. client'[c].made = client[c].made + 1
    BY <2>2 DEF TypeOK, Client
  <2>5. QueueStep
    <3> HIDE DEF cmd
    <3>1. QED
      BY <2>1, <2>3, <2>4 DEF QueueStep
  <2>6. QED
    BY <2>2, <2>5 DEF TypeOK, Client
<1>4. ASSUME NEW c \in Clients,
             \/ \E w \in {r \in Requests : r.op = "write"} : Use(c, w.put, w.del)
             \/ Receive(c)
             \/ GiveUp(c)
      PROVE  QueueStep /\ \A d \in Clients : client'[d].made >= client[d].made
  BY <1>4 DEF Use, Receive, GiveUp, QueueStep, TypeOK, Client
<1>5. CASE Handle
  <2>1. QueueStep
    BY <1>5 DEF Handle, QueueStep
  <2>2. \A d \in Clients : client'[d].made = client[d].made
    <3>1. Head(queue) \in Call
      BY <1>5, HeadTailProperties DEF Handle, TypeOK
    <3>2. CASE Waits(Head(queue))
      BY <1>5, <3>1, <3>2 DEF Handle, TypeOK, Client, Call
    <3>3. CASE ~Waits(Head(queue))
      BY <1>5, <3>3 DEF Handle
    <3>4. QED
      BY <3>2, <3>3
  <2>3. QED
    BY <2>1, <2>2 DEF TypeOK, Client
<1>6. CASE Close
  <2>1. QueueStep
    BY <1>6 DEF Close, QueueStep
  <2>2. \A d \in Clients : client'[d].made = client[d].made
    BY <1>6 DEF Close, TypeOK, Client
  <2>3. QED
    BY <2>1, <2>2 DEF TypeOK, Client
<1>7. QED
  BY <1>1, <1>2, <1>3, <1>4, <1>5, <1>6 DEF Next

\* The numbers stand for oneshots: no two calls in the channel share one.  It
\* holds by the numbering; the refinement map, a set of calls, needs it.
CallsDistinct ==
    /\ \A i \in DOMAIN queue : queue[i].n <= client[queue[i].from].made
    /\ \A i, j \in DOMAIN queue :
          (queue[i].from = queue[j].from /\ i < j) => queue[i].n < queue[j].n

LEMMA NextCallsDistinct == TypeOK /\ CallsDistinct /\ [Next]_vars => CallsDistinct'
<1> SUFFICES ASSUME TypeOK, CallsDistinct, [Next]_vars PROVE CallsDistinct'
  OBVIOUS
<1>1. \A c \in Clients : client'[c].made >= client[c].made
  BY NextQueueStep
<1>2. /\ \A c \in Clients : client[c].made \in Nat
      /\ \A c \in Clients : client'[c].made \in Nat
      /\ \A i \in DOMAIN queue : queue[i].n \in Nat /\ queue[i].from \in Clients
  <2>1. \A c \in Clients : client[c].made \in Nat
    BY DEF TypeOK, Client
  <2>2. \A c \in Clients : client'[c].made \in Nat
    <3>1. TypeOK'
      BY NextType
    <3>2. QED
      BY <3>1 DEF TypeOK, Client
  <2>3. ASSUME NEW i \in DOMAIN queue PROVE queue[i].n \in Nat /\ queue[i].from \in Clients
    <3>1. queue[i] \in Call
      BY DEF TypeOK
    <3>2. QED
      BY <3>1 DEF Call
  <2>4. QED
    BY <2>1, <2>2, <2>3
<1>3. CASE UNCHANGED queue
  BY <1>1, <1>2, <1>3 DEF CallsDistinct
<1>4. CASE queue' = <<>>
  BY <1>4 DEF CallsDistinct
<1>5. CASE queue # <<>> /\ queue' = Tail(queue)
  <2>1. \A i \in DOMAIN queue' : i + 1 \in DOMAIN queue /\ i \in Nat /\ queue'[i] = queue[i + 1]
    BY <1>5, TailFacts DEF TypeOK
  <2>2. QED
    BY <1>1, <1>2, <2>1 DEF CallsDistinct
<1>6. ASSUME NEW c \in Clients, NEW cmd \in Command,
             queue' = Append(queue, CallOf(c, cmd)), client'[c].made = client[c].made + 1
      PROVE  CallsDistinct'
  <2>1. /\ DOMAIN queue' = DOMAIN queue \cup {Len(queue) + 1}
        /\ \A i \in DOMAIN queue : i <= Len(queue) /\ i \in Nat /\ queue'[i] = queue[i]
        /\ queue'[Len(queue) + 1] = CallOf(c, cmd)
        /\ Len(queue) \in Nat
    BY <1>6, AppendFacts DEF TypeOK
  <2>2. CallOf(c, cmd).from = c /\ CallOf(c, cmd).n = client[c].made + 1
    BY DEF CallOf
  <2> DEFINE new == Len(queue) + 1
  <2>3. queue'[new].from = c /\ queue'[new].n = client[c].made + 1
    BY <2>1, <2>2
  <2>4. ASSUME NEW i \in DOMAIN queue'
        PROVE  queue'[i].n <= client'[queue'[i].from].made
    <3>1. CASE i \in DOMAIN queue
      BY <1>1, <1>2, <2>1, <3>1 DEF CallsDistinct
    <3>2. CASE i = new
      BY <1>2, <1>6, <2>3, <3>2
    <3>3. QED
      BY <2>1, <3>1, <3>2
  <2>5. ASSUME NEW i \in DOMAIN queue', NEW j \in DOMAIN queue',
               queue'[i].from = queue'[j].from, i < j
        PROVE  queue'[i].n < queue'[j].n
    <3>1. i \in DOMAIN queue
      BY <2>1, <2>5
    <3>2. CASE j \in DOMAIN queue
      BY <2>1, <2>5, <3>1, <3>2 DEF CallsDistinct
    <3>3. CASE j = new
      <4>1. queue'[i] = queue[i] /\ queue[i].from = c
        BY <2>1, <2>3, <2>5, <3>1, <3>3
      <4>2. queue[i].n <= client[c].made
        BY <3>1, <4>1 DEF CallsDistinct
      <4>3. queue[i].n \in Nat /\ client[c].made \in Nat
        BY <1>2, <3>1
      <4>4. QED
        BY <2>3, <3>3, <4>1, <4>2, <4>3
    <3>4. QED
      BY <2>1, <3>2, <3>3
  <2>6. QED
    BY <2>4, <2>5 DEF CallsDistinct
<1>7. QED
  BY <1>3, <1>4, <1>5, <1>6, NextQueueStep DEF QueueStep

-----------------------------------------------------------------------------
(* The refinement: every step of the manager with its queue is a step of   *)
(* the atomic storage, or leaves it as it is.                              *)

LEMMA HeadOnce ==
    ASSUME TypeOK, CallsDistinct, queue # <<>>
    PROVE  CallSet(Tail(queue)) = CallSet(queue) \ {Head(queue)} /\ Head(queue) \in CallSet(queue)
<1>1. 1 \in DOMAIN queue /\ Head(queue) = queue[1]
  BY TailFacts DEF TypeOK
<1>2. ASSUME NEW i \in DOMAIN queue, i # 1 PROVE queue[i] # queue[1]
  <2>1. 1 < i
    BY <1>2, LenProperties DEF TypeOK
  <2>2. queue[1].from = queue[i].from => queue[1].n < queue[i].n
    BY <1>1, <2>1 DEF CallsDistinct
  <2>3. queue[1] \in Call
    BY <1>1 DEF TypeOK
  <2>4. queue[1].n \in Nat
    BY <2>3 DEF Call
  <2>5. QED
    BY <2>2, <2>4
<1>3. QED
  BY <1>1, <1>2, CallSetFacts DEF TypeOK, CallSet

LEMMA EmptySame ==
    Empty = Atomic!Empty /\ Refused = Atomic!Refused /\ Dropped = Atomic!Dropped
BY DEF Empty, Atomic!Empty, Refused, Atomic!Refused, Dropped, Atomic!Dropped

LEMMA StepRefines ==
    ASSUME TypeOK, CallsDistinct, [Next]_vars
    PROVE  [Atomic!Next]_(Atomic!vars)
<1> DEFINE pending == {queue[i] : i \in DOMAIN queue}
<1>a. pending = CallSet(queue) /\ pending' = CallSet(queue')
  BY DEF CallSet
<1>1. ASSUME NEW c \in Clients, NEW cmd \in Requests, Send(c, cmd)
      PROVE  Atomic!Invoke(c, cmd)
  <2>1. CASE status # "stopped"
    <3>1. pending' = pending \cup {CallOf(c, cmd)}
      BY <1>1, <1>a, <2>1, CallSetFacts DEF Send, Enqueued, TypeOK
    <3>2. QED
      BY <1>1, <2>1, <3>1 DEF Send, CallOf, Atomic!Invoke
  <2>2. CASE status = "stopped"
    BY <1>1, <2>2, EmptySame DEF Send, Atomic!Invoke
  <2>3. QED
    BY <2>1, <2>2
<1>2. ASSUME NEW c \in Clients, Return(c)
      PROVE  Atomic!Return(c)
  <2> DEFINE cmd == [op |-> "return", cells |-> storage.cells, saved |-> storage.saved]
  <2>1. pending' = IF status = "stopped" THEN pending ELSE pending \cup {CallOf(c, cmd)}
    BY <1>2, <1>a, CallSetFacts DEF Return, Enqueued, TypeOK
  <2>2. QED
    BY <1>2, <2>1, EmptySame DEF Return, CallOf, Atomic!Return
<1>3. ASSUME NEW c \in Clients, NEW put, NEW del, Use(c, put, del)
      PROVE  Atomic!Use(c, put, del)
  BY <1>3 DEF Use, Overwritten, Atomic!Use, Atomic!Overwritten
<1>4. ASSUME NEW c \in Clients, Receive(c)
      PROVE  Atomic!Receive(c)
  BY <1>4 DEF Receive, Atomic!Receive
<1>5. ASSUME NEW c \in Clients, GiveUp(c)
      PROVE  Atomic!GiveUp(c)
  BY <1>5, EmptySame DEF GiveUp, Atomic!GiveUp
<1>6. CASE Handle
  <2>1. PICK call : call = Head(queue)
    OBVIOUS
  <2>2. pending' = pending \ {call} /\ call \in pending
    BY <1>6, <1>a, <2>1, HeadOnce DEF Handle
  <2>3. Atomic!Waits(call) = Waits(call)
    BY DEF Waits, Atomic!Waits
  <2>4. Atomic!Reply(call.cmd) = Reply(call.cmd)
    BY DEF Reply, Atomic!Reply, Available, Atomic!Available, Refused, Atomic!Refused,
           Restricted, Atomic!Restricted, Empty, Atomic!Empty
  <2>5. Atomic!Obey(call.from, call.cmd, Waits(call)) <=> Obey(call.from, call.cmd, Waits(call))
    BY DEF Obey, Atomic!Obey, Available, Atomic!Available, Overwritten, Atomic!Overwritten,
           Dropped, Atomic!Dropped, Empty, Atomic!Empty
  <2>6. Atomic!Perform(call)
    BY <1>6, <2>1, <2>2, <2>3, <2>4, <2>5 DEF Handle, Atomic!Perform
  <2>7. \E k \in pending : Atomic!Perform(k)
    BY <2>2, <2>6
  <2>8. QED
    BY <2>7 DEF Atomic!Next
<1>7. CASE Close
  <2>1. pending' = {}
    BY <1>7, <1>a, CallSetFacts DEF Close, TypeOK
  <2>2. QED
    BY <1>7, <2>1 DEF Close, Hung, Refused, Empty, Atomic!Refused, Atomic!Empty,
                      Atomic!Close, Atomic!Next
<1>8. CASE UNCHANGED vars
  BY <1>8 DEF vars, Atomic!vars
<1>9. QED
  BY <1>1, <1>2, <1>3, <1>4, <1>5, <1>6, <1>7, <1>8 DEF Next, Atomic!Next

(***************************************************************************)
(* The manager and its channel implement the atomic storage its callers    *)
(* count on (the safety part: fairness is left to the model checker).      *)
(***************************************************************************)
THEOREM ManagerIsAtomic == Spec => Atomic!Init /\ [][Atomic!Next]_(Atomic!vars)
<1>1. Init => Atomic!Init
  BY DEF Init, Atomic!Init, Empty, Atomic!Empty, Refused, Atomic!Refused
<1>2. Init => CallsDistinct
  BY DEF Init, CallsDistinct
<1>3. TypeOK /\ CallsDistinct /\ [Next]_vars => [Atomic!Next]_(Atomic!vars)
  BY StepRefines
<1>4. QED
  BY <1>1, <1>2, <1>3, InitType, NextType, NextCallsDistinct, PTL DEF Spec

=============================================================================
