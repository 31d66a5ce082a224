----------------------- MODULE ControlProtocolProofs -----------------------
(***************************************************************************)
(* Theorems about ControlProtocol for any set of clients, any number of    *)
(* streams, every mode and every set of faults.                            *)
(*                                                                         *)
(* The argument is about places in a script.  What the server sends to its *)
(* client is one fixed sequence of messages, cut short anywhere; so is     *)
(* what a client sends.  The invariant says how the place of each side,    *)
(* read off its state, and the messages on the way fit together, so that   *)
(* the state of the reader determines what the next message can be.        *)
(***************************************************************************)
EXTENDS ControlProtocol, FiniteSetTheorems, SequenceTheorems, TLAPS

-----------------------------------------------------------------------------
(* Places.                                                                 *)

\* The place of a message in what the server sends; Last for those that may come
\* anywhere and are the last ones read.
Last == 8
Down == [m \in Messages |->
  CASE m = "PARAM_EXCHANGE"   -> 1
    [] m = "CREATE_STREAMS"   -> 2
    [] m = "TEST_START"       -> 3
    [] m = "TEST_RUNNING"     -> 4
    [] m = "EXCHANGE_RESULTS" -> 5
    [] m = "results"          -> 6
    [] m = "DISPLAY_RESULTS"  -> 7
    [] m \in {"ACCESS_DENIED", "SERVER_ERROR", "SERVER_TERMINATE"} -> Last
    [] OTHER -> 0]

\* The same for what a client sends.
Up == [m \in Messages |->
  CASE m = "cookie"   -> 1
    [] m = "params"   -> 2
    [] m = "TEST_END" -> 3
    [] m = "results"  -> 4
    [] m \in {"IPERF_DONE", "CLIENT_TERMINATE"} -> Last
    [] OTHER -> 0]

\* The messages of q are in the places that follow p; some of them are in R.
Follow(rank, q, p) == \A j \in 1 .. Len(q) : rank[q[j]] \in {p + j, Last}
Has(rank, q, R)    == \E j \in 1 .. Len(q) : rank[q[j]] \in R

\* A client whose loop still reads, and the states it can be in.
Alive(c) == cPc[c] \in {"select", "streams", "tail", "results"}
LiveStates == {"NONE", "PARAM_EXCHANGE", "CREATE_STREAMS", "TEST_START",
               "TEST_RUNNING", "TEST_END", "EXCHANGE_RESULTS"}
EndStates  == {"TEST_END", "EXCHANGE_RESULTS"}

\* The states of a server that has sent its results.
FinalStates == {"DISPLAY_RESULTS", "IPERF_DONE", "SERVER_TERMINATE"}

\* The last place in the server's script that the client has read, and the last one
\* in its own that it has written.
Place(state, pc) ==
  CASE state = "PARAM_EXCHANGE"   -> 1
    [] state = "CREATE_STREAMS"   -> 2
    [] state = "TEST_START"       -> 3
    [] state = "TEST_RUNNING"     -> 4
    [] state = "TEST_END"         -> 4
    [] state = "EXCHANGE_RESULTS" -> IF pc = "results" THEN 5 ELSE 6
    [] OTHER -> 0
Wrote(state) ==
  CASE state = "NONE"             -> 1
    [] state = "TEST_END"         -> 3
    [] state = "EXCHANGE_RESULTS" -> 4
    [] OTHER -> 2

\* The server that reads and writes on the connection of c, and its places.
Talks(c) == sCtrl = c /\ sPc \in {"select", "params", "results"}
Sent(state) ==
  CASE state = "PARAM_EXCHANGE"   -> 1
    [] state = "CREATE_STREAMS"   -> 2
    [] state = "TEST_RUNNING"     -> 4
    [] state = "EXCHANGE_RESULTS" -> 5
    [] state = "DISPLAY_RESULTS"  -> 7
    [] OTHER -> 0
Got(state) ==
  CASE state = "PARAM_EXCHANGE"   -> 1
    [] state = "CREATE_STREAMS"   -> 2
    [] state = "TEST_RUNNING"     -> 2
    [] state = "EXCHANGE_RESULTS" -> 3
    [] state = "DISPLAY_RESULTS"  -> 4
    [] OTHER -> 0

SendersStopped(c) == \A i \in Streams : ClientSends(i) => cThread[c][i] # "running"
AllStopped(c)     == \A i \in Streams : cThread[c][i] # "running"

-----------------------------------------------------------------------------
(* The inductive invariant.                                                *)

\* The server waits for its first client.
Idle == sPc = "listen" \/ (sPc = "select" /\ sCtrl = NoClient /\ ~sFreed)

ServerInv ==
  /\ sCtrl # NoClient => sPc \in {"select", "params", "results", "exit", "abort"}
  /\ sPc = "params"   => sCtrl # NoClient /\ sState = "PARAM_EXCHANGE"
  /\ sPc = "results"  => sCtrl # NoClient /\ sState = "EXCHANGE_RESULTS"
  /\ sPc = "select" /\ sCtrl # NoClient =>
       sState \in {"CREATE_STREAMS", "TEST_RUNNING", "DISPLAY_RESULTS"}
  /\ Idle => sState \in {"NONE", "IPERF_START"}
  /\ sFreed => sCtrl = NoClient
  /\ sTimer # "null" /\ sPc = "select" => sCtrl # NoClient
  /\ Idle \/ sPc = "params" => sRec = 0 /\ sSend = 0 /\ sTimer = "null"
  /\ sPc = "select" /\ sState = "CREATE_STREAMS" => ~AllAccepted(sRec, sSend)
  /\ sErr # "IEMESSAGE"

ClientInv(c) ==
  /\ cPc[c] = "connect" => /\ cEnd[c] = "none" /\ sEnd[c] = "none"
                           /\ cState[c] = "NONE" /\ cMade[c] = 0
  /\ Alive(c) => cEnd[c] = "open" /\ cState[c] \in LiveStates
  /\ cEnd[c] # "none" => sEnd[c] # "none"
  /\ cPc[c] = "streams" => cState[c] = "CREATE_STREAMS" /\ cMade[c] < AllStreams
  /\ cPc[c] = "tail"    => cState[c] = "TEST_RUNNING"
  /\ cPc[c] = "results" => cState[c] = "EXCHANGE_RESULTS"
  /\ Alive(c) /\ cState[c] \in {"NONE", "PARAM_EXCHANGE"} => cMade[c] = 0
  /\ Alive(c) /\ cState[c] \in EndStates => SendersStopped(c)
  /\ cPc[c] = "join" => SendersStopped(c)
  /\ cPc[c] \in Returned => AllStopped(c)
  /\ cPc[c] \in {"join", "finished"} => sState \in FinalStates
  /\ cErr[c] # "IEMESSAGE"

\* From the server to client c.
DownInv(c) ==
  /\ sEnd[c] = "open" <=> sCtrl = c
  /\ sEnd[c] \in {"none", "queued"} => s2c[c] = <<>>
  /\ Alive(c) /\ sEnd[c] = "queued" => cState[c] = "NONE"
  /\ Alive(c) => Follow(Down, s2c[c], Place(cState[c], cPc[c]))
  /\ Alive(c) /\ Talks(c) => Len(s2c[c]) = Sent(sState) - Place(cState[c], cPc[c])
  /\ Alive(c) /\ Has(Down, s2c[c], 5 .. 7) => cState[c] \in EndStates
  /\ Alive(c) /\ Has(Down, s2c[c], {7}) => sState \in FinalStates

\* From client c to the server.
Read(c) == IF sEnd[c] = "queued" THEN 0 ELSE Got(sState)
UpInv(c) ==
  /\ sEnd[c] = "none" => c2s[c] = <<>>
  /\ Talks(c) \/ sEnd[c] = "queued" => Follow(Up, c2s[c], Read(c))
  /\ Alive(c) /\ (Talks(c) \/ sEnd[c] = "queued") =>
       Len(c2s[c]) = Wrote(cState[c]) - Read(c)
  /\ Talks(c) /\ Has(Up, c2s[c], {3}) => sState = "TEST_RUNNING" /\ SendersStopped(c)
  /\ sEnd[c] = "queued" => ~Has(Up, c2s[c], {3})
  /\ sCtrl = c /\ sState \in {"EXCHANGE_RESULTS", "DISPLAY_RESULTS"} =>
       /\ SendersStopped(c)
       /\ Alive(c) => cState[c] \in EndStates

\* A control connection waits in the accept queue once, and streams only after a
\* client has been served.
BacklogInv ==
  /\ \A n \in 1 .. Len(backlog) :
       backlog[n][2] = "ctrl" => sEnd[backlog[n][1]] = "queued"
  /\ \A n, k \in 1 .. Len(backlog) :
       backlog[n][2] = "ctrl" /\ backlog[k] = backlog[n] => k = n
  /\ Idle => \A n \in 1 .. Len(backlog) : backlog[n][2] = "ctrl"

\* The client that has been served: at most one, and none while the server is idle.
Served(c) ==
  \/ sCtrl = c
  \/ cMade[c] > 0
  \/ Alive(c) /\ cState[c] # "NONE"
  \/ Has(Down, s2c[c], 0 .. 7)
ServedInv ==
  /\ \A c, d \in Clients : Served(c) /\ Served(d) => c = d
  /\ Idle => \A c \in Clients : ~Served(c)

ControlInv ==
  /\ TypeOK
  /\ ServerInv
  /\ \A c \in Clients : ClientInv(c) /\ DownInv(c) /\ UpInv(c)
  /\ BacklogInv
  /\ ServedInv

-----------------------------------------------------------------------------
(* Lemmas about sequences of messages.                                     *)

\* A queue with nothing in it.
LEMMA EmptyQueue ==
  ASSUME NEW rank, NEW p, NEW R
  PROVE  Follow(rank, <<>>, p) /\ ~Has(rank, <<>>, R) /\ Len(<<>>) = 0
BY DEF Follow, Has

\* The reader takes the first message of a queue.
LEMMA HeadOfQueue ==
  ASSUME NEW rank, NEW p \in Int, NEW q \in Seq(Messages), q # <<>>
  PROVE  /\ Head(q) \in Messages
         /\ Tail(q) \in Seq(Messages)
         /\ Len(Tail(q)) = Len(q) - 1
         /\ Len(q) \in Nat \ {0}
         /\ Follow(rank, q, p) => rank[Head(q)] \in {p + 1, Last}
         /\ Follow(rank, q, p) => Follow(rank, Tail(q), p + 1)
         /\ \A R : Has(rank, Tail(q), R) => Has(rank, q, R)
         /\ \A R : rank[Head(q)] \in R => Has(rank, q, R)
<1>1. /\ Head(q) \in Messages
      /\ Tail(q) \in Seq(Messages)
      /\ Len(Tail(q)) = Len(q) - 1
      /\ \A i \in 1 .. Len(Tail(q)) : Tail(q)[i] = q[i + 1]
      /\ Len(q) \in Nat \ {0}
  BY HeadTailProperties, EmptySeq
<1>2. Head(q) = q[1]
  OBVIOUS
<1>3. 1 \in 1 .. Len(q)
  BY <1>1
<1>4. \A j \in 1 .. Len(Tail(q)) : j + 1 \in 1 .. Len(q) /\ p + (j + 1) = (p + 1) + j
  BY <1>1
<1>5. Follow(rank, q, p) => rank[Head(q)] \in {p + 1, Last}
  BY <1>2, <1>3 DEF Follow
<1>6. Follow(rank, q, p) => Follow(rank, Tail(q), p + 1)
  BY <1>1, <1>4 DEF Follow
<1>7. \A R : Has(rank, Tail(q), R) => Has(rank, q, R)
  BY <1>1, <1>4 DEF Has
<1>8. \A R : rank[Head(q)] \in R => Has(rank, q, R)
  BY <1>2, <1>3 DEF Has
<1> QED
  BY <1>1, <1>5, <1>6, <1>7, <1>8

\* The writer adds a message to a queue.
LEMMA AppendToQueue ==
  ASSUME NEW rank, NEW p \in Int, NEW q \in Seq(Messages), NEW m \in Messages
  PROVE  /\ Append(q, m) \in Seq(Messages)
         /\ Len(Append(q, m)) = Len(q) + 1
         /\ Len(q) \in Nat
         /\ q \o <<m>> = Append(q, m)
         /\ Follow(rank, q, p) /\ rank[m] \in {p + Len(q) + 1, Last} =>
              Follow(rank, Append(q, m), p)
         /\ \A R : Has(rank, Append(q, m), R) => Has(rank, q, R) \/ rank[m] \in R
<1>1. /\ Append(q, m) \in Seq(Messages)
      /\ Len(Append(q, m)) = Len(q) + 1
      /\ Len(q) \in Nat
      /\ \A j \in 1 .. Len(q) : Append(q, m)[j] = q[j]
      /\ Append(q, m)[Len(q) + 1] = m
  BY AppendProperties, LenProperties
<1>2. q \o <<m>> = Append(q, m)
  BY AppendIsConcat
<1>3. \A j \in 1 .. Len(Append(q, m)) : j \in 1 .. Len(q) \/ j = Len(q) + 1
  BY <1>1
<1>4. ASSUME Follow(rank, q, p), rank[m] \in {p + Len(q) + 1, Last}
      PROVE  Follow(rank, Append(q, m), p)
  <2>1. p + Len(q) + 1 = p + (Len(q) + 1)
    BY <1>1
  <2> QED
    BY <1>1, <1>3, <1>4, <2>1 DEF Follow
<1>5. \A R : Has(rank, Append(q, m), R) => Has(rank, q, R) \/ rank[m] \in R
  BY <1>1, <1>3 DEF Has
<1> QED
  BY <1>1, <1>2, <1>4, <1>5

\* The writer adds two messages at once.
LEMMA AppendTwo ==
  ASSUME NEW q \in Seq(Messages), NEW m \in Messages, NEW n \in Messages
  PROVE  q \o <<m, n>> = Append(Append(q, m), n)
<1>1. <<m, n>> = Append(<<m>>, n)
  OBVIOUS
<1> QED
  BY <1>1, AppendToQueue, ConcatAssociative, AppendIsConcat

-----------------------------------------------------------------------------
(* Types, and what a step of one client leaves alone.                      *)

\* There is at least one stream, and the server expects as many as the client makes.
LEMMA Counts ==
  /\ AllStreams \in Nat \ {0}
  /\ streams_to_rec \in Nat
  /\ streams_to_send \in Nat
  /\ streams_to_rec + streams_to_send = AllStreams
<1>1. NumStreams \in Nat /\ NumStreams > 0
  BY StreamsAssumption
<1>2. CASE Mode = "SENDER"
  BY <1>1, <1>2 DEF AllStreams, streams_to_rec, streams_to_send, ServerMode
<1>3. CASE Mode = "RECEIVER"
  BY <1>1, <1>3 DEF AllStreams, streams_to_rec, streams_to_send, ServerMode
<1>4. CASE Mode = "BIDIRECTIONAL"
  BY <1>1, <1>4 DEF AllStreams, streams_to_rec, streams_to_send, ServerMode
<1> QED
  BY <1>2, <1>3, <1>4, ModeAssumption

\* g is f but for its value at c.
Touch(f, g, c, T) == g = f \/ \E v \in T : g = Set(f, c, v)

\* The value that Set puts there.
LEMMA SetAt ==
  ASSUME NEW T, NEW c \in Clients, NEW f \in [Clients -> T], NEW v
  PROVE  Set(f, c, v)[c] = v
BY DEF Set

\* The types of the variables that exist once per client.
ClientTypes ==
  /\ cPc     \in [Clients -> ClientPcs]
  /\ cState  \in [Clients -> States]
  /\ cDone   \in [Clients -> BOOLEAN]
  /\ cErr    \in [Clients -> Errors]
  /\ cMade   \in [Clients -> 0 .. AllStreams]
  /\ cThread \in [Clients -> [Streams -> ThreadStates]]
  /\ cTimer  \in [Clients -> {"null", "set", "due"}]
  /\ cEnd    \in [Clients -> {"none", "open", "closed"}]
  /\ sEnd    \in [Clients -> {"none", "queued", "open", "closed"}]
  /\ c2s     \in [Clients -> Seq(Messages)]
  /\ s2c     \in [Clients -> Seq(Messages)]
  /\ lost    \in [Clients -> BOOLEAN]

\* Set puts the value where it says, in each of them.
LEMMA At ==
  ASSUME TypeOK, NEW c \in Clients, NEW v
  PROVE  /\ Set(cPc, c, v)[c] = v
         /\ Set(cState, c, v)[c] = v
         /\ Set(cDone, c, v)[c] = v
         /\ Set(cErr, c, v)[c] = v
         /\ Set(cMade, c, v)[c] = v
         /\ Set(cThread, c, v)[c] = v
         /\ Set(cTimer, c, v)[c] = v
         /\ Set(cEnd, c, v)[c] = v
         /\ Set(sEnd, c, v)[c] = v
         /\ Set(c2s, c, v)[c] = v
         /\ Set(s2c, c, v)[c] = v
         /\ Set(lost, c, v)[c] = v
<1>1. ClientTypes
  BY DEF ClientTypes, TypeOK
<1>2. Set(cPc, c, v)[c] = v
  <2>1. cPc \in [Clients -> ClientPcs]
    BY <1>1 DEF ClientTypes
  <2> QED
    BY <2>1, SetAt
<1>3. Set(cState, c, v)[c] = v
  <2>1. cState \in [Clients -> States]
    BY <1>1 DEF ClientTypes
  <2> QED
    BY <2>1, SetAt
<1>4. Set(cDone, c, v)[c] = v
  <2>1. cDone \in [Clients -> BOOLEAN]
    BY <1>1 DEF ClientTypes
  <2> QED
    BY <2>1, SetAt
<1>5. Set(cErr, c, v)[c] = v
  <2>1. cErr \in [Clients -> Errors]
    BY <1>1 DEF ClientTypes
  <2> QED
    BY <2>1, SetAt
<1>6. Set(cMade, c, v)[c] = v
  <2>1. cMade \in [Clients -> 0 .. AllStreams]
    BY <1>1 DEF ClientTypes
  <2> QED
    BY <2>1, SetAt
<1>7. Set(cThread, c, v)[c] = v
  <2>1. cThread \in [Clients -> [Streams -> ThreadStates]]
    BY <1>1 DEF ClientTypes
  <2> QED
    BY <2>1, SetAt
<1>8. Set(cTimer, c, v)[c] = v
  <2>1. cTimer \in [Clients -> {"null", "set", "due"}]
    BY <1>1 DEF ClientTypes
  <2> QED
    BY <2>1, SetAt
<1>9. Set(cEnd, c, v)[c] = v
  <2>1. cEnd \in [Clients -> {"none", "open", "closed"}]
    BY <1>1 DEF ClientTypes
  <2> QED
    BY <2>1, SetAt
<1>10. Set(sEnd, c, v)[c] = v
  <2>1. sEnd \in [Clients -> {"none", "queued", "open", "closed"}]
    BY <1>1 DEF ClientTypes
  <2> QED
    BY <2>1, SetAt
<1>11. Set(c2s, c, v)[c] = v
  <2>1. c2s \in [Clients -> Seq(Messages)]
    BY <1>1 DEF ClientTypes
  <2> QED
    BY <2>1, SetAt
<1>12. Set(s2c, c, v)[c] = v
  <2>1. s2c \in [Clients -> Seq(Messages)]
    BY <1>1 DEF ClientTypes
  <2> QED
    BY <2>1, SetAt
<1>13. Set(lost, c, v)[c] = v
  <2>1. lost \in [Clients -> BOOLEAN]
    BY <1>1 DEF ClientTypes
  <2> QED
    BY <2>1, SetAt
<1> QED
  BY <1>2, <1>3, <1>4, <1>5, <1>6, <1>7, <1>8, <1>9, <1>10, <1>11, <1>12, <1>13

\* A step of client c changes what belongs to c only.
Moves(c) ==
  /\ Touch(cPc, cPc', c, ClientPcs)
  /\ Touch(cState, cState', c, States)
  /\ Touch(cDone, cDone', c, BOOLEAN)
  /\ Touch(cErr, cErr', c, Errors)
  /\ Touch(cMade, cMade', c, 0 .. AllStreams)
  /\ Touch(cThread, cThread', c, [Streams -> ThreadStates])
  /\ Touch(cTimer, cTimer', c, {"null", "set", "due"})
  /\ Touch(cEnd, cEnd', c, {"none", "open", "closed"})
  /\ Touch(sEnd, sEnd', c, {"none", "queued", "open", "closed"})
  /\ Touch(c2s, c2s', c, Seq(Messages))
  /\ Touch(s2c, s2c', c, Seq(Messages))
  /\ Touch(lost, lost', c, BOOLEAN)
  /\ UNCHANGED serverVars

\* Nothing about client d changes.
Same(d) ==
  /\ cPc'[d] = cPc[d]
  /\ cState'[d] = cState[d]
  /\ cErr'[d] = cErr[d]
  /\ cMade'[d] = cMade[d]
  /\ cThread'[d] = cThread[d]
  /\ cEnd'[d] = cEnd[d]
  /\ sEnd'[d] = sEnd[d]
  /\ c2s'[d] = c2s[d]
  /\ s2c'[d] = s2c[d]

\* Such a step keeps the types and the other clients.
LEMMA MovesFrame ==
  ASSUME TypeOK, NEW c \in Clients, Moves(c)
  PROVE  /\ backlog' \in Seq(Clients \X {"ctrl", "stream"}) => TypeOK'
         /\ \A d \in Clients : d # c => Same(d)
<1>1. ClientTypes
  BY DEF ClientTypes, TypeOK
<1>2. ClientTypes' /\ \A d \in Clients : d # c => Same(d)
  <2>1. /\ cPc' \in [Clients -> ClientPcs]
        /\ \A d \in Clients : d # c => cPc'[d] = cPc[d]
    <3>1. cPc \in [Clients -> ClientPcs] /\ Touch(cPc, cPc', c, ClientPcs)
      BY <1>1 DEF ClientTypes, Moves
    <3> QED
      BY <3>1 DEF Touch, Set
  <2>2. /\ cState' \in [Clients -> States]
        /\ \A d \in Clients : d # c => cState'[d] = cState[d]
    <3>1. cState \in [Clients -> States] /\ Touch(cState, cState', c, States)
      BY <1>1 DEF ClientTypes, Moves
    <3> QED
      BY <3>1 DEF Touch, Set
  <2>3. /\ cDone' \in [Clients -> BOOLEAN]
        /\ \A d \in Clients : d # c => cDone'[d] = cDone[d]
    <3>1. cDone \in [Clients -> BOOLEAN] /\ Touch(cDone, cDone', c, BOOLEAN)
      BY <1>1 DEF ClientTypes, Moves
    <3> QED
      BY <3>1 DEF Touch, Set
  <2>4. /\ cErr' \in [Clients -> Errors]
        /\ \A d \in Clients : d # c => cErr'[d] = cErr[d]
    <3>1. cErr \in [Clients -> Errors] /\ Touch(cErr, cErr', c, Errors)
      BY <1>1 DEF ClientTypes, Moves
    <3> QED
      BY <3>1 DEF Touch, Set
  <2>5. /\ cMade' \in [Clients -> 0 .. AllStreams]
        /\ \A d \in Clients : d # c => cMade'[d] = cMade[d]
    <3>1. cMade \in [Clients -> 0 .. AllStreams] /\ Touch(cMade, cMade', c, 0 .. AllStreams)
      BY <1>1 DEF ClientTypes, Moves
    <3> QED
      BY <3>1 DEF Touch, Set
  <2>6. /\ cThread' \in [Clients -> [Streams -> ThreadStates]]
        /\ \A d \in Clients : d # c => cThread'[d] = cThread[d]
    <3>1. cThread \in [Clients -> [Streams -> ThreadStates]] /\ Touch(cThread, cThread', c, [Streams -> ThreadStates])
      BY <1>1 DEF ClientTypes, Moves
    <3> QED
      BY <3>1 DEF Touch, Set
  <2>7. /\ cTimer' \in [Clients -> {"null", "set", "due"}]
        /\ \A d \in Clients : d # c => cTimer'[d] = cTimer[d]
    <3>1. cTimer \in [Clients -> {"null", "set", "due"}] /\ Touch(cTimer, cTimer', c, {"null", "set", "due"})
      BY <1>1 DEF ClientTypes, Moves
    <3> QED
      BY <3>1 DEF Touch, Set
  <2>8. /\ cEnd' \in [Clients -> {"none", "open", "closed"}]
        /\ \A d \in Clients : d # c => cEnd'[d] = cEnd[d]
    <3>1. cEnd \in [Clients -> {"none", "open", "closed"}] /\ Touch(cEnd, cEnd', c, {"none", "open", "closed"})
      BY <1>1 DEF ClientTypes, Moves
    <3> QED
      BY <3>1 DEF Touch, Set
  <2>9. /\ sEnd' \in [Clients -> {"none", "queued", "open", "closed"}]
        /\ \A d \in Clients : d # c => sEnd'[d] = sEnd[d]
    <3>1. sEnd \in [Clients -> {"none", "queued", "open", "closed"}] /\ Touch(sEnd, sEnd', c, {"none", "queued", "open", "closed"})
      BY <1>1 DEF ClientTypes, Moves
    <3> QED
      BY <3>1 DEF Touch, Set
  <2>10. /\ c2s' \in [Clients -> Seq(Messages)]
        /\ \A d \in Clients : d # c => c2s'[d] = c2s[d]
    <3>1. c2s \in [Clients -> Seq(Messages)] /\ Touch(c2s, c2s', c, Seq(Messages))
      BY <1>1 DEF ClientTypes, Moves
    <3> QED
      BY <3>1 DEF Touch, Set
  <2>11. /\ s2c' \in [Clients -> Seq(Messages)]
        /\ \A d \in Clients : d # c => s2c'[d] = s2c[d]
    <3>1. s2c \in [Clients -> Seq(Messages)] /\ Touch(s2c, s2c', c, Seq(Messages))
      BY <1>1 DEF ClientTypes, Moves
    <3> QED
      BY <3>1 DEF Touch, Set
  <2>12. /\ lost' \in [Clients -> BOOLEAN]
        /\ \A d \in Clients : d # c => lost'[d] = lost[d]
    <3>1. lost \in [Clients -> BOOLEAN] /\ Touch(lost, lost', c, BOOLEAN)
      BY <1>1 DEF ClientTypes, Moves
    <3> QED
      BY <3>1 DEF Touch, Set
  <2> QED
    BY <2>1, <2>2, <2>3, <2>4, <2>5, <2>6, <2>7, <2>8, <2>9, <2>10, <2>11, <2>12
    DEF ClientTypes, Same
<1>3. UNCHANGED serverVars
  BY DEF Moves
<1> QED
  BY <1>2, <1>3 DEF TypeOK, ClientTypes, serverVars

\* What may become of the queues of a client.
LEMMA Queues ==
  ASSUME TypeOK, NEW c \in Clients
  PROVE  /\ c2s[c] \in Seq(Messages) /\ s2c[c] \in Seq(Messages)
         /\ <<>> \in Seq(Messages)
         /\ c2s[c] # <<>> => Tail(c2s[c]) \in Seq(Messages)
         /\ s2c[c] # <<>> => Tail(s2c[c]) \in Seq(Messages)
         /\ \A m \in Messages : /\ <<m>> \in Seq(Messages)
                               /\ c2s[c] \o <<m>> = Append(c2s[c], m)
                               /\ s2c[c] \o <<m>> = Append(s2c[c], m)
                               /\ Append(c2s[c], m) \in Seq(Messages)
                               /\ Append(s2c[c], m) \in Seq(Messages)
<1>1. c2s[c] \in Seq(Messages) /\ s2c[c] \in Seq(Messages)
  BY DEF TypeOK
<1>2. <<>> \in Seq(Messages)
  OBVIOUS
<1>3. \A m \in Messages : <<m>> \in Seq(Messages)
  OBVIOUS
<1>4. /\ c2s[c] # <<>> => Tail(c2s[c]) \in Seq(Messages)
      /\ s2c[c] # <<>> => Tail(s2c[c]) \in Seq(Messages)
  BY <1>1, HeadTailProperties
<1>5. \A m \in Messages : /\ c2s[c] \o <<m>> = Append(c2s[c], m)
                          /\ s2c[c] \o <<m>> = Append(s2c[c], m)
  BY <1>1, AppendIsConcat
<1>6. \A m \in Messages : /\ Append(c2s[c], m) \in Seq(Messages)
                          /\ Append(s2c[c], m) \in Seq(Messages)
  BY <1>1, AppendProperties
<1> QED
  BY <1>1, <1>2, <1>3, <1>4, <1>5, <1>6

\* The messages by name.
LEMMA Names ==
  /\ States \subseteq Messages
  /\ {"cookie", "params", "results"} \subseteq Messages
  /\ {"PARAM_EXCHANGE", "CREATE_STREAMS", "TEST_START", "TEST_RUNNING", "TEST_END",
      "EXCHANGE_RESULTS", "DISPLAY_RESULTS", "IPERF_DONE", "SERVER_TERMINATE",
      "CLIENT_TERMINATE", "ACCESS_DENIED", "SERVER_ERROR", "NONE"} \subseteq States
BY DEF Messages, States, Positive

\* The threads of a client after some of them have been joined.
LEMMA JoinedThreads ==
  ASSUME NEW t \in [Streams -> ThreadStates], NEW S
  PROVE  /\ Joined(t, S) \in [Streams -> ThreadStates]
         /\ \A i \in Streams : t[i] # "running" => Joined(t, S)[i] # "running"
         /\ \A i \in Streams : i \in S => Joined(t, S)[i] # "running"
BY DEF Joined, ThreadStates

\* All that a client does by itself or that is done to it.
ClientStep(c) ==
  \/ ClientLoop(c)
  \/ client_clock(c)
  \/ \E i \in Streams : client_worker(c, i)
  \/ lose(c)
  \/ client_stopTest(c)
  \/ client_sigend(c)

\* A step of one client leaves the other clients and the server alone.
LEMMA ClientMoves ==
  ASSUME ControlInv, NEW c \in Clients, ClientStep(c)
  PROVE  Moves(c)
<1> USE Names
<1>t. /\ TypeOK /\ cThread[c] \in [Streams -> ThreadStates] /\ cMade[c] \in 0 .. AllStreams
      /\ cState[c] \in States /\ cEnd[c] \in {"none", "open", "closed"}
  BY DEF ControlInv, TypeOK
<1>q. /\ c2s[c] \in Seq(Messages) /\ <<>> \in Seq(Messages)
      /\ s2c[c] # <<>> => Tail(s2c[c]) \in Seq(Messages)
      /\ \A m \in Messages : /\ <<m>> \in Seq(Messages)
                            /\ c2s[c] \o <<m>> \in Seq(Messages)
                            /\ Append(c2s[c], m) \in Seq(Messages)
  BY <1>t, Queues
<1>m. cPc[c] = "streams" => cMade[c] + 1 \in 0 .. AllStreams
  <2>1. cPc[c] = "streams" => cMade[c] < AllStreams
    BY DEF ControlInv, ClientInv
  <2> QED
    BY <2>1, <1>t, Counts
<1>1. CASE iperf_connect(c)
  <2>1. Touch(cPc, cPc', c, ClientPcs)
    BY <1>1 DEF Touch, iperf_connect, ClientFails, ClientPcs
  <2>2. Touch(cErr, cErr', c, Errors)
    BY <1>1 DEF Touch, iperf_connect, ClientFails, Errors
  <2>3. Touch(cEnd, cEnd', c, {"none", "open", "closed"})
    BY <1>1 DEF Touch, iperf_connect, ClientFails
  <2>4. Touch(sEnd, sEnd', c, {"none", "queued", "open", "closed"})
    BY <1>1 DEF Touch, iperf_connect, ClientFails
  <2>5. Touch(c2s, c2s', c, Seq(Messages))
    BY <1>1, <1>q DEF Touch, iperf_connect, ClientFails
  <2>6. UNCHANGED <<cState, cDone, cMade, cThread, cTimer, s2c, lost, serverVars>>
    BY <1>1 DEF iperf_connect, ClientFails
  <2> QED
    BY <2>1, <2>2, <2>3, <2>4, <2>5, <2>6 DEF Moves, Touch
<1>2. CASE client_param_exchange(c)
  <2>1. Touch(cState, cState', c, States)
    BY <1>2 DEF Touch, client_param_exchange, ClientReads, ClientWrites, ClientFails, States, Positive
  <2>2. Touch(cPc, cPc', c, ClientPcs)
    BY <1>2 DEF Touch, client_param_exchange, ClientReads, ClientWrites, ClientFails, ClientPcs
  <2>3. Touch(cErr, cErr', c, Errors)
    BY <1>2 DEF Touch, client_param_exchange, ClientReads, ClientWrites, ClientFails, Errors
  <2>4. Touch(c2s, c2s', c, Seq(Messages))
    BY <1>2, <1>q DEF Touch, client_param_exchange, ClientReads, ClientWrites, ClientFails
  <2>5. Touch(s2c, s2c', c, Seq(Messages))
    BY <1>2, <1>q DEF Touch, client_param_exchange, ClientReads, ClientWrites, ClientFails
  <2>6. UNCHANGED <<cDone, cMade, cThread, cTimer, cEnd, sEnd, lost, serverVars>>
    BY <1>2 DEF client_param_exchange, ClientReads, ClientWrites, ClientFails
  <2> QED
    BY <2>1, <2>2, <2>3, <2>4, <2>5, <2>6 DEF Moves, Touch
<1>3. CASE client_create_streams(c)
  <2>1. Touch(cState, cState', c, States)
    BY <1>3 DEF Touch, client_create_streams, ClientReads, States, Positive
  <2>2. Touch(cPc, cPc', c, ClientPcs)
    BY <1>3 DEF Touch, client_create_streams, ClientReads, ClientPcs
  <2>3. Touch(s2c, s2c', c, Seq(Messages))
    BY <1>3, <1>q DEF Touch, client_create_streams, ClientReads
  <2>4. UNCHANGED <<cDone, cErr, cMade, cThread, cTimer, cEnd, sEnd, c2s, lost, serverVars>>
    BY <1>3 DEF client_create_streams, ClientReads
  <2> QED
    BY <2>1, <2>2, <2>3, <2>4 DEF Moves, Touch
<1>4. CASE iperf_create_streams(c)
  <2>1. Touch(cPc, cPc', c, ClientPcs)
    BY <1>4 DEF Touch, iperf_create_streams, ClientFails, ClientPcs
  <2>2. Touch(cErr, cErr', c, Errors)
    BY <1>4 DEF Touch, iperf_create_streams, ClientFails, Errors
  <2>3. Touch(cMade, cMade', c, 0 .. AllStreams)
    BY <1>4, <1>m DEF Touch, iperf_create_streams, ClientFails
  <2>4. UNCHANGED <<cState, cDone, cThread, cTimer, cEnd, sEnd, c2s, s2c, lost, serverVars>>
    BY <1>4 DEF iperf_create_streams, ClientFails
  <2> QED
    BY <2>1, <2>2, <2>3, <2>4 DEF Moves, Touch
<1>5. CASE client_test_start(c)
  <2>1. Touch(cState, cState', c, States)
    BY <1>5 DEF Touch, client_test_start, ClientReads, States, Positive
  <2>2. Touch(cDone, cDone', c, BOOLEAN)
    BY <1>5 DEF Touch, client_test_start, ClientReads
  <2>3. Touch(cTimer, cTimer', c, {"null", "set", "due"})
    BY <1>5 DEF Touch, client_test_start, ClientReads
  <2>4. Touch(s2c, s2c', c, Seq(Messages))
    BY <1>5, <1>q DEF Touch, client_test_start, ClientReads
  <2>5. UNCHANGED <<cPc, cErr, cMade, cThread, cEnd, sEnd, c2s, lost, serverVars>>
    BY <1>5 DEF client_test_start, ClientReads
  <2> QED
    BY <2>1, <2>2, <2>3, <2>4, <2>5 DEF Moves, Touch
<1>6. CASE client_test_running(c)
  <2>1. Touch(cState, cState', c, States)
    BY <1>6 DEF Touch, client_test_running, ClientReads, ClientFails, States, Positive
  <2>2. Touch(cThread, cThread', c, [Streams -> ThreadStates])
    BY <1>6 DEF Touch, ThreadStates, client_test_running, ClientReads, ClientFails
  <2>3. Touch(cPc, cPc', c, ClientPcs)
    BY <1>6 DEF Touch, client_test_running, ClientReads, ClientFails, ClientPcs
  <2>4. Touch(cErr, cErr', c, Errors)
    BY <1>6 DEF Touch, client_test_running, ClientReads, ClientFails, Errors
  <2>5. Touch(s2c, s2c', c, Seq(Messages))
    BY <1>6, <1>q DEF Touch, client_test_running, ClientReads, ClientFails
  <2>6. UNCHANGED <<cDone, cMade, cTimer, cEnd, sEnd, c2s, lost, serverVars>>
    BY <1>6 DEF client_test_running, ClientReads, ClientFails
  <2> QED
    BY <2>1, <2>2, <2>3, <2>4, <2>5, <2>6 DEF Moves, Touch
<1>7. CASE client_check_done(c)
  <2>1. Touch(cPc, cPc', c, ClientPcs)
    BY <1>7 DEF Touch, client_check_done, ClientWrites, ClientFails, ClientPcs
  <2>2. Touch(cState, cState', c, States)
    BY <1>7 DEF Touch, client_check_done, ClientWrites, ClientFails, States, Positive
  <2>3. Touch(cDone, cDone', c, BOOLEAN)
    BY <1>7 DEF Touch, client_check_done, ClientWrites, ClientFails
  <2>4. Touch(cErr, cErr', c, Errors)
    BY <1>7 DEF Touch, client_check_done, ClientWrites, ClientFails, Errors
  <2>5. Touch(cThread, cThread', c, [Streams -> ThreadStates])
    BY <1>7, <1>t, JoinedThreads DEF Touch, client_check_done, ClientWrites, ClientFails
  <2>6. Touch(cTimer, cTimer', c, {"null", "set", "due"})
    BY <1>7 DEF Touch, client_check_done, ClientWrites, ClientFails
  <2>7. Touch(c2s, c2s', c, Seq(Messages))
    BY <1>7, <1>q DEF Touch, client_check_done, ClientWrites, ClientFails
  <2>8. UNCHANGED <<cMade, cEnd, sEnd, s2c, lost, serverVars>>
    BY <1>7 DEF client_check_done, ClientWrites, ClientFails
  <2> QED
    BY <2>1, <2>2, <2>3, <2>4, <2>5, <2>6, <2>7, <2>8 DEF Moves, Touch
<1>8. CASE client_rcv_timeout(c)
  <2>1. Touch(cPc, cPc', c, ClientPcs)
    BY <1>8 DEF Touch, client_rcv_timeout, ClientFails, netVars, ClientPcs
  <2>2. Touch(cErr, cErr', c, Errors)
    BY <1>8 DEF Touch, client_rcv_timeout, ClientFails, netVars, Errors
  <2>3. UNCHANGED <<cState, cDone, cMade, cThread, cTimer, cEnd, sEnd, c2s, s2c, lost, serverVars>>
    BY <1>8 DEF client_rcv_timeout, ClientFails, netVars
  <2> QED
    BY <2>1, <2>2, <2>3 DEF Moves, Touch
<1>9. CASE client_exchange_results(c)
  <2>1. Touch(cState, cState', c, States)
    BY <1>9 DEF Touch, client_exchange_results, ClientReads, ClientWrites, ClientFails, States, Positive
  <2>2. Touch(cPc, cPc', c, ClientPcs)
    BY <1>9 DEF Touch, client_exchange_results, ClientReads, ClientWrites, ClientFails, ClientPcs
  <2>3. Touch(cErr, cErr', c, Errors)
    BY <1>9 DEF Touch, client_exchange_results, ClientReads, ClientWrites, ClientFails, Errors
  <2>4. Touch(c2s, c2s', c, Seq(Messages))
    BY <1>9, <1>q DEF Touch, client_exchange_results, ClientReads, ClientWrites, ClientFails
  <2>5. Touch(s2c, s2c', c, Seq(Messages))
    BY <1>9, <1>q DEF Touch, client_exchange_results, ClientReads, ClientWrites, ClientFails
  <2>6. UNCHANGED <<cDone, cMade, cThread, cTimer, cEnd, sEnd, lost, serverVars>>
    BY <1>9 DEF client_exchange_results, ClientReads, ClientWrites, ClientFails
  <2> QED
    BY <2>1, <2>2, <2>3, <2>4, <2>5, <2>6 DEF Moves, Touch
<1>10. CASE client_get_results(c)
  <2>1. Touch(cPc, cPc', c, ClientPcs)
    BY <1>10 DEF Touch, client_get_results, ClientFails, ClientPcs
  <2>2. Touch(cErr, cErr', c, Errors)
    BY <1>10 DEF Touch, client_get_results, ClientFails, Errors
  <2>3. Touch(s2c, s2c', c, Seq(Messages))
    BY <1>10, <1>q DEF Touch, client_get_results, ClientFails
  <2>4. UNCHANGED <<cState, cDone, cMade, cThread, cTimer, cEnd, sEnd, c2s, lost, serverVars>>
    BY <1>10 DEF client_get_results, ClientFails
  <2> QED
    BY <2>1, <2>2, <2>3, <2>4 DEF Moves, Touch
<1>11. CASE client_display_results(c)
  <2>1. Touch(cState, cState', c, States)
    BY <1>11, <1>t DEF Touch, client_display_results, ClientReads, iperf_client_end, States, Positive
  <2>2. Touch(cEnd, cEnd', c, {"none", "open", "closed"})
    BY <1>11, <1>t DEF Touch, client_display_results, ClientReads, iperf_client_end
  <2>3. Touch(c2s, c2s', c, Seq(Messages))
    BY <1>11, <1>q DEF Touch, AfterClose, client_display_results, ClientReads, iperf_client_end
  <2>4. Touch(cPc, cPc', c, ClientPcs)
    BY <1>11, <1>t DEF Touch, client_display_results, ClientReads, iperf_client_end, ClientPcs
  <2>5. Touch(s2c, s2c', c, Seq(Messages))
    BY <1>11, <1>q DEF Touch, client_display_results, ClientReads, iperf_client_end
  <2>6. UNCHANGED <<cDone, cErr, cMade, cThread, cTimer, sEnd, lost, serverVars>>
    BY <1>11 DEF client_display_results, ClientReads, iperf_client_end
  <2> QED
    BY <2>1, <2>2, <2>3, <2>4, <2>5, <2>6 DEF Moves, Touch
<1>12. CASE client_refused(c)
  <2>1. Touch(cState, cState', c, States)
    BY <1>12 DEF Touch, client_refused, ClientReads, ClientFails, States, Positive
  <2>2. Touch(cPc, cPc', c, ClientPcs)
    BY <1>12 DEF Touch, client_refused, ClientReads, ClientFails, ClientPcs
  <2>3. Touch(cErr, cErr', c, Errors)
    BY <1>12 DEF Touch, client_refused, ClientReads, ClientFails, Errors
  <2>4. Touch(s2c, s2c', c, Seq(Messages))
    BY <1>12, <1>q DEF Touch, client_refused, ClientReads, ClientFails
  <2>5. UNCHANGED <<cDone, cMade, cThread, cTimer, cEnd, sEnd, c2s, lost, serverVars>>
    BY <1>12 DEF client_refused, ClientReads, ClientFails
  <2> QED
    BY <2>1, <2>2, <2>3, <2>4, <2>5 DEF Moves, Touch
<1>13. CASE client_ctrl_closed(c)
  <2>1. Touch(cPc, cPc', c, ClientPcs)
    BY <1>13 DEF Touch, client_ctrl_closed, ClientFails, netVars, ClientPcs
  <2>2. Touch(cErr, cErr', c, Errors)
    BY <1>13 DEF Touch, client_ctrl_closed, ClientFails, netVars, Errors
  <2>3. UNCHANGED <<cState, cDone, cMade, cThread, cTimer, cEnd, sEnd, c2s, s2c, lost, serverVars>>
    BY <1>13 DEF client_ctrl_closed, ClientFails, netVars
  <2> QED
    BY <2>1, <2>2, <2>3 DEF Moves, Touch
<1>14. CASE client_join(c)
  <2>1. Touch(cThread, cThread', c, [Streams -> ThreadStates])
    BY <1>14, <1>t, JoinedThreads DEF Touch, client_join, netVars
  <2>2. Touch(cPc, cPc', c, ClientPcs)
    BY <1>14 DEF Touch, client_join, netVars, ClientPcs
  <2>3. UNCHANGED <<cState, cDone, cErr, cMade, cTimer, cEnd, sEnd, c2s, s2c, lost, serverVars>>
    BY <1>14 DEF client_join, netVars
  <2> QED
    BY <2>1, <2>2, <2>3 DEF Moves, Touch
<1>15. CASE client_cleanup_and_fail(c)
  <2>1. Touch(cThread, cThread', c, [Streams -> ThreadStates])
    BY <1>15, <1>t, JoinedThreads DEF Touch, client_cleanup_and_fail, iperf_client_end
  <2>2. Touch(cState, cState', c, States)
    BY <1>15, <1>t DEF Touch, client_cleanup_and_fail, iperf_client_end, States, Positive
  <2>3. Touch(cEnd, cEnd', c, {"none", "open", "closed"})
    BY <1>15, <1>t DEF Touch, client_cleanup_and_fail, iperf_client_end
  <2>4. Touch(c2s, c2s', c, Seq(Messages))
    BY <1>15, <1>q DEF Touch, AfterClose, client_cleanup_and_fail, iperf_client_end
  <2>5. Touch(cPc, cPc', c, ClientPcs)
    BY <1>15, <1>t DEF Touch, client_cleanup_and_fail, iperf_client_end, ClientPcs
  <2>6. UNCHANGED <<cDone, cErr, cMade, cTimer, sEnd, s2c, lost, serverVars>>
    BY <1>15 DEF client_cleanup_and_fail, iperf_client_end
  <2> QED
    BY <2>1, <2>2, <2>3, <2>4, <2>5, <2>6 DEF Moves, Touch
<1>16. CASE client_clock(c)
  <2>1. Touch(cTimer, cTimer', c, {"null", "set", "due"})
    BY <1>16 DEF Touch, client_clock, netVars
  <2>2. UNCHANGED <<cPc, cState, cDone, cErr, cMade, cThread, cEnd, sEnd, c2s, s2c, lost, serverVars>>
    BY <1>16 DEF client_clock, netVars
  <2> QED
    BY <2>1, <2>2 DEF Moves, Touch
<1>17. CASE client_stopTest(c)
  <2>1. Touch(cDone, cDone', c, BOOLEAN)
    BY <1>17 DEF Touch, client_stopTest, netVars
  <2>2. UNCHANGED <<cPc, cState, cErr, cMade, cThread, cTimer, cEnd, sEnd, c2s, s2c, lost, serverVars>>
    BY <1>17 DEF client_stopTest, netVars
  <2> QED
    BY <2>1, <2>2 DEF Moves, Touch
<1>18. CASE client_sigend(c)
  <2>1. Touch(cState, cState', c, States)
    BY <1>18 DEF Touch, client_sigend, States, Positive
  <2>2. Touch(cDone, cDone', c, BOOLEAN)
    BY <1>18 DEF Touch, client_sigend
  <2>3. Touch(cErr, cErr', c, Errors)
    BY <1>18 DEF Touch, client_sigend, Errors
  <2>4. Touch(cThread, cThread', c, [Streams -> ThreadStates])
    BY <1>18, <1>t DEF Touch, ThreadStates, client_sigend
  <2>5. Touch(cPc, cPc', c, ClientPcs)
    BY <1>18 DEF Touch, client_sigend, ClientPcs
  <2>6. Touch(cEnd, cEnd', c, {"none", "open", "closed"})
    BY <1>18 DEF Touch, client_sigend
  <2>7. Touch(c2s, c2s', c, Seq(Messages))
    BY <1>18, <1>q DEF Touch, AfterClose, client_sigend
  <2>8. UNCHANGED <<cMade, cTimer, sEnd, s2c, lost, serverVars>>
    BY <1>18 DEF client_sigend
  <2> QED
    BY <2>1, <2>2, <2>3, <2>4, <2>5, <2>6, <2>7, <2>8 DEF Moves, Touch
<1>19. CASE lose(c)
  <2>1. Touch(lost, lost', c, BOOLEAN)
    BY <1>19 DEF Touch, lose, clientVars
  <2>2. UNCHANGED <<cPc, cState, cDone, cErr, cMade, cThread, cTimer, cEnd, sEnd, c2s, s2c, serverVars>>
    BY <1>19 DEF lose, clientVars
  <2> QED
    BY <2>1, <2>2 DEF Moves, Touch
<1>20. CASE \E i \in Streams : client_worker(c, i)
  <2> PICK i \in Streams : client_worker(c, i)
    BY <1>20
  <2>1. Touch(cErr, cErr', c, Errors)
    BY DEF Touch, Errors, client_worker
  <2>2. Touch(cThread, cThread', c, [Streams -> ThreadStates])
    <3>1. [cThread[c] EXCEPT ![i] = "exited"] \in [Streams -> ThreadStates]
      BY <1>t DEF ThreadStates
    <3>2. cThread' = Set(cThread, c, [cThread[c] EXCEPT ![i] = "exited"])
      BY DEF client_worker, Set
    <3> QED
      BY <3>1, <3>2 DEF Touch
  <2>3. UNCHANGED <<cPc, cState, cDone, cMade, cTimer, cEnd, sEnd, c2s, s2c, lost, serverVars>>
    BY DEF client_worker, netVars
  <2> QED
    BY <2>1, <2>2, <2>3 DEF Moves, Touch
<1> QED
  BY <1>1, <1>2, <1>3, <1>4, <1>5, <1>6, <1>7, <1>8, <1>9, <1>10, <1>11, <1>12, <1>13, <1>14, <1>15, <1>16, <1>17, <1>18, <1>19, <1>20 DEF ClientStep, ClientLoop

-----------------------------------------------------------------------------
(* A step of a client.                                                     *)

\* Its effect on the other clients.
LEMMA OtherClients ==
  ASSUME NEW d \in Clients, Same(d), UNCHANGED serverVars,
         ClientInv(d), DownInv(d), UpInv(d)
  PROVE  /\ ClientInv(d)' /\ DownInv(d)' /\ UpInv(d)'
         /\ Served(d)' <=> Served(d)
<1>1. UNCHANGED <<sPc, sCtrl, sState>>
  BY DEF serverVars
<1>2. /\ Alive(d)' <=> Alive(d)
      /\ Talks(d)' <=> Talks(d)
      /\ SendersStopped(d)' <=> SendersStopped(d)
      /\ AllStopped(d)' <=> AllStopped(d)
      /\ Read(d)' = Read(d)
  BY <1>1 DEF Same, Alive, Talks, SendersStopped, AllStopped, Read
<1>3. ClientInv(d)'
  BY <1>1, <1>2 DEF ClientInv, Same
<1>4. DownInv(d)'
  BY <1>1, <1>2 DEF DownInv, Same
<1>5. UpInv(d)'
  BY <1>1, <1>2 DEF UpInv, Same
<1>6. Served(d)' <=> Served(d)
  BY <1>1, <1>2 DEF Served, Same
<1> QED
  BY <1>3, <1>4, <1>5, <1>6

\* It is enough to look at the client that takes the step.
LEMMA ClientPart ==
  ASSUME ControlInv, NEW c \in Clients, Moves(c),
         backlog' \in Seq(Clients \X {"ctrl", "stream"}),
         ClientInv(c)', DownInv(c)', UpInv(c)', BacklogInv',
         Served(c)' => Served(c)
  PROVE  ControlInv'
<1>1. TypeOK' /\ \A d \in Clients : d # c => Same(d)
  BY MovesFrame DEF ControlInv
<1>2. UNCHANGED serverVars
  BY DEF Moves
<1>3. ServerInv' /\ (Idle' <=> Idle)
  BY <1>2 DEF ControlInv, ServerInv, Idle, serverVars, AllAccepted
<1>4. ASSUME NEW d \in Clients
      PROVE  /\ ClientInv(d)' /\ DownInv(d)' /\ UpInv(d)'
             /\ Served(d)' => Served(d)
  <2>1. CASE d = c
    BY <2>1
  <2>2. CASE d # c
    BY <1>1, <1>2, <2>2, OtherClients DEF ControlInv
  <2> QED
    BY <2>1, <2>2
<1>5. ServedInv'
  BY <1>3, <1>4 DEF ServedInv, ControlInv
<1> QED
  BY <1>1, <1>3, <1>4, <1>5 DEF ControlInv

\* The queue to a client that reads n = 0 or 1 messages and gets n places further,
\* or leaves its loop.
LEMMA DownStep ==
  ASSUME ControlInv, NEW c \in Clients, UNCHANGED serverVars, sEnd'[c] = sEnd[c],
         NEW n \in {0, 1},
         n = 0 => s2c'[c] = s2c[c],
         n = 1 => s2c[c] # <<>> /\ s2c'[c] = Tail(s2c[c]),
         Alive(c)' => /\ Alive(c)
                      /\ Place(cState'[c], cPc'[c]) = Place(cState[c], cPc[c]) + n
                      /\ cState[c] \in EndStates => cState'[c] \in EndStates
                      /\ n = 0 /\ cState[c] = "NONE" => cState'[c] = "NONE"
  PROVE  /\ DownInv(c)'
         /\ Has(Down, s2c'[c], 0 .. 7) => Has(Down, s2c[c], 0 .. 7)
<1> DEFINE p == Place(cState[c], cPc[c])
<1>1. s2c[c] \in Seq(Messages) /\ DownInv(c)
  BY DEF ControlInv, TypeOK
<1>2. UNCHANGED <<sPc, sCtrl, sState>> /\ (Talks(c)' <=> Talks(c))
  BY DEF serverVars, Talks
<1>3. p \in Int
  BY DEF Place
<1> HIDE DEF p
<1>4. /\ Len(s2c'[c]) = Len(s2c[c]) - n
      /\ Len(s2c[c]) \in Nat
      /\ Follow(Down, s2c[c], p) => Follow(Down, s2c'[c], p + n)
      /\ \A R : Has(Down, s2c'[c], R) => Has(Down, s2c[c], R)
  <2>1. CASE n = 0
    BY <1>1, <1>3, <2>1, LenProperties
  <2>2. CASE n = 1
    <3>1. s2c[c] # <<>> /\ s2c'[c] = Tail(s2c[c])
      BY <2>2
    <3>2. /\ Len(Tail(s2c[c])) = Len(s2c[c]) - 1
          /\ Len(s2c[c]) \in Nat \ {0}
          /\ Follow(Down, s2c[c], p) => Follow(Down, Tail(s2c[c]), p + 1)
          /\ \A R : Has(Down, Tail(s2c[c]), R) => Has(Down, s2c[c], R)
      BY <3>1, <1>1, <1>3, HeadOfQueue
    <3> QED
      BY <2>2, <3>1, <3>2
  <2> QED
    BY <2>1, <2>2
<1>5. sEnd'[c] \in {"none", "queued"} => s2c'[c] = <<>>
  BY <1>1 DEF DownInv
<1>6. sEnd'[c] = "open" <=> sCtrl' = c
  BY <1>1, <1>2 DEF DownInv
<1>7. Alive(c)' /\ sEnd'[c] = "queued" => cState'[c] = "NONE"
  BY <1>1 DEF DownInv
<1>8. Alive(c)' => Follow(Down, s2c'[c], Place(cState'[c], cPc'[c]))
  BY <1>1, <1>4 DEF DownInv, p
<1>9. Alive(c)' /\ Talks(c)' =>
        Len(s2c'[c]) = Sent(sState') - Place(cState'[c], cPc'[c])
  <2>1. Alive(c) /\ Talks(c) => Len(s2c[c]) = Sent(sState) - p
    BY <1>1 DEF DownInv, p
  <2>2. Sent(sState) \in Int
    BY DEF Sent
  <2> QED
    BY <1>2, <1>3, <1>4, <2>1, <2>2 DEF p
<1>10. /\ Alive(c)' /\ Has(Down, s2c'[c], 5 .. 7) => cState'[c] \in EndStates
       /\ Alive(c)' /\ Has(Down, s2c'[c], {7}) => sState' \in FinalStates
  BY <1>1, <1>2, <1>4 DEF DownInv
<1>11. DownInv(c)'
  BY <1>5, <1>6, <1>7, <1>8, <1>9, <1>10 DEF DownInv
<1> QED
  BY <1>4, <1>11

\* The server has been told that the senders of the client are done.
Closing(c) ==
  \/ Talks(c) /\ Has(Up, c2s[c], {3})
  \/ sCtrl = c /\ sState \in {"EXCHANGE_RESULTS", "DISPLAY_RESULTS"}

\* The queue from a client that writes nothing.
LEMMA UpKeep ==
  ASSUME ControlInv, NEW c \in Clients, UNCHANGED serverVars, sEnd'[c] = sEnd[c],
         c2s'[c] = c2s[c],
         Closing(c) /\ SendersStopped(c) => SendersStopped(c)',
         Alive(c)' => /\ Alive(c)
                      /\ Wrote(cState'[c]) = Wrote(cState[c])
                      /\ cState[c] \in EndStates => cState'[c] \in EndStates
  PROVE  UpInv(c)'
<1>1. UpInv(c)
  BY DEF ControlInv
<1>2. UNCHANGED <<sPc, sCtrl, sState>> /\ (Talks(c)' <=> Talks(c)) /\ Read(c)' = Read(c)
  BY DEF serverVars, Talks, Read
<1> QED
  BY <1>1, <1>2 DEF UpInv, Closing

\* The queue from a client that leaves its loop, says goodbye and closes.
LEMMA UpLeave ==
  ASSUME ControlInv, NEW c \in Clients, UNCHANGED serverVars, sEnd'[c] = sEnd[c],
         NEW m \in {"IPERF_DONE", "CLIENT_TERMINATE"},
         c2s'[c] \in {c2s[c], <<>>, Append(c2s[c], m)},
         sEnd[c] = "none" => c2s'[c] \in {c2s[c], <<>>},
         SendersStopped(c) => SendersStopped(c)',
         ~Alive(c)'
  PROVE  UpInv(c)'
<1>1. UpInv(c) /\ c2s[c] \in Seq(Messages)
  BY DEF ControlInv, TypeOK
<1>2. UNCHANGED <<sPc, sCtrl, sState>> /\ (Talks(c)' <=> Talks(c)) /\ Read(c)' = Read(c)
  BY DEF serverVars, Talks, Read
<1>3. Read(c) \in Int
  BY DEF Read, Got
<1>4. /\ m \in Messages /\ Up[m] = Last
      /\ 3 # Last
  BY DEF Messages, States, Positive, Up, Last
<1>5. /\ Follow(Up, c2s[c], Read(c)) => Follow(Up, c2s'[c], Read(c))
      /\ Has(Up, c2s'[c], {3}) => Has(Up, c2s[c], {3})
  <2>1. CASE c2s'[c] = c2s[c]
    BY <2>1
  <2>2. CASE c2s'[c] = <<>>
    BY <2>2, EmptyQueue
  <2>3. CASE c2s'[c] = Append(c2s[c], m)
    <3>1. /\ Follow(Up, c2s[c], Read(c)) /\ Up[m] = Last =>
               Follow(Up, Append(c2s[c], m), Read(c))
          /\ \A R : Has(Up, Append(c2s[c], m), R) => Has(Up, c2s[c], R) \/ Up[m] \in R
      BY <1>1, <1>3, <1>4, AppendToQueue
    <3> QED
      BY <2>3, <3>1, <1>4
  <2> QED
    BY <2>1, <2>2, <2>3
<1> QED
  BY <1>1, <1>2, <1>5 DEF UpInv

\* The queue from a client that writes the next message of its script.
LEMMA UpWrite ==
  ASSUME ControlInv, NEW c \in Clients, UNCHANGED serverVars, sEnd'[c] = sEnd[c],
         NEW m \in {"params", "TEST_END", "results"},
         sEnd[c] \in {"open", "closed"},
         sEnd[c] = "open" => c2s'[c] = Append(c2s[c], m),
         Alive(c), Alive(c)',
         Up[m] = Wrote(cState[c]) + 1,
         Wrote(cState'[c]) = Wrote(cState[c]) + 1,
         m = "TEST_END" => /\ Talks(c) => sState = "TEST_RUNNING"
                           /\ SendersStopped(c)',
         SendersStopped(c) => SendersStopped(c)',
         cState[c] \in EndStates => cState'[c] \in EndStates
  PROVE  UpInv(c)'
<1>1. UpInv(c) /\ DownInv(c) /\ c2s[c] \in Seq(Messages)
  BY DEF ControlInv, TypeOK
<1>2. UNCHANGED <<sPc, sCtrl, sState>> /\ (Talks(c)' <=> Talks(c)) /\ Read(c)' = Read(c)
  BY DEF serverVars, Talks, Read
<1>3. Read(c) \in Int /\ Wrote(cState[c]) \in Int
  BY DEF Read, Got, Wrote
<1>4. m \in Messages /\ (Up[m] = 3 => m = "TEST_END")
  BY DEF Messages, States, Positive, Up
<1>5. CASE sEnd[c] = "closed"
  <2>1. sCtrl # c
    BY <1>1, <1>5 DEF DownInv
  <2> QED
    BY <2>1, <1>2, <1>5 DEF UpInv, Talks
<1>6. CASE sEnd[c] = "open"
  <2>1. c2s'[c] = Append(c2s[c], m)
    BY <1>6
  <2>2. /\ Len(Append(c2s[c], m)) = Len(c2s[c]) + 1
        /\ Len(c2s[c]) \in Nat
        /\ Follow(Up, c2s[c], Read(c)) /\ Up[m] = Read(c) + Len(c2s[c]) + 1 =>
             Follow(Up, Append(c2s[c], m), Read(c))
        /\ \A R : Has(Up, Append(c2s[c], m), R) => Has(Up, c2s[c], R) \/ Up[m] \in R
    BY <1>1, <1>3, <1>4, AppendToQueue
  <2>3. Talks(c) => /\ Follow(Up, c2s[c], Read(c))
                    /\ Len(c2s[c]) = Wrote(cState[c]) - Read(c)
    BY <1>1 DEF UpInv
  <2>4. Talks(c) => /\ Follow(Up, c2s'[c], Read(c))
                    /\ Len(c2s'[c]) = Wrote(cState'[c]) - Read(c)
    BY <1>3, <2>1, <2>2, <2>3
  <2>5. Talks(c) /\ Has(Up, c2s'[c], {3}) => sState = "TEST_RUNNING" /\ SendersStopped(c)'
    BY <1>1, <1>4, <2>1, <2>2 DEF UpInv
  <2> QED
    BY <1>1, <1>2, <1>6, <2>4, <2>5 DEF UpInv
<1> QED
  BY <1>5, <1>6

\* What a client whose loop runs can find at the head of its queue.
LEMMA HeadDown ==
  ASSUME ControlInv, NEW c \in Clients, Alive(c), s2c[c] # <<>>
  PROVE  /\ Head(s2c[c]) \in Messages
         /\ Down[Head(s2c[c])] \in {Place(cState[c], cPc[c]) + 1, Last}
         /\ Down[Head(s2c[c])] \in 5 .. 7 => cState[c] \in EndStates
         /\ Down[Head(s2c[c])] = 7 => sState \in FinalStates
         /\ sEnd[c] \in {"open", "closed"}
<1>1. /\ DownInv(c) /\ s2c[c] \in Seq(Messages)
      /\ sEnd[c] \in {"none", "queued", "open", "closed"}
  BY DEF ControlInv, TypeOK
<1>2. Place(cState[c], cPc[c]) \in Int
  BY DEF Place
<1>3. /\ Head(s2c[c]) \in Messages
      /\ Follow(Down, s2c[c], Place(cState[c], cPc[c])) =>
           Down[Head(s2c[c])] \in {Place(cState[c], cPc[c]) + 1, Last}
      /\ \A R : Down[Head(s2c[c])] \in R => Has(Down, s2c[c], R)
  BY <1>1, <1>2, HeadOfQueue
<1>4. sEnd[c] \in {"open", "closed"}
  BY <1>1 DEF DownInv
<1>5. Down[Head(s2c[c])] \in 5 .. 7 => cState[c] \in EndStates
  BY <1>1, <1>3 DEF DownInv
<1>6. Down[Head(s2c[c])] = 7 => sState \in FinalStates
  BY <1>1, <1>3 DEF DownInv
<1> QED
  BY <1>1, <1>3, <1>4, <1>5, <1>6 DEF DownInv

\* The state of a client determines the state byte that it reads.
LEMMA ReadsInOrder ==
  ASSUME ControlInv, NEW c \in Clients, NEW m, ClientReads(c, m)
  PROVE  /\ cPc[c] = "select" /\ Alive(c)
         /\ s2c[c] # <<>> /\ s2c'[c] = Tail(s2c[c])
         /\ sEnd[c] \in {"open", "closed"}
         /\ m = "PARAM_EXCHANGE"   => cState[c] = "NONE"
         /\ m = "CREATE_STREAMS"   => cState[c] = "PARAM_EXCHANGE"
         /\ m = "TEST_START"       => cState[c] = "CREATE_STREAMS"
         /\ m = "TEST_RUNNING"     => cState[c] = "TEST_START"
         /\ m = "EXCHANGE_RESULTS" => cState[c] = "TEST_END"
         /\ m = "DISPLAY_RESULTS"  => /\ cState[c] = "EXCHANGE_RESULTS"
                                      /\ sState \in FinalStates
         /\ m \in Messages \ {"PARAM_EXCHANGE", "CREATE_STREAMS", "TEST_START",
                              "TEST_RUNNING", "EXCHANGE_RESULTS", "DISPLAY_RESULTS"} =>
              m \in {"ACCESS_DENIED", "SERVER_ERROR", "SERVER_TERMINATE"}
<1>1. /\ cPc[c] = "select" /\ Alive(c) /\ s2c[c] # <<>> /\ m = Head(s2c[c])
      /\ s2c' = Set(s2c, c, Tail(s2c[c]))
  BY DEF ClientReads, Alive
<1>2. s2c'[c] = Tail(s2c[c])
  BY <1>1, At DEF ControlInv
<1>3. cState[c] \in LiveStates
  BY <1>1 DEF ControlInv, ClientInv
<1>4. /\ m \in Messages
      /\ Down[m] \in {Place(cState[c], "select") + 1, Last}
      /\ Down[m] \in 5 .. 7 => cState[c] \in EndStates
      /\ Down[m] = 7 => sState \in FinalStates
      /\ sEnd[c] \in {"open", "closed"}
  BY <1>1, HeadDown
<1>5. /\ Place("NONE", "select") = 0 /\ Place("PARAM_EXCHANGE", "select") = 1
      /\ Place("CREATE_STREAMS", "select") = 2 /\ Place("TEST_START", "select") = 3
      /\ Place("TEST_RUNNING", "select") = 4 /\ Place("TEST_END", "select") = 4
      /\ Place("EXCHANGE_RESULTS", "select") = 6
  BY DEF Place
<1>6. /\ Down["PARAM_EXCHANGE"] = 1 /\ Down["CREATE_STREAMS"] = 2
      /\ Down["TEST_START"] = 3 /\ Down["TEST_RUNNING"] = 4
      /\ Down["EXCHANGE_RESULTS"] = 5 /\ Down["results"] = 6
      /\ Down["DISPLAY_RESULTS"] = 7
  BY DEF Down, Messages, States, Positive
<1>7. m \in Messages \ {"PARAM_EXCHANGE", "CREATE_STREAMS", "TEST_START", "TEST_RUNNING",
                        "EXCHANGE_RESULTS", "results", "DISPLAY_RESULTS",
                        "ACCESS_DENIED", "SERVER_ERROR", "SERVER_TERMINATE"} =>
        Down[m] = 0
  BY DEF Down
<1>8. /\ m = "PARAM_EXCHANGE"   => cState[c] = "NONE"
      /\ m = "CREATE_STREAMS"   => cState[c] = "PARAM_EXCHANGE"
      /\ m = "TEST_START"       => cState[c] = "CREATE_STREAMS"
      /\ m = "TEST_RUNNING"     => cState[c] = "TEST_START"
  BY <1>3, <1>4, <1>5, <1>6 DEF LiveStates, Last
<1>9. /\ m = "EXCHANGE_RESULTS" => cState[c] = "TEST_END"
      /\ m = "DISPLAY_RESULTS"  => cState[c] = "EXCHANGE_RESULTS" /\ sState \in FinalStates
      /\ m # "results"
  BY <1>3, <1>4, <1>5, <1>6 DEF LiveStates, EndStates, Last
<1>10. Down[m] # 0
  BY <1>3, <1>4, <1>5 DEF LiveStates, Last
<1> QED
  BY <1>1, <1>2, <1>4, <1>7, <1>8, <1>9, <1>10

\* A step of a client that leaves the accept queue alone.
LEMMA QuietClientPart ==
  ASSUME ControlInv, NEW c \in Clients, Moves(c), UNCHANGED <<sEnd, backlog>>,
         ClientInv(c)', DownInv(c)', UpInv(c)', Served(c)' => Served(c)
  PROVE  ControlInv'
<1>1. backlog' \in Seq(Clients \X {"ctrl", "stream"})
  BY DEF ControlInv, TypeOK
<1>2. Idle' <=> Idle
  BY DEF Moves, serverVars, Idle
<1>3. BacklogInv'
  BY <1>2 DEF ControlInv, BacklogInv
<1> QED
  BY <1>1, <1>3, ClientPart

\* A client that reads a state byte of the script has been served.
LEMMA ReaderServed ==
  ASSUME ControlInv, NEW c \in Clients, NEW m, ClientReads(c, m),
         m \in {"PARAM_EXCHANGE", "CREATE_STREAMS", "TEST_START", "TEST_RUNNING",
                "EXCHANGE_RESULTS", "DISPLAY_RESULTS"}
  PROVE  Served(c)
<1>1. s2c[c] \in Seq(Messages) /\ 0 \in Int /\ s2c[c] # <<>> /\ m = Head(s2c[c])
  BY DEF ControlInv, TypeOK, ClientReads
<1>2. \A R : Down[m] \in R => Has(Down, s2c[c], R)
  BY <1>1, HeadOfQueue
<1>3. Down[m] \in 0 .. 7
  BY DEF Down, Messages, States, Positive
<1> QED
  BY <1>2, <1>3 DEF Served

\* The threads of a client are not started once the server has been told that its
\* senders are done.
LEMMA StartsInTime ==
  ASSUME ControlInv, NEW c \in Clients, Alive(c), cState[c] = "TEST_START"
  PROVE  ~Closing(c)
<1>1. UpInv(c) /\ DownInv(c) /\ c2s[c] \in Seq(Messages)
  BY DEF ControlInv, TypeOK
<1>2. ~(sCtrl = c /\ sState \in {"EXCHANGE_RESULTS", "DISPLAY_RESULTS"})
  BY <1>1 DEF UpInv, EndStates
<1>3. ASSUME Talks(c), Has(Up, c2s[c], {3})
      PROVE  FALSE
  <2>1. sState = "TEST_RUNNING" /\ Len(c2s[c]) = Wrote("TEST_START") - Read(c)
    BY <1>1, <1>3 DEF UpInv
  <2>2. sEnd[c] = "open"
    BY <1>1, <1>3 DEF DownInv, Talks
  <2>3. Wrote("TEST_START") = 2 /\ Read(c) = 2
    BY <2>1, <2>2 DEF Wrote, Read, Got
  <2>4. Len(c2s[c]) = 0
    BY <2>1, <2>3
  <2> QED
    BY <1>3, <2>4 DEF Has
<1> QED
  BY <1>2, <1>3 DEF Closing

\* A message that a client writes, and the way out of its loop.
LEMMA WritesAt ==
  ASSUME TypeOK, NEW c \in Clients, NEW m \in Messages, ClientWrites(c, <<m>>),
         sEnd[c] # "closed"
  PROVE  c2s'[c] = Append(c2s[c], m)
<1>1. c2s' = Set(c2s, c, c2s[c] \o <<m>>)
  BY DEF ClientWrites
<1>2. c2s[c] \o <<m>> = Append(c2s[c], m)
  BY Queues
<1> QED
  BY <1>1, <1>2, At

\* The client that goes to cleanup_and_fail.
LEMMA FailsAt ==
  ASSUME TypeOK, NEW c \in Clients, NEW e, ClientFails(c, e)
  PROVE  cPc'[c] = "fail" /\ cErr'[c] = e
BY At DEF ClientFails

\* The loop of a client that goes on after a state byte.
LEMMA ClientGoesOn ==
  ASSUME ControlInv, NEW c \in Clients,
         \/ client_param_exchange(c) \/ client_create_streams(c)
         \/ client_test_start(c) \/ client_test_running(c)
         \/ client_exchange_results(c)
  PROVE  ControlInv'
<1> USE Names
<1>i. TypeOK /\ ClientInv(c)
  BY DEF ControlInv
<1>s. UNCHANGED serverVars /\ Moves(c)
  BY ClientMoves DEF Moves, ClientStep, ClientLoop
<1>u. UNCHANGED <<sCtrl, sState>>
  BY <1>s DEF serverVars
<1>1. CASE client_param_exchange(c)
  <2>1. /\ ClientReads(c, "PARAM_EXCHANGE")
        /\ cState' = Set(cState, c, "PARAM_EXCHANGE")
        /\ UNCHANGED <<cMade, cThread, cEnd, sEnd, backlog>>
    BY <1>1 DEF client_param_exchange
  <2>2. /\ cPc[c] = "select" /\ Alive(c) /\ s2c[c] # <<>> /\ s2c'[c] = Tail(s2c[c])
        /\ sEnd[c] \in {"open", "closed"} /\ cState[c] = "NONE"
    BY <2>1, ReadsInOrder
  <2>3. cState'[c] = "PARAM_EXCHANGE"
    BY <2>1, <1>i, At
  <2>4. \/ /\ cPc'[c] = "select" /\ cErr'[c] = cErr[c]
           /\ sEnd[c] = "open" => c2s'[c] = Append(c2s[c], "params")
        \/ /\ cPc'[c] = "fail" /\ cErr'[c] = "IESENDPARAMS" /\ c2s'[c] = c2s[c]
    <3>1. \/ UNCHANGED <<cPc, cErr>> /\ ClientWrites(c, <<"params">>)
          \/ ClientFails(c, "IESENDPARAMS") /\ UNCHANGED c2s
      BY <1>1 DEF client_param_exchange
    <3> QED
      BY <1>i, <2>2, <3>1, WritesAt, FailsAt
  <2>5. ClientInv(c)'
    BY <1>i, <2>1, <2>2, <2>3, <2>4 DEF ClientInv, Alive, LiveStates, EndStates, Returned
  <2>6. Alive(c)' => cPc'[c] = "select"
    BY <2>4 DEF Alive
  <2>7. /\ Place("PARAM_EXCHANGE", "select") = Place("NONE", "select") + 1
        /\ Wrote("PARAM_EXCHANGE") = Wrote("NONE") + 1 /\ Up["params"] = Wrote("NONE") + 1
    BY DEF Place, Wrote, Up
  <2>8. /\ DownInv(c)'
        /\ Has(Down, s2c'[c], 0 .. 7) => Has(Down, s2c[c], 0 .. 7)
    <3>1. 1 \in {0, 1} /\ "NONE" \notin EndStates
      BY DEF EndStates
    <3> QED
      BY <1>s, <2>1, <2>2, <2>3, <2>6, <2>7, <3>1, DownStep
  <2>9. UpInv(c)'
    <3>1. CASE cPc'[c] = "fail"
      <4>1. ~Alive(c)' /\ c2s'[c] = c2s[c] /\ (SendersStopped(c) => SendersStopped(c)')
        BY <2>1, <2>4, <3>1 DEF Alive, SendersStopped
      <4> QED
        BY <1>s, <2>1, <4>1, UpKeep
    <3>2. CASE cPc'[c] = "select"
      <4>1. /\ Alive(c)' /\ (SendersStopped(c) => SendersStopped(c)')
            /\ sEnd[c] = "open" => c2s'[c] = Append(c2s[c], "params")
            /\ cState[c] \notin EndStates
        BY <2>1, <2>2, <2>4, <3>2 DEF Alive, SendersStopped, EndStates
      <4> QED
        BY <1>s, <2>1, <2>2, <2>3, <2>7, <4>1, UpWrite
    <3> QED
      BY <2>4, <3>1, <3>2
  <2>10. Served(c)' => Served(c)
    BY <2>1, ReaderServed
  <2> QED
    BY <1>s, <2>1, <2>5, <2>8, <2>9, <2>10, QuietClientPart
<1>2. CASE client_create_streams(c)
  <2>1. /\ ClientReads(c, "CREATE_STREAMS")
        /\ cState' = Set(cState, c, "CREATE_STREAMS") /\ cPc' = Set(cPc, c, "streams")
        /\ UNCHANGED <<cErr, cMade, cThread, cEnd, sEnd, c2s, backlog>>
    BY <1>2 DEF client_create_streams
  <2>2. /\ cPc[c] = "select" /\ Alive(c) /\ s2c[c] # <<>> /\ s2c'[c] = Tail(s2c[c])
        /\ cState[c] = "PARAM_EXCHANGE"
    BY <2>1, ReadsInOrder
  <2>3. cState'[c] = "CREATE_STREAMS" /\ cPc'[c] = "streams"
    BY <2>1, <1>i, At
  <2>4. cMade[c] = 0 /\ 0 < AllStreams
    BY <1>i, <2>2, Counts DEF ClientInv
  <2>5. ClientInv(c)'
    BY <1>i, <2>1, <2>2, <2>3, <2>4 DEF ClientInv, Alive, LiveStates, EndStates, Returned
  <2>6. /\ Place("CREATE_STREAMS", "streams") = Place("PARAM_EXCHANGE", "select") + 1
        /\ Wrote("CREATE_STREAMS") = Wrote("PARAM_EXCHANGE")
        /\ "PARAM_EXCHANGE" \notin EndStates /\ 1 \in {0, 1}
    BY DEF Place, Wrote, EndStates
  <2>7. DownInv(c)'
    BY <1>s, <2>1, <2>2, <2>3, <2>6, DownStep
  <2>8. UpInv(c)'
    <3>1. SendersStopped(c) => SendersStopped(c)'
      BY <2>1 DEF SendersStopped
    <3> QED
      BY <1>s, <2>1, <2>2, <2>3, <2>6, <3>1, UpKeep
  <2>9. Served(c)' => Served(c)
    BY <2>1, ReaderServed
  <2> QED
    BY <1>s, <2>1, <2>5, <2>7, <2>8, <2>9, QuietClientPart
<1>3. CASE client_test_start(c)
  <2>1. /\ ClientReads(c, "TEST_START") /\ cState' = Set(cState, c, "TEST_START")
        /\ UNCHANGED <<cPc, cErr, cMade, cThread, cEnd, sEnd, c2s, backlog>>
    BY <1>3 DEF client_test_start
  <2>2. /\ cPc[c] = "select" /\ Alive(c) /\ s2c[c] # <<>> /\ s2c'[c] = Tail(s2c[c])
        /\ cState[c] = "CREATE_STREAMS"
    BY <2>1, ReadsInOrder
  <2>3. cState'[c] = "TEST_START"
    BY <2>1, <1>i, At
  <2>4. ClientInv(c)'
    BY <1>i, <2>1, <2>2, <2>3 DEF ClientInv, Alive, LiveStates, EndStates, Returned
  <2>5. /\ Place("TEST_START", "select") = Place("CREATE_STREAMS", "select") + 1
        /\ Wrote("TEST_START") = Wrote("CREATE_STREAMS")
        /\ "CREATE_STREAMS" \notin EndStates /\ 1 \in {0, 1}
    BY DEF Place, Wrote, EndStates
  <2>6. DownInv(c)'
    BY <1>s, <2>1, <2>2, <2>3, <2>5, DownStep
  <2>7. UpInv(c)'
    <3>1. SendersStopped(c) => SendersStopped(c)'
      BY <2>1 DEF SendersStopped
    <3> QED
      BY <1>s, <2>1, <2>2, <2>3, <2>5, <3>1, UpKeep
  <2>8. Served(c)' => Served(c)
    BY <2>1, ReaderServed
  <2> QED
    BY <1>s, <2>1, <2>4, <2>6, <2>7, <2>8, QuietClientPart
<1>4. CASE client_test_running(c)
  <2>1. /\ ClientReads(c, "TEST_RUNNING") /\ cState' = Set(cState, c, "TEST_RUNNING")
        /\ UNCHANGED <<cMade, cEnd, sEnd, c2s, backlog>>
    BY <1>4 DEF client_test_running
  <2>2. /\ cPc[c] = "select" /\ Alive(c) /\ s2c[c] # <<>> /\ s2c'[c] = Tail(s2c[c])
        /\ cState[c] = "TEST_START"
    BY <2>1, ReadsInOrder
  <2>3. cState'[c] = "TEST_RUNNING"
    BY <2>1, <1>i, At
  <2>4. \/ cPc'[c] = "tail" /\ cErr'[c] = cErr[c]
        \/ cPc'[c] = "fail" /\ cErr'[c] = "IEPTHREADCREATE"
    <3>1. \/ cPc' = Set(cPc, c, "tail") /\ UNCHANGED cErr
          \/ ClientFails(c, "IEPTHREADCREATE")
      BY <1>4 DEF client_test_running
    <3> QED
      BY <1>i, <3>1, At, FailsAt
  <2>5. ClientInv(c)'
    BY <1>i, <2>1, <2>2, <2>3, <2>4 DEF ClientInv, Alive, LiveStates, EndStates, Returned
  <2>6. /\ Place("TEST_RUNNING", "tail") = Place("TEST_START", "select") + 1
        /\ Wrote("TEST_RUNNING") = Wrote("TEST_START")
        /\ "TEST_START" \notin EndStates /\ 1 \in {0, 1}
    BY DEF Place, Wrote, EndStates
  <2>7. Alive(c)' => cPc'[c] = "tail"
    BY <2>4 DEF Alive
  <2>8. DownInv(c)'
    BY <1>s, <2>1, <2>2, <2>3, <2>6, <2>7, DownStep
  <2>9. ~Closing(c)
    BY <2>2, StartsInTime
  <2>10. UpInv(c)'
    BY <1>s, <2>1, <2>2, <2>3, <2>6, <2>7, <2>9, UpKeep
  <2>11. Served(c)' => Served(c)
    BY <2>1, ReaderServed
  <2> QED
    BY <1>s, <2>1, <2>5, <2>8, <2>10, <2>11, QuietClientPart
<1>5. CASE client_exchange_results(c)
  <2>1. /\ ClientReads(c, "EXCHANGE_RESULTS")
        /\ cState' = Set(cState, c, "EXCHANGE_RESULTS")
        /\ UNCHANGED <<cMade, cThread, cEnd, sEnd, backlog>>
    BY <1>5 DEF client_exchange_results
  <2>2. /\ cPc[c] = "select" /\ Alive(c) /\ s2c[c] # <<>> /\ s2c'[c] = Tail(s2c[c])
        /\ sEnd[c] \in {"open", "closed"} /\ cState[c] = "TEST_END"
    BY <2>1, ReadsInOrder
  <2>3. cState'[c] = "EXCHANGE_RESULTS"
    BY <2>1, <1>i, At
  <2>4. \/ /\ cPc'[c] = "results" /\ cErr'[c] = cErr[c]
           /\ sEnd[c] = "open" => c2s'[c] = Append(c2s[c], "results")
        \/ /\ cPc'[c] = "fail" /\ cErr'[c] = "IESENDRESULTS" /\ c2s'[c] = c2s[c]
    <3>1. \/ /\ cPc' = Set(cPc, c, "results") /\ UNCHANGED cErr
             /\ ClientWrites(c, <<"results">>)
          \/ ClientFails(c, "IESENDRESULTS") /\ UNCHANGED c2s
      BY <1>5 DEF client_exchange_results
    <3> QED
      BY <1>i, <2>2, <3>1, At, WritesAt, FailsAt
  <2>5. ClientInv(c)'
    <3>1. SendersStopped(c) /\ (SendersStopped(c) => SendersStopped(c)')
      BY <1>i, <2>1, <2>2 DEF ClientInv, EndStates, SendersStopped
    <3> QED
      BY <1>i, <2>1, <2>2, <2>3, <2>4, <3>1 DEF ClientInv, Alive, LiveStates, EndStates, Returned
  <2>6. Alive(c)' => cPc'[c] = "results"
    BY <2>4 DEF Alive
  <2>7. /\ Place("EXCHANGE_RESULTS", "results") = Place("TEST_END", "select") + 1
        /\ Wrote("EXCHANGE_RESULTS") = Wrote("TEST_END") + 1
        /\ Up["results"] = Wrote("TEST_END") + 1
        /\ "EXCHANGE_RESULTS" \in EndStates /\ 1 \in {0, 1}
    BY DEF Place, Wrote, Up, EndStates
  <2>8. DownInv(c)'
    BY <1>s, <2>1, <2>2, <2>3, <2>6, <2>7, DownStep
  <2>9. UpInv(c)'
    <3>1. CASE cPc'[c] = "fail"
      <4>1. ~Alive(c)' /\ c2s'[c] = c2s[c] /\ (SendersStopped(c) => SendersStopped(c)')
        BY <2>1, <2>4, <3>1 DEF Alive, SendersStopped
      <4> QED
        BY <1>s, <2>1, <4>1, UpKeep
    <3>2. CASE cPc'[c] = "results"
      <4>1. /\ Alive(c)' /\ (SendersStopped(c) => SendersStopped(c)')
            /\ sEnd[c] = "open" => c2s'[c] = Append(c2s[c], "results")
        BY <2>1, <2>2, <2>4, <3>2 DEF Alive, SendersStopped
      <4> QED
        BY <1>s, <2>1, <2>2, <2>3, <2>7, <4>1, UpWrite
    <3> QED
      BY <2>4, <3>1, <3>2
  <2>10. Served(c)' => Served(c)
    BY <2>1, ReaderServed
  <2> QED
    BY <1>s, <2>1, <2>5, <2>8, <2>9, <2>10, QuietClientPart
<1> QED
  BY <1>1, <1>2, <1>3, <1>4, <1>5

\* A client that leaves its loop with an error.
LEMMA ClientGivesUp ==
  ASSUME ControlInv, NEW c \in Clients, Moves(c),
         UNCHANGED <<cMade, cThread, cEnd, sEnd, c2s, backlog>>,
         cPc'[c] = "fail", cErr'[c] # "IEMESSAGE",
         s2c'[c] = s2c[c] \/ (s2c[c] # <<>> /\ s2c'[c] = Tail(s2c[c]))
  PROVE  ControlInv'
<1>1. ~Alive(c)' /\ UNCHANGED serverVars
  BY DEF Alive, Moves
<1>2. ClientInv(c)'
  BY <1>1 DEF ControlInv, ClientInv, Returned
<1>3. /\ DownInv(c)'
      /\ Has(Down, s2c'[c], 0 .. 7) => Has(Down, s2c[c], 0 .. 7)
  <2>1. 0 \in {0, 1} /\ 1 \in {0, 1}
    OBVIOUS
  <2> QED
    BY <1>1, <2>1, DownStep
<1>4. UpInv(c)'
  <2>1. SendersStopped(c) => SendersStopped(c)'
    BY DEF SendersStopped
  <2> QED
    BY <1>1, <2>1, UpKeep
<1>5. Served(c)' => Served(c)
  BY <1>1, <1>3 DEF Served, serverVars
<1> QED
  BY <1>2, <1>3, <1>4, <1>5, QuietClientPart

\* A step that moves neither the loop of the client nor its messages.
LEMMA ClientStays ==
  ASSUME ControlInv, NEW c \in Clients, Moves(c),
         UNCHANGED <<cPc, cState, cMade, cEnd, sEnd, c2s, s2c, backlog>>,
         cErr'[c] # "IEMESSAGE",
         \A i \in Streams : cThread[c][i] # "running" => cThread'[c][i] # "running"
  PROVE  ControlInv'
<1>1. UNCHANGED serverVars /\ (Alive(c)' <=> Alive(c)) /\ UNCHANGED <<sCtrl, sState>>
  BY DEF Alive, Moves, serverVars
<1>2. /\ SendersStopped(c) => SendersStopped(c)'
      /\ AllStopped(c) => AllStopped(c)'
  BY DEF SendersStopped, AllStopped
<1>3. ClientInv(c)'
  BY <1>1, <1>2 DEF ControlInv, ClientInv
<1>4. Place(cState[c], cPc[c]) + 0 = Place(cState[c], cPc[c]) /\ 0 \in {0, 1}
  <2>1. Place(cState[c], cPc[c]) \in Int
    BY DEF Place
  <2> QED
    BY <2>1
<1>5. DownInv(c)'
  BY <1>1, <1>4, DownStep
<1>6. UpInv(c)'
  BY <1>1, <1>2, UpKeep
<1>7. Served(c)' => Served(c)
  BY <1>1 DEF Served
<1> QED
  BY <1>3, <1>5, <1>6, <1>7, QuietClientPart

\* A client that closes its end and says goodbye if it can.
LEMMA ClientLeaves ==
  ASSUME ControlInv, NEW c \in Clients, Moves(c), UNCHANGED <<cMade, sEnd, backlog>>,
         cPc'[c] \in {"join", "failed"},
         cErr'[c] # "IEMESSAGE",
         cEnd[c] = "none" => cEnd'[c] = "none",
         cPc'[c] = "join" => SendersStopped(c)' /\ sState \in FinalStates,
         cPc'[c] = "failed" => AllStopped(c)',
         SendersStopped(c) => SendersStopped(c)',
         s2c'[c] = s2c[c] \/ (s2c[c] # <<>> /\ s2c'[c] = Tail(s2c[c])),
         NEW m \in {"IPERF_DONE", "CLIENT_TERMINATE"},
         c2s'[c] \in {c2s[c], <<>>, Append(c2s[c], m)},
         cEnd[c] # "open" => c2s'[c] \in {c2s[c], <<>>}
  PROVE  ControlInv'
<1>1. ~Alive(c)' /\ UNCHANGED serverVars /\ UNCHANGED <<sState, sCtrl>>
  BY DEF Alive, Moves, serverVars
<1>2. ClientInv(c)'
  BY <1>1 DEF ControlInv, ClientInv, Returned
<1>3. /\ DownInv(c)'
      /\ Has(Down, s2c'[c], 0 .. 7) => Has(Down, s2c[c], 0 .. 7)
  <2>1. 0 \in {0, 1} /\ 1 \in {0, 1}
    OBVIOUS
  <2> QED
    BY <1>1, <2>1, DownStep
<1>4. UpInv(c)'
  <2>1. sEnd[c] = "none" => cEnd[c] # "open"
    BY DEF ControlInv, ClientInv
  <2> QED
    BY <1>1, <2>1, UpLeave
<1>5. Served(c)' => Served(c)
  BY <1>1, <1>3 DEF Served
<1> QED
  BY <1>2, <1>3, <1>4, <1>5, QuietClientPart

\* A control connection joins the accept queue.
LEMMA ConnectKeeps ==
  ASSUME ControlInv, NEW c \in Clients, iperf_connect(c)
  PROVE  ControlInv'
<1>1. TypeOK /\ ClientInv(c) /\ DownInv(c) /\ UpInv(c) /\ BacklogInv
  BY DEF ControlInv
<1>2. Moves(c) /\ UNCHANGED serverVars
  BY ClientMoves DEF ClientStep, ClientLoop, Moves
<1>3. CASE ClientFails(c, "IECONNECT") /\ UNCHANGED <<cEnd, sEnd, c2s, backlog>>
  <2>1. UNCHANGED <<cMade, cThread, s2c>>
    BY DEF iperf_connect
  <2>2. cPc'[c] = "fail" /\ cErr'[c] = "IECONNECT"
    BY <1>1, <1>3, FailsAt
  <2> QED
    BY <1>2, <1>3, <2>1, <2>2, ClientGivesUp
<1>4. CASE /\ cPc' = Set(cPc, c, "select") /\ cEnd' = Set(cEnd, c, "open")
           /\ sEnd' = Set(sEnd, c, "queued") /\ c2s' = Set(c2s, c, <<"cookie">>)
           /\ backlog' = Append(backlog, <<c, "ctrl">>) /\ UNCHANGED cErr
  <2>1. cPc[c] = "connect" /\ UNCHANGED <<cState, cMade, cThread, s2c>>
    BY DEF iperf_connect
  <2>2. /\ cPc'[c] = "select" /\ cEnd'[c] = "open" /\ sEnd'[c] = "queued"
        /\ c2s'[c] = <<"cookie">>
    BY <1>1, <1>4, At
  <2>3. /\ sEnd[c] = "none" /\ cState[c] = "NONE" /\ cMade[c] = 0 /\ s2c[c] = <<>>
        /\ sCtrl # c
    BY <1>1, <2>1 DEF ClientInv, DownInv
  <2>4. UNCHANGED <<sCtrl, sPc, sState>> /\ ~Talks(c)'
    BY <1>2, <2>3 DEF serverVars, Talks
  <2>5. ClientInv(c)'
    BY <1>1, <1>4, <2>1, <2>2, <2>3 DEF ClientInv, Alive, LiveStates, EndStates, Returned
  <2>6. DownInv(c)'
    <3>1. /\ Follow(Down, <<>>, Place(cState'[c], cPc'[c]))
          /\ ~Has(Down, <<>>, 5 .. 7) /\ ~Has(Down, <<>>, {7})
      BY EmptyQueue
    <3>2. s2c'[c] = <<>>
      BY <2>1, <2>3
    <3>3. cState'[c] = "NONE"
      BY <2>1, <2>3
    <3> QED
      BY <2>2, <2>3, <2>4, <3>1, <3>2, <3>3 DEF DownInv
  <2>7. UpInv(c)'
    <3>1. Read(c)' = 0
      BY <2>2 DEF Read
    <3>2. Wrote(cState'[c]) = 1
      BY <2>1, <2>3 DEF Wrote
    <3>3. /\ Len(<<"cookie">>) = 1 /\ Follow(Up, <<"cookie">>, 0)
          /\ ~Has(Up, <<"cookie">>, {3})
      <4>1. Len(<<"cookie">>) = 1 /\ <<"cookie">>[1] = "cookie" /\ Up["cookie"] = 1
        BY DEF Up, Messages
      <4> QED
        BY <4>1 DEF Follow, Has, Last
    <3> QED
      BY <2>2, <2>3, <2>4, <3>1, <3>2, <3>3 DEF UpInv
  <2>8. Served(c)' => Served(c)
    <3>1. ~Has(Down, <<>>, 0 .. 7)
      BY EmptyQueue
    <3> QED
      BY <2>1, <2>3, <2>4, <3>1 DEF Served
  <2>9. backlog \in Seq(Clients \X {"ctrl", "stream"}) /\ <<c, "ctrl">> \in Clients \X {"ctrl", "stream"}
    BY <1>1 DEF TypeOK
  <2>10. /\ backlog' \in Seq(Clients \X {"ctrl", "stream"})
         /\ Len(backlog) \in Nat /\ Len(backlog') = Len(backlog) + 1
         /\ \A n \in 1 .. Len(backlog) : backlog'[n] = backlog[n]
         /\ backlog'[Len(backlog) + 1] = <<c, "ctrl">>
    BY <1>4, <2>9, AppendProperties, LenProperties
  <2>11. \A n \in 1 .. Len(backlog') : n \in 1 .. Len(backlog) \/ n = Len(backlog) + 1
    BY <2>10
  <2>12. \A n \in 1 .. Len(backlog) : backlog[n] \in Clients \X {"ctrl", "stream"}
    BY <2>9, ElementOfSeq
  <2>13. \A d \in Clients : d # c => sEnd'[d] = sEnd[d]
    BY <1>1, <1>2, MovesFrame DEF Same
  <2>14. \A n \in 1 .. Len(backlog) : backlog[n][2] = "ctrl" => backlog[n][1] # c
    BY <1>1, <2>3 DEF BacklogInv
  <2>15. BacklogInv'
    <3>1. \A n \in 1 .. Len(backlog') :
            backlog'[n][2] = "ctrl" => sEnd'[backlog'[n][1]] = "queued"
      BY <1>1, <2>2, <2>10, <2>11, <2>12, <2>13, <2>14 DEF BacklogInv
    <3>2. \A n, k \in 1 .. Len(backlog') :
            backlog'[n][2] = "ctrl" /\ backlog'[k] = backlog'[n] => k = n
      <4>1. \A k \in 1 .. Len(backlog) : backlog[k] # <<c, "ctrl">>
        BY <2>14
      <4>2. \A n, k \in 1 .. Len(backlog) :
              backlog[n][2] = "ctrl" /\ backlog[k] = backlog[n] => k = n
        BY <1>1 DEF BacklogInv
      <4> QED
        BY <2>10, <2>11, <4>1, <4>2
    <3>3. Idle' => \A n \in 1 .. Len(backlog') : backlog'[n][2] = "ctrl"
      <4>1. Idle' => Idle
        BY <1>2 DEF Idle, serverVars
      <4> QED
        BY <1>1, <2>10, <2>11, <4>1 DEF BacklogInv
    <3> QED
      BY <3>1, <3>2, <3>3 DEF BacklogInv
  <2> QED
    BY <1>2, <2>5, <2>6, <2>7, <2>8, <2>10, <2>15, ClientPart
<1> QED
  BY <1>3, <1>4 DEF iperf_connect

\* A stream connection joins the accept queue.
LEMMA CreateStreamsKeeps ==
  ASSUME ControlInv, NEW c \in Clients, iperf_create_streams(c)
  PROVE  ControlInv'
<1>1. TypeOK /\ ClientInv(c) /\ DownInv(c) /\ UpInv(c) /\ BacklogInv
  BY DEF ControlInv
<1>2. Moves(c) /\ UNCHANGED serverVars
  BY ClientMoves DEF ClientStep, ClientLoop, Moves
<1>3. CASE ClientFails(c, "IESTREAMCONNECT") /\ UNCHANGED <<backlog, cMade>>
  <2>1. UNCHANGED <<cThread, cEnd, sEnd, c2s, s2c>>
    BY DEF iperf_create_streams
  <2>2. cPc'[c] = "fail" /\ cErr'[c] = "IESTREAMCONNECT"
    BY <1>1, <1>3, FailsAt
  <2> QED
    BY <1>2, <1>3, <2>1, <2>2, ClientGivesUp
<1>4. CASE /\ backlog' = Append(backlog, <<c, "stream">>)
           /\ cMade' = Set(cMade, c, cMade[c] + 1)
           /\ cPc' = IF cMade[c] + 1 = AllStreams THEN Set(cPc, c, "select") ELSE cPc
           /\ UNCHANGED cErr
  <2>1. cPc[c] = "streams" /\ UNCHANGED <<cState, cThread, cEnd, sEnd, c2s, s2c>>
    BY DEF iperf_create_streams
  <2>2. /\ cMade'[c] = cMade[c] + 1
        /\ cPc'[c] = IF cMade[c] + 1 = AllStreams THEN "select" ELSE "streams"
    BY <1>1, <1>4, <2>1, At
  <2>3. /\ cState[c] = "CREATE_STREAMS" /\ cMade[c] < AllStreams /\ cMade[c] \in Nat
        /\ AllStreams \in Nat /\ Alive(c) /\ Alive(c)'
    BY <1>1, <2>1, <2>2, Counts DEF ClientInv, TypeOK, Alive
  <2>4. ClientInv(c)'
    <3>1. cPc'[c] = "streams" => cMade'[c] < AllStreams
      BY <2>2, <2>3
    <3> QED
      BY <1>1, <1>4, <2>1, <2>2, <2>3, <3>1 DEF ClientInv, Alive, EndStates, Returned
  <2>5. DownInv(c)'
    <3>1. /\ Place(cState'[c], cPc'[c]) = Place(cState[c], cPc[c]) + 0
          /\ 0 \in {0, 1}
      BY <2>1, <2>3 DEF Place
    <3> QED
      BY <1>2, <2>1, <2>3, <3>1, DownStep
  <2>6. UpInv(c)'
    <3>1. SendersStopped(c) => SendersStopped(c)'
      BY <2>1 DEF SendersStopped
    <3> QED
      BY <1>2, <2>1, <2>3, <3>1, UpKeep
  <2>7. Served(c)
    BY <2>3 DEF Served
  <2>8. ~Idle /\ ~Idle'
    BY <1>2, <2>7 DEF ControlInv, ServedInv, Idle, serverVars
  <2>9. backlog \in Seq(Clients \X {"ctrl", "stream"}) /\ <<c, "stream">> \in Clients \X {"ctrl", "stream"}
    BY <1>1 DEF TypeOK
  <2>10. /\ backlog' \in Seq(Clients \X {"ctrl", "stream"})
         /\ Len(backlog) \in Nat /\ Len(backlog') = Len(backlog) + 1
         /\ \A n \in 1 .. Len(backlog) : backlog'[n] = backlog[n]
         /\ backlog'[Len(backlog) + 1] = <<c, "stream">>
    BY <1>4, <2>9, AppendProperties, LenProperties
  <2>11. \A n \in 1 .. Len(backlog') : backlog'[n][2] = "ctrl" =>
           n \in 1 .. Len(backlog) /\ backlog'[n] = backlog[n]
    <3>1. \A n \in 1 .. Len(backlog') : n \in 1 .. Len(backlog) \/ n = Len(backlog) + 1
      BY <2>10
    <3> QED
      BY <2>10, <3>1
  <2>12. BacklogInv'
    <3>1. \A n \in 1 .. Len(backlog') :
            backlog'[n][2] = "ctrl" => sEnd'[backlog'[n][1]] = "queued"
      BY <1>1, <2>1, <2>11 DEF BacklogInv
    <3>2. \A n, k \in 1 .. Len(backlog') :
            backlog'[n][2] = "ctrl" /\ backlog'[k] = backlog'[n] => k = n
      BY <1>1, <2>11 DEF BacklogInv
    <3> QED
      BY <2>8, <3>1, <3>2 DEF BacklogInv
  <2> QED
    BY <1>2, <2>4, <2>5, <2>6, <2>7, <2>10, <2>12, ClientPart
<1> QED
  BY <1>3, <1>4 DEF iperf_create_streams

\* A server that still talks to a client that runs runs itself.
LEMMA RunsTogether ==
  ASSUME ControlInv, NEW c \in Clients, Alive(c), cState[c] = "TEST_RUNNING", Talks(c)
  PROVE  sState = "TEST_RUNNING"
<1>1. /\ UpInv(c) /\ DownInv(c) /\ c2s[c] \in Seq(Messages) /\ s2c[c] \in Seq(Messages)
      /\ sState \in {"PARAM_EXCHANGE", "EXCHANGE_RESULTS", "CREATE_STREAMS",
                      "TEST_RUNNING", "DISPLAY_RESULTS"}
  BY ClientsAssumption DEF ControlInv, TypeOK, ServerInv, Talks
<1>2. Len(c2s[c]) \in Nat /\ Len(s2c[c]) \in Nat
  BY <1>1, LenProperties
<1>3. sEnd[c] = "open"
  BY <1>1 DEF DownInv, Talks
<1>4. Len(c2s[c]) = 2 - Got(sState)
  BY <1>1, <1>3 DEF UpInv, Read, Wrote
<1>5. Len(s2c[c]) = Sent(sState) - 4
  BY <1>1 DEF DownInv, Place
<1> QED
  BY <1>1, <1>2, <1>4, <1>5 DEF Got, Sent

\* The end of the test: the senders are joined before TEST_END is written.
LEMMA CheckDoneKeeps ==
  ASSUME ControlInv, NEW c \in Clients, client_check_done(c)
  PROVE  ControlInv'
<1>1. TypeOK /\ ClientInv(c) /\ DownInv(c) /\ UpInv(c)
  BY DEF ControlInv
<1>2. Moves(c) /\ UNCHANGED serverVars
  BY ClientMoves DEF ClientStep, ClientLoop, Moves
<1>3. UNCHANGED <<cMade, cEnd, sEnd, s2c, backlog>>
  BY DEF client_check_done
<1>4. cPc[c] \in {"tail", "select"} /\ cState[c] = "TEST_RUNNING" /\ Alive(c)
  BY <1>1 DEF client_check_done, ClientInv, Alive
<1>5. Served(c)
  BY <1>4 DEF Served
<1>6. /\ Place("TEST_RUNNING", "tail") + 0 = 4 /\ Place("TEST_RUNNING", "select") + 0 = 4
      /\ Place("TEST_RUNNING", "select") = 4 /\ Place("TEST_END", "select") = 4
      /\ 0 \in {0, 1} /\ "TEST_RUNNING" \notin EndStates
  BY DEF Place, EndStates
<1>7. \/ cPc' = Set(cPc, c, "select") /\ UNCHANGED <<cState, cErr, cThread, c2s>>
      \/ /\ cThread' = Set(cThread, c, Joined(cThread[c], {i \in Streams : ClientSends(i)}))
         /\ cState' = Set(cState, c, "TEST_END")
         /\ \/ /\ ClientWrites(c, <<"TEST_END">>)
               /\ cPc' = Set(cPc, c, "select") /\ UNCHANGED cErr
            \/ ClientFails(c, "IESENDMESSAGE") /\ UNCHANGED c2s
  BY DEF client_check_done
<1>8. CASE cPc' = Set(cPc, c, "select") /\ UNCHANGED <<cState, cErr, cThread, c2s>>
  <2>1. cPc'[c] = "select" /\ Alive(c)'
    BY <1>1, <1>8, At DEF Alive
  <2>2. ClientInv(c)'
    BY <1>1, <1>3, <1>4, <1>8, <2>1 DEF ClientInv, Alive, EndStates, Returned
  <2>3. DownInv(c)'
    BY <1>2, <1>3, <1>4, <1>6, <1>8, <2>1, DownStep
  <2>4. UpInv(c)'
    <3>1. SendersStopped(c) => SendersStopped(c)'
      BY <1>8 DEF SendersStopped
    <3> QED
      BY <1>2, <1>3, <1>4, <1>8, <2>1, <3>1, UpKeep
  <2> QED
    BY <1>2, <1>3, <1>5, <2>2, <2>3, <2>4, QuietClientPart
<1>9. CASE /\ cThread' = Set(cThread, c, Joined(cThread[c], {i \in Streams : ClientSends(i)}))
           /\ cState' = Set(cState, c, "TEST_END")
           /\ \/ /\ ClientWrites(c, <<"TEST_END">>)
                 /\ cPc' = Set(cPc, c, "select") /\ UNCHANGED cErr
              \/ ClientFails(c, "IESENDMESSAGE") /\ UNCHANGED c2s
  <2>1. /\ cThread'[c] = Joined(cThread[c], {i \in Streams : ClientSends(i)})
        /\ cState'[c] = "TEST_END"
    BY <1>1, <1>9, At
  <2>2. SendersStopped(c)'
    <3>1. cThread[c] \in [Streams -> ThreadStates]
      BY <1>1 DEF TypeOK
    <3> QED
      BY <2>1, <3>1, JoinedThreads DEF SendersStopped
  <2>3. sEnd[c] \in {"open", "closed"}
    BY <1>1, <1>4 DEF TypeOK, ClientInv, DownInv
  <2>4. \/ /\ cPc'[c] = "select" /\ cErr'[c] = cErr[c]
           /\ sEnd[c] = "open" => c2s'[c] = Append(c2s[c], "TEST_END")
        \/ cPc'[c] = "fail" /\ cErr'[c] = "IESENDMESSAGE" /\ c2s'[c] = c2s[c]
    BY <1>1, <1>9, <2>3, Names, At, WritesAt, FailsAt
  <2>5. Alive(c)' => cPc'[c] = "select"
    BY <2>4 DEF Alive
  <2>6. ClientInv(c)'
    BY <1>1, <1>3, <1>4, <2>1, <2>2, <2>4 DEF ClientInv, Alive, LiveStates, EndStates, Returned
  <2>7. DownInv(c)'
    BY <1>2, <1>3, <1>4, <1>6, <2>1, <2>5, DownStep
  <2>8. UpInv(c)'
    <3>1. CASE cPc'[c] = "fail"
      <4>1. ~Alive(c)' /\ c2s'[c] = c2s[c]
        BY <2>4, <3>1 DEF Alive
      <4> QED
        BY <1>2, <1>3, <2>2, <4>1, UpKeep
    <3>2. CASE cPc'[c] = "select"
      <4>1. /\ Alive(c)'
            /\ sEnd[c] = "open" => c2s'[c] = Append(c2s[c], "TEST_END")
        BY <2>4, <3>2 DEF Alive
      <4>2. Wrote("TEST_RUNNING") = 2 /\ Wrote("TEST_END") = 3 /\ Up["TEST_END"] = 3
        BY DEF Wrote, Up, Messages, States, Positive
      <4>3. Talks(c) => sState = "TEST_RUNNING"
        BY <1>4, RunsTogether
      <4> QED
        BY <1>2, <1>3, <1>4, <1>6, <2>1, <2>2, <2>3, <4>1, <4>2, <4>3, UpWrite
    <3> QED
      BY <2>4, <3>1, <3>2
  <2> QED
    BY <1>2, <1>3, <1>5, <2>6, <2>7, <2>8, QuietClientPart
<1> QED
  BY <1>7, <1>8, <1>9

\* iperf_client_end, as the queue to the server sees it.
LEMMA ClientEndAt ==
  ASSUME TypeOK, NEW c \in Clients, NEW state, iperf_client_end(c, state)
  PROVE  /\ c2s'[c] \in {c2s[c], <<>>, Append(c2s[c], "IPERF_DONE")}
         /\ cEnd[c] # "open" => c2s'[c] \in {c2s[c], <<>>}
         /\ cEnd[c] = "none" => cEnd'[c] = "none"
<1>1. PICK out : /\ c2s' = Set(c2s, c, out)
                 /\ out \in {c2s[c], <<>>, Append(c2s[c], "IPERF_DONE")}
                 /\ cEnd[c] # "open" => out \in {c2s[c], <<>>}
  BY DEF iperf_client_end, AfterClose
<1>2. c2s'[c] = out
  BY <1>1, At
<1>3. cEnd[c] = "none" => cEnd'[c] = "none"
  BY At DEF iperf_client_end
<1> QED
  BY <1>1, <1>2, <1>3

\* A client that waits for the server's results.
LEMMA GetResultsKeeps ==
  ASSUME ControlInv, NEW c \in Clients, client_get_results(c)
  PROVE  ControlInv'
<1>1. TypeOK /\ ClientInv(c) /\ DownInv(c) /\ UpInv(c)
  BY DEF ControlInv
<1>2. Moves(c) /\ UNCHANGED serverVars
  BY ClientMoves DEF ClientStep, ClientLoop, Moves
<1>3. UNCHANGED <<cState, cMade, cThread, cEnd, sEnd, c2s, backlog>>
  BY DEF client_get_results
<1>4. cPc[c] = "results" /\ Alive(c) /\ cState[c] = "EXCHANGE_RESULTS"
  BY <1>1 DEF client_get_results, ClientInv, Alive
<1>5. \/ /\ s2c[c] # <<>> /\ s2c' = Set(s2c, c, Tail(s2c[c]))
         /\ cPc' = Set(cPc, c, "select") /\ UNCHANGED cErr
      \/ /\ ClientFails(c, "IERECVRESULTS")
         /\ s2c' = s2c \/ (s2c[c] # <<>> /\ s2c' = Set(s2c, c, Tail(s2c[c])))
  BY DEF client_get_results
<1>6. CASE /\ s2c[c] # <<>> /\ s2c' = Set(s2c, c, Tail(s2c[c]))
           /\ cPc' = Set(cPc, c, "select") /\ UNCHANGED cErr
  <2>1. cPc'[c] = "select" /\ s2c'[c] = Tail(s2c[c]) /\ Alive(c)'
    BY <1>1, <1>6, At DEF Alive
  <2>2. /\ Place("EXCHANGE_RESULTS", "select") = Place("EXCHANGE_RESULTS", "results") + 1
        /\ 1 \in {0, 1}
    BY DEF Place
  <2>3. SendersStopped(c) => SendersStopped(c)'
    BY <1>3 DEF SendersStopped
  <2>4. ClientInv(c)'
    BY <1>1, <1>3, <1>4, <1>6, <2>1, <2>3 DEF ClientInv, Alive, LiveStates, Returned
  <2>5. DownInv(c)'
    BY <1>2, <1>3, <1>4, <1>6, <2>1, <2>2, DownStep
  <2>6. UpInv(c)'
    BY <1>2, <1>3, <1>4, <2>1, <2>3, UpKeep
  <2>7. Served(c)
    BY <1>4 DEF Served
  <2> QED
    BY <1>2, <1>3, <2>4, <2>5, <2>6, <2>7, QuietClientPart
<1>7. CASE /\ ClientFails(c, "IERECVRESULTS")
           /\ s2c' = s2c \/ (s2c[c] # <<>> /\ s2c' = Set(s2c, c, Tail(s2c[c])))
  <2>1. /\ cPc'[c] = "fail" /\ cErr'[c] = "IERECVRESULTS"
        /\ s2c'[c] = s2c[c] \/ (s2c[c] # <<>> /\ s2c'[c] = Tail(s2c[c]))
    BY <1>1, <1>7, At, FailsAt
  <2> QED
    BY <1>2, <1>3, <2>1, ClientGivesUp
<1> QED
  BY <1>5, <1>6, <1>7

\* Every step of a client keeps the invariant.
LEMMA ClientStepKeeps ==
  ASSUME ControlInv, NEW c \in Clients, ClientStep(c)
  PROVE  ControlInv'
<1>1. TypeOK /\ ClientInv(c)
  BY DEF ControlInv
<1>2. Moves(c)
  BY ClientMoves
<1>3. cErr[c] # "IEMESSAGE" /\ cThread[c] \in [Streams -> ThreadStates]
  BY <1>1 DEF ClientInv, TypeOK
<1>4. UNCHANGED <<sState>>
  BY <1>2 DEF Moves, serverVars
<1>5. CASE client_rcv_timeout(c) \/ client_ctrl_closed(c)
  <2>1. UNCHANGED <<cMade, cThread, cEnd, sEnd, c2s, s2c, backlog>>
    BY <1>5 DEF client_rcv_timeout, client_ctrl_closed, netVars
  <2>2. \E e \in {"IENOMSG", "IECTRLCLOSE", "IERECVMESSAGE"} : ClientFails(c, e)
    BY <1>5 DEF client_rcv_timeout, client_ctrl_closed
  <2>3. cPc'[c] = "fail" /\ cErr'[c] # "IEMESSAGE"
    BY <1>1, <2>2, FailsAt
  <2> QED
    BY <1>2, <2>1, <2>3, ClientGivesUp
<1>6. CASE client_refused(c)
  <2>1. PICK m \in Messages \ {"PARAM_EXCHANGE", "CREATE_STREAMS", "TEST_START",
                               "TEST_RUNNING", "EXCHANGE_RESULTS", "DISPLAY_RESULTS"} :
          /\ ClientReads(c, m)
          /\ ClientFails(c, CASE m = "ACCESS_DENIED"    -> "IEACCESSDENIED"
                              [] m = "SERVER_ERROR"     -> "IESTREAMLISTEN"
                              [] m = "SERVER_TERMINATE" -> "IESERVERTERM"
                              [] OTHER                  -> "IEMESSAGE")
          /\ UNCHANGED <<cMade, cThread, cEnd, sEnd, c2s, backlog>>
    BY <1>6 DEF client_refused
  <2>2. /\ m \in {"ACCESS_DENIED", "SERVER_ERROR", "SERVER_TERMINATE"}
        /\ s2c[c] # <<>> /\ s2c'[c] = Tail(s2c[c])
    BY <2>1, ReadsInOrder
  <2>3. \E e \in {"IEACCESSDENIED", "IESTREAMLISTEN", "IESERVERTERM"} : ClientFails(c, e)
    BY <2>1, <2>2
  <2>4. cPc'[c] = "fail" /\ cErr'[c] # "IEMESSAGE"
    BY <1>1, <2>3, FailsAt
  <2> QED
    BY <1>2, <2>1, <2>2, <2>4, ClientGivesUp
<1>7. CASE client_display_results(c)
  <2>1. /\ ClientReads(c, "DISPLAY_RESULTS") /\ iperf_client_end(c, "DISPLAY_RESULTS")
        /\ cPc' = Set(cPc, c, "join")
        /\ UNCHANGED <<cErr, cMade, cThread, sEnd, backlog>>
    BY <1>7 DEF client_display_results
  <2>2. /\ Alive(c) /\ cState[c] = "EXCHANGE_RESULTS" /\ sState \in FinalStates
        /\ s2c[c] # <<>> /\ s2c'[c] = Tail(s2c[c])
    BY <2>1, ReadsInOrder
  <2>3. SendersStopped(c) /\ SendersStopped(c)'
    BY <1>1, <2>1, <2>2 DEF ClientInv, EndStates, SendersStopped
  <2>4. cPc'[c] = "join"
    BY <1>1, <2>1, At
  <2> QED
    BY <1>1, <1>2, <1>3, <2>1, <2>2, <2>3, <2>4, ClientEndAt, ClientLeaves
<1>8. CASE client_cleanup_and_fail(c)
  <2>1. /\ cThread' = Set(cThread, c, Joined(cThread[c], Streams))
        /\ iperf_client_end(c, cState[c]) /\ cPc' = Set(cPc, c, "failed")
        /\ UNCHANGED <<s2c, cErr, cMade, sEnd, backlog>>
    BY <1>8 DEF client_cleanup_and_fail
  <2>2. cPc'[c] = "failed" /\ cThread'[c] = Joined(cThread[c], Streams)
    BY <1>1, <2>1, At
  <2>3. AllStopped(c)' /\ SendersStopped(c)'
    BY <1>3, <2>2, JoinedThreads DEF AllStopped, SendersStopped
  <2> QED
    BY <1>1, <1>2, <1>3, <2>1, <2>2, <2>3, ClientEndAt, ClientLeaves
<1>9. CASE client_sigend(c)
  <2>1. PICK out : /\ c2s' = Set(c2s, c, out)
                   /\ out \in {c2s[c], <<>>, Append(c2s[c], "CLIENT_TERMINATE")}
    BY <1>9 DEF client_sigend, AfterClose
  <2>2. /\ cErr' = Set(cErr, c, "IECLIENTTERM") /\ cPc' = Set(cPc, c, "failed")
        /\ cEnd[c] = "open"
        /\ cThread' = Set(cThread, c, [i \in Streams |->
                        IF cThread[c][i] = "none" THEN "none" ELSE "exited"])
        /\ UNCHANGED <<cMade, sEnd, s2c, backlog>>
    BY <1>9 DEF client_sigend
  <2>3. /\ cErr'[c] = "IECLIENTTERM" /\ cPc'[c] = "failed" /\ c2s'[c] = out
        /\ cThread'[c] = [i \in Streams |-> IF cThread[c][i] = "none" THEN "none" ELSE "exited"]
    BY <1>1, <2>1, <2>2, At
  <2>4. AllStopped(c)' /\ SendersStopped(c)'
    BY <2>3 DEF AllStopped, SendersStopped
  <2> QED
    BY <1>2, <2>1, <2>2, <2>3, <2>4, ClientLeaves
<1>10. CASE client_join(c)
  <2>1. /\ cPc[c] = "join" /\ cPc' = Set(cPc, c, "finished")
        /\ cThread' = Set(cThread, c, Joined(cThread[c], {i \in Streams : ~ClientSends(i)}))
        /\ UNCHANGED <<cState, cErr, cMade, cEnd, sEnd, c2s, s2c, backlog>>
    BY <1>10 DEF client_join, netVars
  <2>2. /\ cPc'[c] = "finished"
        /\ cThread'[c] = Joined(cThread[c], {i \in Streams : ~ClientSends(i)})
    BY <1>1, <2>1, At
  <2>3. SendersStopped(c) /\ sState \in FinalStates
    BY <1>1, <2>1 DEF ClientInv
  <2>4. AllStopped(c)' /\ SendersStopped(c)'
    BY <1>3, <2>2, <2>3, JoinedThreads DEF AllStopped, SendersStopped
  <2>5. ~Alive(c)' /\ UNCHANGED serverVars /\ 0 \in {0, 1}
    BY <1>2, <2>2 DEF Alive, Moves
  <2>6. ClientInv(c)'
    BY <1>1, <1>4, <2>1, <2>2, <2>3, <2>4, <2>5 DEF ClientInv
  <2>7. DownInv(c)'
    BY <2>1, <2>5, DownStep
  <2>8. UpInv(c)'
    BY <2>1, <2>4, <2>5, UpKeep
  <2>9. Served(c)' => Served(c)
    BY <2>1, <2>5 DEF Served, serverVars
  <2> QED
    BY <1>2, <2>1, <2>6, <2>7, <2>8, <2>9, QuietClientPart
<1>11. CASE client_clock(c) \/ lose(c) \/ client_stopTest(c)
  <2>1. UNCHANGED <<cPc, cState, cErr, cMade, cThread, cEnd, sEnd, c2s, s2c, backlog>>
    BY <1>11 DEF client_clock, lose, client_stopTest, netVars, clientVars
  <2> QED
    BY <1>2, <1>3, <2>1, ClientStays
<1>12. CASE \E i \in Streams : client_worker(c, i)
  <2> PICK i \in Streams : client_worker(c, i)
    BY <1>12
  <2>1. /\ UNCHANGED <<cPc, cState, cMade, cEnd, sEnd, c2s, s2c, backlog>>
        /\ cThread' = [cThread EXCEPT ![c][i] = "exited"]
        /\ \/ UNCHANGED cErr
           \/ cErr' = Set(cErr, c, "IESTREAMWRITE")
           \/ cErr' = Set(cErr, c, "IESTREAMREAD")
    BY DEF client_worker, netVars
  <2>2. cErr'[c] # "IEMESSAGE"
    BY <1>1, <1>3, <2>1, At
  <2>3. \A k \in Streams : cThread[c][k] # "running" => cThread'[c][k] # "running"
    <3>1. cThread \in [Clients -> [Streams -> ThreadStates]]
      BY <1>1 DEF TypeOK
    <3> QED
      BY <2>1, <3>1
  <2> QED
    BY <1>2, <2>1, <2>2, <2>3, ClientStays
<1>13. CASE \/ client_param_exchange(c) \/ client_create_streams(c)
            \/ client_test_start(c) \/ client_test_running(c)
            \/ client_exchange_results(c)
  BY <1>13, ClientGoesOn
<1>14. CASE iperf_connect(c)
  BY <1>14, ConnectKeeps
<1>15. CASE iperf_create_streams(c)
  BY <1>15, CreateStreamsKeeps
<1>16. CASE client_check_done(c)
  BY <1>16, CheckDoneKeeps
<1>17. CASE client_get_results(c)
  BY <1>17, GetResultsKeeps
<1> QED
  BY <1>5, <1>6, <1>7, <1>8, <1>9, <1>10, <1>11, <1>12, <1>13, <1>14, <1>15, <1>16, <1>17
  DEF ClientStep, ClientLoop

-----------------------------------------------------------------------------
(* A step of the server.                                                   *)

\* The types of what the server keeps, and of the accept queue.
ServerTypes ==
  /\ sPc     \in ServerPcs
  /\ sState  \in States
  /\ sDone   \in BOOLEAN
  /\ sErr    \in Errors
  /\ sCtrl   \in Clients \cup {NoClient}
  /\ sRec    \in 0 .. streams_to_rec
  /\ sSend   \in 0 .. streams_to_send
  /\ sThread \in [Streams -> ThreadStates]
  /\ sFreed  \in BOOLEAN
  /\ sTimer  \in {"null", "set", "due"}
  /\ sShut   \in BOOLEAN
  /\ backlog \in Seq(Clients \X {"ctrl", "stream"})

\* A step of the server changes the connection of c only.
Turns(c) ==
  /\ UNCHANGED <<clientVars, lost>>
  /\ Touch(sEnd, sEnd', c, {"none", "queued", "open", "closed"})
  /\ Touch(c2s, c2s', c, Seq(Messages))
  /\ Touch(s2c, s2c', c, Seq(Messages))

\* Such a step keeps the types and the other connections.
LEMMA TurnsFrame ==
  ASSUME TypeOK, NEW c \in Clients, Turns(c), ServerTypes'
  PROVE  /\ TypeOK'
         /\ \A d \in Clients : d # c => /\ sEnd'[d] = sEnd[d]
                                        /\ c2s'[d] = c2s[d]
                                        /\ s2c'[d] = s2c[d]
<1>1. ClientTypes
  BY DEF ClientTypes, TypeOK
<1>2. UNCHANGED <<cPc, cState, cDone, cErr, cMade, cThread, cTimer, cEnd, lost>>
  BY DEF Turns, clientVars
<1>3. /\ sEnd' \in [Clients -> {"none", "queued", "open", "closed"}]
      /\ \A d \in Clients : d # c => sEnd'[d] = sEnd[d]
  <2>1. /\ sEnd \in [Clients -> {"none", "queued", "open", "closed"}]
        /\ Touch(sEnd, sEnd', c, {"none", "queued", "open", "closed"})
    BY <1>1 DEF ClientTypes, Turns
  <2> QED
    BY <2>1 DEF Touch, Set
<1>4. c2s' \in [Clients -> Seq(Messages)] /\ \A d \in Clients : d # c => c2s'[d] = c2s[d]
  <2>1. c2s \in [Clients -> Seq(Messages)] /\ Touch(c2s, c2s', c, Seq(Messages))
    BY <1>1 DEF ClientTypes, Turns
  <2> QED
    BY <2>1 DEF Touch, Set
<1>5. s2c' \in [Clients -> Seq(Messages)] /\ \A d \in Clients : d # c => s2c'[d] = s2c[d]
  <2>1. s2c \in [Clients -> Seq(Messages)] /\ Touch(s2c, s2c', c, Seq(Messages))
    BY <1>1 DEF ClientTypes, Turns
  <2> QED
    BY <2>1 DEF Touch, Set
<1>6. ClientTypes'
  BY <1>1, <1>2, <1>3, <1>4, <1>5 DEF ClientTypes
<1>7. TypeOK'
  BY <1>6, ServerTypes' DEF ClientTypes, ServerTypes, TypeOK
<1> QED
  BY <1>3, <1>4, <1>5, <1>7

\* Its effect on a client whose connection it does not touch.
LEMMA UntouchedByServer ==
  ASSUME ControlInv, NEW d \in Clients, UNCHANGED clientVars,
         sEnd'[d] = sEnd[d], c2s'[d] = c2s[d], s2c'[d] = s2c[d],
         sCtrl # d, sCtrl' # d,
         sState \in FinalStates => sState' \in FinalStates
  PROVE  /\ ClientInv(d)' /\ DownInv(d)' /\ UpInv(d)'
         /\ Served(d)' => Served(d)
<1>1. ClientInv(d) /\ DownInv(d) /\ UpInv(d)
  BY DEF ControlInv
<1>2. UNCHANGED <<cPc, cState, cErr, cMade, cThread, cEnd>>
  BY DEF clientVars
<1>3. /\ Alive(d)' <=> Alive(d)
      /\ SendersStopped(d)' <=> SendersStopped(d)
      /\ AllStopped(d)' <=> AllStopped(d)
      /\ ~Talks(d) /\ ~Talks(d)'
      /\ sEnd[d] = "queued" => Read(d)' = Read(d)
  BY <1>2 DEF Alive, SendersStopped, AllStopped, Talks, Read
<1>4. ClientInv(d)'
  BY <1>1, <1>2, <1>3 DEF ClientInv
<1>5. DownInv(d)'
  BY <1>1, <1>2, <1>3 DEF DownInv
<1>6. UpInv(d)'
  BY <1>1, <1>2, <1>3 DEF UpInv
<1>7. Served(d)' => Served(d)
  BY <1>2, <1>3 DEF Served
<1> QED
  BY <1>4, <1>5, <1>6, <1>7

\* The client that is served keeps its part of the invariant.
LEMMA ClientInvKept ==
  ASSUME ControlInv, NEW c \in Clients, UNCHANGED clientVars,
         sEnd[c] # "none" => sEnd'[c] # "none",
         sEnd[c] = "none" => sEnd'[c] = "none",
         sState \in FinalStates => sState' \in FinalStates
  PROVE  ClientInv(c)'
<1>1. ClientInv(c)
  BY DEF ControlInv
<1>2. UNCHANGED <<cPc, cState, cErr, cMade, cThread, cEnd>>
  BY DEF clientVars
<1>3. /\ Alive(c)' <=> Alive(c)
      /\ SendersStopped(c)' <=> SendersStopped(c)
      /\ AllStopped(c)' <=> AllStopped(c)
  BY <1>2 DEF Alive, SendersStopped, AllStopped
<1> QED
  BY <1>1, <1>2, <1>3 DEF ClientInv

\* It is enough to look at the client that is served.
LEMMA ServerPart ==
  ASSUME ControlInv, NEW c \in Clients, Turns(c), ServerTypes',
         sCtrl \in {c, NoClient}, sCtrl' \in {c, NoClient},
         sEnd[c] # "none" => sEnd'[c] # "none",
         sEnd[c] = "none" => sEnd'[c] = "none",
         sState \in FinalStates => sState' \in FinalStates,
         ServerInv', DownInv(c)', UpInv(c)', BacklogInv',
         ~Idle', Idle \/ Served(c)
  PROVE  ControlInv'
<1>1. TypeOK' /\ \A d \in Clients : d # c => /\ sEnd'[d] = sEnd[d]
                                             /\ c2s'[d] = c2s[d]
                                             /\ s2c'[d] = s2c[d]
  BY TurnsFrame DEF ControlInv
<1>2. UNCHANGED clientVars
  BY DEF Turns
<1>3. ASSUME NEW d \in Clients, d # c
      PROVE  ClientInv(d)' /\ DownInv(d)' /\ UpInv(d)' /\ (Served(d)' => Served(d))
  <2>1. sCtrl # d /\ sCtrl' # d
    BY <1>3, ClientsAssumption
  <2> QED
    BY <1>1, <1>2, <1>3, <2>1, UntouchedByServer
<1>4. ClientInv(c)'
  BY <1>2, ClientInvKept
<1>5. ServedInv'
  <2>1. \A d \in Clients : Served(d)' => d = c
    BY <1>3 DEF ControlInv, ServedInv
  <2> QED
    BY <2>1 DEF ServedInv
<1> QED
  BY <1>1, <1>3, <1>4, <1>5 DEF ControlInv

\* A place that has been passed is not in the queue.
LEMMA PastIt ==
  ASSUME NEW rank, NEW q, Follow(rank, q, 3)
  PROVE  ~Has(rank, q, {3})
<1>1. SUFFICES ASSUME NEW j \in 1 .. Len(q), rank[q[j]] = 3
               PROVE  FALSE
  BY DEF Has
<1>2. 3 \in {3 + j, Last}
  BY <1>1 DEF Follow
<1> QED
  BY <1>2 DEF Last

\* The server takes the next message of the client's script.
LEMMA UpTaken ==
  ASSUME ControlInv, NEW c \in Clients, UNCHANGED clientVars,
         Talks(c) \/ sEnd[c] = "queued", sEnd'[c] = "open",
         c2s[c] # <<>>, c2s'[c] = Tail(c2s[c]),
         Talks(c)' => Got(sState') = Read(c) + 1,
         sState' \in {"EXCHANGE_RESULTS", "DISPLAY_RESULTS"} =>
           SendersStopped(c) /\ (Alive(c) => cState[c] \in EndStates)
  PROVE  UpInv(c)'
<1>1. UpInv(c) /\ c2s[c] \in Seq(Messages)
  BY DEF ControlInv, TypeOK
<1>2. UNCHANGED <<cPc, cState, cThread>>
  BY DEF clientVars
<1>3. (Alive(c)' <=> Alive(c)) /\ (SendersStopped(c)' <=> SendersStopped(c))
  BY <1>2 DEF Alive, SendersStopped
<1>4. Read(c) \in Int /\ Read(c)' = Got(sState') /\ Wrote(cState[c]) \in Int
  BY DEF Read, Got, Wrote
<1>5. /\ Len(c2s'[c]) = Len(c2s[c]) - 1 /\ Len(c2s[c]) \in Nat \ {0}
      /\ Follow(Up, c2s[c], Read(c)) => Follow(Up, c2s'[c], Read(c) + 1)
      /\ \A R : Has(Up, c2s'[c], R) => Has(Up, c2s[c], R)
  <2>1. /\ Len(Tail(c2s[c])) = Len(c2s[c]) - 1 /\ Len(c2s[c]) \in Nat \ {0}
        /\ Follow(Up, c2s[c], Read(c)) => Follow(Up, Tail(c2s[c]), Read(c) + 1)
        /\ \A R : Has(Up, Tail(c2s[c]), R) => Has(Up, c2s[c], R)
    BY <1>1, <1>4, HeadOfQueue
  <2> QED
    BY <2>1
<1>6. Follow(Up, c2s[c], Read(c)) /\ (Alive(c) => Len(c2s[c]) = Wrote(cState[c]) - Read(c))
  BY <1>1 DEF UpInv
<1>7. Talks(c)' => Follow(Up, c2s'[c], Read(c)')
  BY <1>4, <1>5, <1>6
<1>8. Alive(c)' /\ Talks(c)' => Len(c2s'[c]) = Wrote(cState'[c]) - Read(c)'
  BY <1>2, <1>3, <1>4, <1>5, <1>6
<1>9. Talks(c)' /\ Has(Up, c2s'[c], {3}) => FALSE
  <2>1. SUFFICES ASSUME Talks(c)', Has(Up, c2s'[c], {3})
                 PROVE  FALSE
    OBVIOUS
  <2>2. Has(Up, c2s[c], {3})
    BY <1>5, <2>1
  <2>3. Talks(c) /\ sState = "TEST_RUNNING"
    BY <1>1, <2>2 DEF UpInv
  <2>4. sEnd[c] = "open"
    BY <2>3 DEF ControlInv, DownInv, Talks
  <2>5. Read(c) = 2
    BY <2>3, <2>4 DEF Read, Got
  <2>6. Follow(Up, c2s'[c], 3)
    BY <1>5, <1>6, <2>5
  <2> QED
    BY <2>1, <2>6, PastIt
<1> QED
  BY <1>2, <1>3, <1>7, <1>8, <1>9 DEF UpInv

\* The server takes nothing from the client.
LEMMA UpUntaken ==
  ASSUME ControlInv, NEW c \in Clients, UNCHANGED clientVars,
         sCtrl = c, sCtrl' = c, sEnd'[c] = sEnd[c], c2s'[c] = c2s[c],
         Talks(c)' => /\ Talks(c) /\ Got(sState') = Got(sState)
                      /\ sState = "TEST_RUNNING" => sState' = "TEST_RUNNING",
         sState' \in {"EXCHANGE_RESULTS", "DISPLAY_RESULTS"} => sState' = sState
  PROVE  UpInv(c)'
<1>1. UpInv(c) /\ sEnd[c] = "open"
  BY DEF ControlInv, DownInv
<1>2. UNCHANGED <<cPc, cState, cThread>>
  BY DEF clientVars
<1>3. (Alive(c)' <=> Alive(c)) /\ (SendersStopped(c)' <=> SendersStopped(c))
  BY <1>2 DEF Alive, SendersStopped
<1>4. Read(c) = Got(sState) /\ Read(c)' = Got(sState')
  BY <1>1 DEF Read
<1> QED
  BY <1>1, <1>2, <1>3, <1>4 DEF UpInv

\* The server stops listening to the client.
LEMMA UpGone ==
  ASSUME ControlInv, NEW c \in Clients, UNCHANGED clientVars,
         ~Talks(c)', sEnd'[c] \in {"open", "closed"},
         sCtrl' = c /\ sState' \in {"EXCHANGE_RESULTS", "DISPLAY_RESULTS"} =>
           SendersStopped(c) /\ (Alive(c) => cState[c] \in EndStates)
  PROVE  UpInv(c)'
<1>2. UNCHANGED <<cPc, cState, cThread>>
  BY DEF clientVars
<1>3. (Alive(c)' <=> Alive(c)) /\ (SendersStopped(c)' <=> SendersStopped(c))
  BY <1>2 DEF Alive, SendersStopped
<1> QED
  BY <1>2, <1>3 DEF UpInv

\* The server writes nothing to the client, or takes back what it has written.
LEMMA DownSilent ==
  ASSUME ControlInv, NEW c \in Clients, UNCHANGED clientVars,
         s2c'[c] \in {s2c[c], <<>>},
         sEnd'[c] = "open" <=> sCtrl' = c,
         sEnd'[c] \notin {"none", "queued"},
         Alive(c) /\ Talks(c)' => /\ Talks(c) /\ Sent(sState') = Sent(sState)
                                 /\ s2c'[c] = s2c[c],
         sState \in FinalStates => sState' \in FinalStates
  PROVE  /\ DownInv(c)'
         /\ Has(Down, s2c'[c], 0 .. 7) => Has(Down, s2c[c], 0 .. 7)
<1>1. DownInv(c)
  BY DEF ControlInv
<1>2. UNCHANGED <<cPc, cState>> /\ (Alive(c)' <=> Alive(c))
  BY DEF clientVars, Alive
<1>3. /\ Follow(Down, s2c[c], Place(cState[c], cPc[c])) =>
           Follow(Down, s2c'[c], Place(cState[c], cPc[c]))
      /\ \A R : Has(Down, s2c'[c], R) => Has(Down, s2c[c], R)
  BY EmptyQueue
<1> QED
  BY <1>1, <1>2, <1>3 DEF DownInv

\* The server writes to the client that it talks to or begins to talk to.
LEMMA DownWritten ==
  ASSUME ControlInv, NEW c \in Clients, UNCHANGED clientVars,
         sEnd'[c] = "open", sCtrl' = c,
         Alive(c) => /\ Follow(Down, s2c'[c], Place(cState[c], cPc[c]))
                     /\ Talks(c)' => Len(s2c'[c]) = Sent(sState') - Place(cState[c], cPc[c])
                     /\ Has(Down, s2c'[c], 5 .. 7) => cState[c] \in EndStates
                     /\ Has(Down, s2c'[c], {7}) => sState' \in FinalStates
  PROVE  DownInv(c)'
<1>1. UNCHANGED <<cPc, cState>> /\ (Alive(c)' <=> Alive(c))
  BY DEF clientVars, Alive
<1> QED
  BY <1>1 DEF DownInv

\* The accept queue when the server does not accept.
LEMMA BacklogLeft ==
  ASSUME ControlInv, UNCHANGED backlog, ~Idle' \/ Idle,
         \A d \in Clients : sEnd[d] = "queued" => sEnd'[d] = "queued"
  PROVE  BacklogInv'
<1>1. BacklogInv /\ backlog \in Seq(Clients \X {"ctrl", "stream"})
  BY DEF ControlInv, TypeOK
<1>2. \A n \in 1 .. Len(backlog) : backlog[n][1] \in Clients
  BY <1>1, ElementOfSeq
<1> QED
  BY <1>1, <1>2 DEF BacklogInv

\* The accept queue when the server takes its first connection.
LEMMA BacklogTaken ==
  ASSUME ControlInv, backlog # <<>>, backlog' = Tail(backlog), ~Idle',
         \A d \in Clients : d # Head(backlog)[1] \/ Head(backlog)[2] = "stream" =>
           sEnd'[d] = sEnd[d]
  PROVE  BacklogInv' /\ backlog' \in Seq(Clients \X {"ctrl", "stream"})
<1>1. BacklogInv /\ backlog \in Seq(Clients \X {"ctrl", "stream"})
  BY DEF ControlInv, TypeOK
<1>2. \A n \in 1 .. Len(backlog) : backlog[n] \in Clients \X {"ctrl", "stream"}
  BY <1>1, ElementOfSeq
<1>3. /\ backlog' \in Seq(Clients \X {"ctrl", "stream"})
      /\ Len(backlog) \in Nat \ {0} /\ Len(backlog') = Len(backlog) - 1
      /\ \A n \in 1 .. Len(backlog') : backlog'[n] = backlog[n + 1]
  BY <1>1, HeadTailProperties, EmptySeq
<1>4. Head(backlog) = backlog[1] /\ 1 \in 1 .. Len(backlog)
  BY <1>1, <1>3
<1>5. \A n \in 1 .. Len(backlog') : n + 1 \in 1 .. Len(backlog) /\ n + 1 # 1
  BY <1>3
<1>6. ASSUME NEW n \in 1 .. Len(backlog'), backlog'[n][2] = "ctrl"
      PROVE  sEnd'[backlog'[n][1]] = "queued"
  <2>1. backlog[n + 1][2] = "ctrl" /\ n + 1 \in 1 .. Len(backlog) /\ n + 1 # 1
    BY <1>3, <1>5, <1>6
  <2>2. sEnd[backlog[n + 1][1]] = "queued" /\ backlog[n + 1] # backlog[1]
    BY <1>1, <1>4, <2>1 DEF BacklogInv
  <2>3. \/ backlog[n + 1][1] # backlog[1][1]
        \/ backlog[1][2] = "stream"
    BY <1>2, <1>4, <2>1, <2>2
  <2>4. sEnd'[backlog[n + 1][1]] = sEnd[backlog[n + 1][1]]
    BY <1>2, <1>4, <2>1, <2>3
  <2> QED
    BY <1>3, <2>2, <2>4
<1>7. ASSUME NEW n \in 1 .. Len(backlog'), NEW k \in 1 .. Len(backlog'),
             backlog'[n][2] = "ctrl", backlog'[k] = backlog'[n]
      PROVE  k = n
  <2>1. /\ backlog[n + 1][2] = "ctrl" /\ backlog[k + 1] = backlog[n + 1]
        /\ n + 1 \in 1 .. Len(backlog) /\ k + 1 \in 1 .. Len(backlog)
    BY <1>3, <1>5, <1>7
  <2>2. k + 1 = n + 1
    BY <1>1, <2>1 DEF BacklogInv
  <2>3. k \in Int /\ n \in Int
    BY <1>3
  <2> QED
    BY <2>2, <2>3
<1> QED
  BY <1>3, <1>6, <1>7 DEF BacklogInv

\* iperf_set_send_state.
LEMMA SendStateAt ==
  ASSUME TypeOK, NEW c \in Clients, NEW ms, NEW st, NEW pc, SendState(c, ms, st, pc)
  PROVE  /\ sState' = st
         /\ \/ /\ sPc' = pc /\ sErr' = sErr
               /\ \/ s2c' = Set(s2c, c, s2c[c] \o ms) /\ s2c'[c] = s2c[c] \o ms
                  \/ s2c' = s2c /\ cEnd[c] = "closed"
            \/ sPc' = "abort" /\ sErr' = "IESENDMESSAGE" /\ s2c' = s2c /\ cEnd[c] = "closed"
<1>1. \A v : Set(s2c, c, v)[c] = v
  BY At
<1>2. s2c' = Set(s2c, c, s2c[c] \o ms) => s2c'[c] = s2c[c] \o ms
  BY <1>1, Zenon
<1> QED
  BY <1>2 DEF SendState, ServerWrites, ServerAborts

\* The server leaves its loop with the connection still open.
LEMMA ServerQuits ==
  ASSUME ControlInv, NEW c \in Clients, sCtrl = c,
         UNCHANGED <<clientVars, lost, sEnd, sCtrl, sThread, sFreed, sTimer>>,
         UNCHANGED backlog \/ (backlog # <<>> /\ backlog' = Tail(backlog)),
         sRec' \in 0 .. streams_to_rec, sSend' \in 0 .. streams_to_send,
         sPc' \in {"exit", "abort"},
         sState' \in States, sErr' \in Errors \ {"IEMESSAGE"},
         sDone' \in BOOLEAN, sShut' \in BOOLEAN,
         Touch(c2s, c2s', c, Seq(Messages)),
         s2c' = s2c \/ s2c' = Set(s2c, c, Append(s2c[c], "SERVER_ERROR")),
         sState \in FinalStates => sState' \in FinalStates,
         sState' \in {"EXCHANGE_RESULTS", "DISPLAY_RESULTS"} =>
           SendersStopped(c) /\ (Alive(c) => cState[c] \in EndStates)
  PROVE  ControlInv'
<1>1. TypeOK /\ ServerInv /\ DownInv(c) /\ s2c[c] \in Seq(Messages)
  BY DEF ControlInv, TypeOK
<1>2. sEnd[c] = "open" /\ ~Talks(c)' /\ ~Idle' /\ Served(c) /\ c # NoClient
  BY <1>1, ClientsAssumption DEF DownInv, Talks, Idle, Served
<1>3. Append(s2c[c], "SERVER_ERROR") \in Seq(Messages)
  BY <1>1, Names, Queues
<1>4. Turns(c)
  BY <1>3 DEF Turns, Touch
<1>5. ServerTypes' /\ BacklogInv'
  <2>1. BacklogInv' /\ backlog' \in Seq(Clients \X {"ctrl", "stream"})
    BY <1>1, <1>2, BacklogLeft, BacklogTaken DEF TypeOK
  <2> QED
    BY <1>1, <2>1 DEF TypeOK, ServerTypes, ServerPcs
<1>6. ServerInv'
  BY <1>1, <1>2 DEF ServerInv, Idle, AllAccepted
<1>7. DownInv(c)'
  <2>1. CASE s2c' = s2c
    BY <1>2, <2>1, DownSilent
  <2>2. CASE s2c' = Set(s2c, c, Append(s2c[c], "SERVER_ERROR"))
    <3>1. s2c'[c] = Append(s2c[c], "SERVER_ERROR")
      BY <1>1, <2>2, At
    <3>2. "SERVER_ERROR" \in Messages /\ Down["SERVER_ERROR"] = Last /\ Last = 8
      BY DEF Messages, States, Down, Last
    <3>3. Place(cState[c], cPc[c]) \in Int
      BY DEF Place
    <3>4. /\ Follow(Down, s2c[c], Place(cState[c], cPc[c])) =>
               Follow(Down, s2c'[c], Place(cState[c], cPc[c]))
          /\ \A R : Has(Down, s2c'[c], R) => Has(Down, s2c[c], R) \/ 8 \in R
      <4>1. /\ Follow(Down, s2c[c], Place(cState[c], cPc[c]))
                 /\ Down["SERVER_ERROR"] = Last =>
                 Follow(Down, Append(s2c[c], "SERVER_ERROR"), Place(cState[c], cPc[c]))
            /\ \A R : Has(Down, Append(s2c[c], "SERVER_ERROR"), R) =>
                        Has(Down, s2c[c], R) \/ Down["SERVER_ERROR"] \in R
        BY <1>1, <3>2, <3>3, AppendToQueue
      <4> QED
        BY <3>1, <3>2, <4>1
    <3>5. Alive(c) => /\ Follow(Down, s2c'[c], Place(cState[c], cPc[c]))
                      /\ Has(Down, s2c'[c], 5 .. 7) => cState[c] \in EndStates
                      /\ Has(Down, s2c'[c], {7}) => sState' \in FinalStates
      <4>1. 8 \notin 5 .. 7 /\ 8 \notin {7}
        OBVIOUS
      <4> QED
        BY <1>1, <3>4, <4>1 DEF DownInv
    <3> QED
      BY <1>2, <3>5, DownWritten
  <2> QED
    BY <2>1, <2>2
<1>8. UpInv(c)'
  BY <1>2, UpGone
<1> QED
  BY <1>2, <1>4, <1>5, <1>6, <1>7, <1>8, ServerPart

\* The first connection in the accept queue.
LEMMA FirstConnection ==
  ASSUME ControlInv, backlog # <<>>
  PROVE  /\ Head(backlog)[1] \in Clients
         /\ Head(backlog)[2] \in {"ctrl", "stream"}
         /\ Head(backlog)[2] = "ctrl" => sEnd[Head(backlog)[1]] = "queued"
         /\ Idle => Head(backlog)[2] = "ctrl"
<1>1. BacklogInv /\ backlog \in Seq(Clients \X {"ctrl", "stream"})
  BY DEF ControlInv, TypeOK
<1>2. Head(backlog) \in Clients \X {"ctrl", "stream"} /\ Len(backlog) \in Nat \ {0}
  BY <1>1, HeadTailProperties, EmptySeq
<1>3. Head(backlog) = backlog[1] /\ 1 \in 1 .. Len(backlog)
  BY <1>1, <1>2
<1> QED
  BY <1>1, <1>2, <1>3 DEF BacklogInv

\* What remains to be shown when the server takes its first client.
LEMMA AcceptPart ==
  ASSUME ControlInv, NEW c \in Clients, Idle, sCtrl = NoClient, sPc = "select",
         backlog # <<>>, c = Head(backlog)[1], backlog' = Tail(backlog),
         sCtrl' = c, sEnd' = Set(sEnd, c, "open"), Turns(c),
         UNCHANGED <<sDone, sRec, sSend, sThread, sFreed, sTimer, sShut>>,
         sState' \in {"NONE", "IPERF_START", "PARAM_EXCHANGE"},
         sPc' = "abort" \/ (sPc' = "params" /\ sState' = "PARAM_EXCHANGE"),
         sErr' \in Errors \ {"IEMESSAGE"},
         DownInv(c)', UpInv(c)'
  PROVE  ControlInv'
<1>1. TypeOK /\ ServerInv /\ sEnd[c] = "queued"
  BY FirstConnection DEF ControlInv
<1>2. ~Idle'
  BY DEF Idle
<1>3. \A d \in Clients : d # c => sEnd'[d] = sEnd[d]
  <2>1. sEnd \in [Clients -> {"none", "queued", "open", "closed"}]
    BY <1>1 DEF TypeOK
  <2> QED
    BY <2>1 DEF Set
<1>4. BacklogInv' /\ backlog' \in Seq(Clients \X {"ctrl", "stream"})
  <2>1. Head(backlog)[2] = "ctrl"
    BY FirstConnection
  <2> QED
    BY <1>2, <1>3, <2>1, BacklogTaken
<1>5. sEnd'[c] = "open" /\ c # NoClient
  BY <1>1, At, ClientsAssumption
<1>6. ~sFreed /\ sRec = 0 /\ sSend = 0 /\ sTimer = "null" /\ sState \notin FinalStates
  BY <1>1 DEF ServerInv, Idle, FinalStates
<1>7. ServerTypes'
  <2>1. sPc' \in ServerPcs /\ sState' \in States
    BY DEF ServerPcs, States, Positive
  <2> QED
    BY <1>1, <1>4, <2>1 DEF TypeOK, ServerTypes
<1>8. ServerInv'
  BY <1>2, <1>5, <1>6 DEF ServerInv, Idle
<1> QED
  BY <1>1, <1>2, <1>4, <1>5, <1>6, <1>7, <1>8, ServerPart

\* iperf_accept takes the first client.
LEMMA AcceptOf ==
  ASSUME ControlInv, NEW c \in Clients, backlog # <<>>, c = Head(backlog)[1], iperf_accept
  PROVE  ControlInv'
<1>1. TypeOK /\ ServerInv
  BY DEF ControlInv
<1>2. /\ sPc = "select" /\ sCtrl = NoClient /\ ~sFreed /\ Idle /\ backlog # <<>>
      /\ backlog' = Tail(backlog) /\ sCtrl' = c /\ sEnd' = Set(sEnd, c, "open")
      /\ UNCHANGED <<sDone, sRec, sSend, sThread, sFreed, sTimer, sShut>>
  BY DEF iperf_accept, Selecting, Idle
<1>3. \/ /\ c2s[c] # <<>> /\ c2s' = Set(c2s, c, Tail(c2s[c]))
         /\ SendState(c, <<"PARAM_EXCHANGE">>, "PARAM_EXCHANGE", "params")
      \/ sPc' = "abort" /\ sErr' = "IERECVCOOKIE" /\ UNCHANGED <<sState, c2s, s2c>>
  BY DEF iperf_accept, ServerAborts
<1>4. UNCHANGED clientVars /\ UNCHANGED lost
  BY DEF iperf_accept
<1>5. sEnd[c] = "queued"
  BY <1>2, FirstConnection
<1>6. /\ DownInv(c) /\ UpInv(c) /\ c2s[c] \in Seq(Messages) /\ s2c[c] = <<>>
      /\ Alive(c) => cState[c] = "NONE"
  BY <1>1, <1>5 DEF ControlInv, TypeOK, DownInv
<1>7. /\ Got("PARAM_EXCHANGE") = Read(c) + 1 /\ c # NoClient
      /\ sState \in {"NONE", "IPERF_START"}
  BY <1>1, <1>2, <1>5, ClientsAssumption DEF ServerInv, Read, Got
<1>8. sEnd'[c] = "open" /\ sCtrl' = c
  BY <1>1, <1>2, <1>5, At
<1>9. /\ c2s[c] # <<>> => Tail(c2s[c]) \in Seq(Messages)
      /\ Touch(sEnd, sEnd', c, {"none", "queued", "open", "closed"})
  BY <1>1, <1>2, <1>5, Queues DEF Touch
<1>10. CASE sPc' = "abort" /\ sErr' = "IERECVCOOKIE" /\ UNCHANGED <<sState, c2s, s2c>>
  <2>1. ~Talks(c)' /\ sState' \notin {"EXCHANGE_RESULTS", "DISPLAY_RESULTS"}
    BY <1>7, <1>10 DEF Talks
  <2>2. DownInv(c)'
    <3>1. s2c'[c] \in {s2c[c], <<>>}
      BY <1>10
    <3>2. sState' = sState
      BY <1>10
    <3> QED
      BY <1>4, <1>5, <1>8, <2>1, <3>1, <3>2, DownSilent
  <2>3. UpInv(c)'
    BY <1>4, <1>5, <1>8, <2>1, UpGone
  <2>4. sErr' \in Errors \ {"IEMESSAGE"}
    BY <1>10 DEF Errors
  <2>5. Turns(c)
    BY <1>4, <1>9, <1>10 DEF Turns, Touch
  <2> QED
    BY <1>2, <1>5, <1>7, <1>10, <2>2, <2>3, <2>4, <2>5, AcceptPart
<1>11. CASE /\ c2s[c] # <<>> /\ c2s' = Set(c2s, c, Tail(c2s[c]))
            /\ SendState(c, <<"PARAM_EXCHANGE">>, "PARAM_EXCHANGE", "params")
  <2>1. c2s'[c] = Tail(c2s[c]) /\ c2s[c] # <<>>
    BY <1>1, <1>5, <1>11, At
  <2>2. /\ <<>> \o <<"PARAM_EXCHANGE">> = <<"PARAM_EXCHANGE">>
        /\ <<"PARAM_EXCHANGE">> \in Seq(Messages)
    BY Names
  <2>3. /\ sState' = "PARAM_EXCHANGE"
        /\ \/ /\ sPc' = "params" /\ sErr' = sErr
              /\ \/ /\ s2c' = Set(s2c, c, <<"PARAM_EXCHANGE">>)
                    /\ s2c'[c] = <<"PARAM_EXCHANGE">>
                 \/ s2c' = s2c /\ cEnd[c] = "closed"
           \/ sPc' = "abort" /\ sErr' = "IESENDMESSAGE" /\ s2c' = s2c /\ cEnd[c] = "closed"
    <3>1. s2c[c] \o <<"PARAM_EXCHANGE">> = <<"PARAM_EXCHANGE">>
      BY <1>6, <2>2
    <3> QED
      BY <1>1, <1>5, <1>11, <3>1, SendStateAt
  <2>4. cEnd[c] = "closed" => ~Alive(c)
    BY <1>5 DEF ControlInv, ClientInv
  <2>5. DownInv(c)'
    <3>1. Alive(c) => /\ Follow(Down, s2c'[c], Place(cState[c], cPc[c]))
                      /\ Talks(c)' => Len(s2c'[c]) = Sent(sState') - Place(cState[c], cPc[c])
                      /\ ~Has(Down, s2c'[c], 5 .. 7)
                      /\ ~Has(Down, s2c'[c], {7})
      <4>1. SUFFICES ASSUME Alive(c)
                     PROVE  /\ Follow(Down, <<"PARAM_EXCHANGE">>, 0)
                            /\ Place("NONE", cPc[c]) = 0
                            /\ Len(<<"PARAM_EXCHANGE">>) = Sent("PARAM_EXCHANGE") - 0
                            /\ ~Has(Down, <<"PARAM_EXCHANGE">>, 5 .. 7)
                            /\ ~Has(Down, <<"PARAM_EXCHANGE">>, {7})
        BY <1>6, <2>3, <2>4
      <4>2. /\ Len(<<"PARAM_EXCHANGE">>) = 1 /\ <<"PARAM_EXCHANGE">>[1] = "PARAM_EXCHANGE"
            /\ Down["PARAM_EXCHANGE"] = 1
        BY Names DEF Down
      <4>3. Place("NONE", cPc[c]) = 0 /\ Sent("PARAM_EXCHANGE") = 1
        BY DEF Place, Sent
      <4> QED
        BY <4>2, <4>3 DEF Follow, Has, Last
    <3> QED
      BY <1>4, <1>5, <1>8, <3>1, DownWritten
  <2>6. UpInv(c)'
    <3>1. sState' = "PARAM_EXCHANGE"
      BY <2>3
    <3> QED
      BY <1>4, <1>5, <1>7, <1>8, <2>1, <3>1, UpTaken
  <2>7. sErr' \in Errors \ {"IEMESSAGE"}
    <3>1. sErr \in Errors \ {"IEMESSAGE"} /\ "IESENDMESSAGE" \in Errors
      BY <1>1 DEF TypeOK, ServerInv, Errors
    <3> QED
      BY <2>3, <3>1
  <2>8. Turns(c)
    <3>1. Touch(c2s, c2s', c, Seq(Messages))
      BY <1>9, <1>11 DEF Touch
    <3>2. Touch(s2c, s2c', c, Seq(Messages))
      BY <2>2, <2>3 DEF Touch
    <3> QED
      BY <1>4, <1>9, <3>1, <3>2 DEF Turns
  <2>9. sState' = "PARAM_EXCHANGE" /\ sPc' \in {"abort", "params"}
    BY <2>3
  <2> QED
    BY <1>2, <1>5, <2>5, <2>6, <2>7, <2>8, <2>9, AcceptPart
<1> QED
  BY <1>3, <1>10, <1>11

\* The same without a name for the client.
LEMMA AcceptKeeps ==
  ASSUME ControlInv, iperf_accept
  PROVE  ControlInv'
<1>1. backlog # <<>>
  BY DEF iperf_accept
<1>2. Head(backlog)[1] \in Clients
  BY <1>1, FirstConnection
<1> QED
  BY <1>1, <1>2, AcceptOf

\* ACCESS_DENIED for the first connection in the accept queue.
LEMMA DenyKeeps ==
  ASSUME ControlInv, ~Idle, backlog # <<>>, backlog' = Tail(backlog),
         NEW unread, Deny(unread), UNCHANGED clientVars, UNCHANGED serverVars, UNCHANGED lost,
         NEW c \in Clients, c = Head(backlog)[1]
  PROVE  ControlInv'
<1>1. TypeOK /\ ClientInv(c) /\ DownInv(c) /\ UpInv(c)
  BY DEF ControlInv
<1>2. ~Idle'
  BY DEF Idle, serverVars
<1>3. UNCHANGED <<cPc, cState, cDone, cErr, cMade, cThread, cTimer, cEnd>>
  BY DEF clientVars
<1>4. CASE Head(backlog)[2] = "stream"
  <2>1. UNCHANGED <<sEnd, c2s, s2c>>
    BY <1>4 DEF Deny
  <2>2. Moves(c) /\ Same(c)
    BY <1>3, <2>1 DEF Moves, Touch, Same
  <2>3. BacklogInv' /\ backlog' \in Seq(Clients \X {"ctrl", "stream"})
    BY <1>2, <2>1, BacklogTaken
  <2>4. ClientInv(c)' /\ DownInv(c)' /\ UpInv(c)' /\ (Served(c)' => Served(c))
    BY <1>1, <2>2, OtherClients
  <2> QED
    BY <2>2, <2>3, <2>4, ClientPart
<1>5. CASE Head(backlog)[2] = "ctrl"
  <2>1. sEnd[c] = "queued"
    BY <1>5, FirstConnection
  <2>2. /\ sEnd' = Set(sEnd, c, "closed") /\ c2s' = Set(c2s, c, <<>>)
        /\ \E out \in {Append(s2c[c], "ACCESS_DENIED"), <<>>} : s2c' = Set(s2c, c, out)
    BY <1>5 DEF Deny, AfterClose
  <2>3. s2c[c] = <<>> /\ sCtrl # c /\ sCtrl' # c
    BY <1>1, <2>1 DEF DownInv, serverVars
  <2>4. /\ Append(<<>>, "ACCESS_DENIED") = <<"ACCESS_DENIED">>
        /\ <<"ACCESS_DENIED">> \in Seq(Messages) /\ <<>> \in Seq(Messages)
    BY Names
  <2>5. PICK out \in {<<"ACCESS_DENIED">>, <<>>} : s2c' = Set(s2c, c, out)
    BY <2>2, <2>3, <2>4
  <2>6. sEnd'[c] = "closed" /\ c2s'[c] = <<>> /\ s2c'[c] \in {<<"ACCESS_DENIED">>, <<>>}
    BY <1>1, <2>2, <2>5, At
  <2>7. Moves(c)
    <3>1. Touch(s2c, s2c', c, Seq(Messages)) /\ Touch(c2s, c2s', c, Seq(Messages))
      BY <2>2, <2>4, <2>5 DEF Touch
    <3>2. Touch(sEnd, sEnd', c, {"none", "queued", "open", "closed"})
      BY <2>2 DEF Touch
    <3> QED
      BY <1>3, <3>1, <3>2 DEF Moves, Touch
  <2>8. \A p \in Int : Follow(Down, s2c'[c], p) /\ \A R : Has(Down, s2c'[c], R) => 8 \in R
    <3>1. CASE s2c'[c] = <<>>
      BY <3>1, EmptyQueue
    <3>2. CASE s2c'[c] = <<"ACCESS_DENIED">>
      <4>1. Down["ACCESS_DENIED"] = 8
        BY Names DEF Down, Last
      <4>2. Len(<<"ACCESS_DENIED">>) = 1 /\ <<"ACCESS_DENIED">>[1] = "ACCESS_DENIED"
        OBVIOUS
      <4> QED
        BY <3>2, <4>1, <4>2 DEF Follow, Has, Last
    <3> QED
      BY <2>6, <3>1, <3>2
  <2>9. Place(cState[c], cPc[c]) \in Int
    BY DEF Place
  <2>10. /\ Alive(c)' <=> Alive(c)
         /\ SendersStopped(c)' <=> SendersStopped(c)
         /\ AllStopped(c)' <=> AllStopped(c)
         /\ ~Talks(c)' /\ sState' = sState
    BY <1>3, <2>3 DEF Alive, SendersStopped, AllStopped, Talks, serverVars
  <2>11. ClientInv(c)'
    BY <1>1, <1>3, <2>1, <2>6, <2>10 DEF ClientInv
  <2>12. 8 \notin 5 .. 7 /\ 8 \notin {7} /\ 8 \notin 0 .. 7
    OBVIOUS
  <2>13. DownInv(c)'
    BY <1>3, <2>3, <2>6, <2>8, <2>9, <2>10, <2>12 DEF DownInv
  <2>14. UpInv(c)'
    BY <2>3, <2>6, <2>10 DEF UpInv
  <2>15. Served(c)' => Served(c)
    BY <1>3, <2>3, <2>8, <2>9, <2>10, <2>12 DEF Served
  <2>16. BacklogInv' /\ backlog' \in Seq(Clients \X {"ctrl", "stream"})
    <3>1. \A d \in Clients : d # c => sEnd'[d] = sEnd[d]
      <4>1. sEnd \in [Clients -> {"none", "queued", "open", "closed"}]
        BY <1>1 DEF TypeOK
      <4> QED
        BY <2>2, <4>1 DEF Set
    <3> QED
      BY <1>2, <1>5, <3>1, BacklogTaken
  <2> QED
    BY <2>7, <2>11, <2>13, <2>14, <2>15, <2>16, ClientPart
<1> QED
  BY <1>4, <1>5, FirstConnection

\* A connection that cannot be used is turned away.
LEMMA TurnedAwayKeeps ==
  ASSUME ControlInv, iperf_accept_busy \/ server_reject_stream
  PROVE  ControlInv'
<1>1. /\ sPc = "select" /\ backlog # <<>> /\ backlog' = Tail(backlog)
      /\ sCtrl # NoClient \/ sState = "CREATE_STREAMS"
      /\ UNCHANGED clientVars /\ UNCHANGED serverVars /\ UNCHANGED lost
      /\ \E unread : Deny(unread)
  BY DEF iperf_accept_busy, server_reject_stream, Selecting
<1>2. ~Idle
  BY <1>1 DEF ControlInv, ServerInv, Idle
<1>3. Head(backlog)[1] \in Clients
  BY <1>1, FirstConnection
<1> QED
  BY <1>1, <1>2, <1>3, DenyKeeps

-----------------------------------------------------------------------------
(* The server and the client that it serves.                               *)

\* The client's place and the messages on the way reach as far as the server's.
LEMMA OnTheWay ==
  ASSUME ControlInv, NEW c \in Clients, Talks(c), Alive(c)
  PROVE  /\ Place(cState[c], cPc[c]) \in Int
         /\ Sent(sState) \in Int
         /\ Len(s2c[c]) \in Nat
         /\ Place(cState[c], cPc[c]) + Len(s2c[c]) = Sent(sState)
         /\ Follow(Down, s2c[c], Place(cState[c], cPc[c]))
         /\ Has(Down, s2c[c], 5 .. 7) => cState[c] \in EndStates
         /\ Has(Down, s2c[c], {7}) => sState \in FinalStates
<1>1. DownInv(c) /\ s2c[c] \in Seq(Messages)
  BY DEF ControlInv, TypeOK
<1>2. Place(cState[c], cPc[c]) \in Int /\ Sent(sState) \in Int
  BY DEF Place, Sent
<1>3. Len(s2c[c]) \in Nat
  BY <1>1, LenProperties
<1> QED
  BY <1>1, <1>2, <1>3 DEF DownInv

\* The server sends the next message of its script.
LEMMA SentOne ==
  ASSUME ControlInv, NEW c \in Clients, UNCHANGED clientVars, Talks(c),
         sEnd'[c] = "open", sCtrl' = c, NEW m \in Messages,
         Down[m] = Sent(sState) + 1, Sent(sState') = Sent(sState) + 1,
         s2c'[c] = Append(s2c[c], m) \/ ~Alive(c),
         Down[m] \in 5 .. 7 => (Alive(c) => cState[c] \in EndStates),
         Down[m] # 7, sState \notin FinalStates
  PROVE  DownInv(c)'
<1>1. SUFFICES ASSUME Alive(c)
               PROVE  /\ Follow(Down, s2c'[c], Place(cState[c], cPc[c]))
                      /\ Len(s2c'[c]) = Sent(sState') - Place(cState[c], cPc[c])
                      /\ Has(Down, s2c'[c], 5 .. 7) => cState[c] \in EndStates
                      /\ Has(Down, s2c'[c], {7}) => sState' \in FinalStates
  BY DownWritten
<1> DEFINE p == Place(cState[c], cPc[c])
<1>2. /\ p \in Int /\ Sent(sState) \in Int /\ Len(s2c[c]) \in Nat
      /\ p + Len(s2c[c]) = Sent(sState)
      /\ Follow(Down, s2c[c], p)
      /\ Has(Down, s2c[c], 5 .. 7) => cState[c] \in EndStates
      /\ ~Has(Down, s2c[c], {7})
  BY <1>1, OnTheWay
<1> HIDE DEF p
<1>3. s2c[c] \in Seq(Messages)
  BY DEF ControlInv, TypeOK
<1>4. /\ Len(Append(s2c[c], m)) = Len(s2c[c]) + 1
      /\ Follow(Down, s2c[c], p) /\ Down[m] \in {p + Len(s2c[c]) + 1, Last} =>
           Follow(Down, Append(s2c[c], m), p)
      /\ \A R : Has(Down, Append(s2c[c], m), R) => Has(Down, s2c[c], R) \/ Down[m] \in R
  BY <1>2, <1>3, AppendToQueue
<1>5. s2c'[c] = Append(s2c[c], m)
  BY <1>1
<1>6. Follow(Down, s2c'[c], p) /\ Len(s2c'[c]) = Sent(sState') - p
  BY <1>2, <1>4, <1>5
<1>7. Has(Down, s2c'[c], 5 .. 7) => cState[c] \in EndStates
  BY <1>1, <1>2, <1>4, <1>5
<1>8. ~Has(Down, s2c'[c], {7})
  BY <1>2, <1>4, <1>5
<1> QED
  BY <1>6, <1>7, <1>8 DEF p

\* The server sends two messages.
LEMMA SentTwo ==
  ASSUME ControlInv, NEW c \in Clients, UNCHANGED clientVars, Talks(c),
         sEnd'[c] = "open", sCtrl' = c, NEW m \in Messages, NEW n \in Messages,
         Down[m] = Sent(sState) + 1, Down[n] = Sent(sState) + 2,
         Sent(sState') = Sent(sState) + 2,
         s2c'[c] = Append(Append(s2c[c], m), n) \/ ~Alive(c),
         Down[n] \in 5 .. 7 => (Alive(c) => cState[c] \in EndStates) /\ Down[m] # 7,
         Down[n] = 7 => sState' \in FinalStates,
         Down[n] \in 5 .. 7 \/ Down[n] < 5, sState \notin FinalStates
  PROVE  DownInv(c)'
<1>1. SUFFICES ASSUME Alive(c)
               PROVE  /\ Follow(Down, s2c'[c], Place(cState[c], cPc[c]))
                      /\ Len(s2c'[c]) = Sent(sState') - Place(cState[c], cPc[c])
                      /\ Has(Down, s2c'[c], 5 .. 7) => cState[c] \in EndStates
                      /\ Has(Down, s2c'[c], {7}) => sState' \in FinalStates
  BY DownWritten
<1> DEFINE p == Place(cState[c], cPc[c])
<1>2. /\ p \in Int /\ Sent(sState) \in Int /\ Len(s2c[c]) \in Nat
      /\ p + Len(s2c[c]) = Sent(sState)
      /\ Follow(Down, s2c[c], p)
      /\ Has(Down, s2c[c], 5 .. 7) => cState[c] \in EndStates
      /\ ~Has(Down, s2c[c], {7})
  BY <1>1, OnTheWay
<1> HIDE DEF p
<1> DEFINE q == Append(s2c[c], m)
<1>3. s2c[c] \in Seq(Messages)
  BY DEF ControlInv, TypeOK
<1>4. /\ q \in Seq(Messages) /\ Len(q) = Len(s2c[c]) + 1
      /\ Follow(Down, s2c[c], p) /\ Down[m] \in {p + Len(s2c[c]) + 1, Last} =>
           Follow(Down, q, p)
      /\ \A R : Has(Down, q, R) => Has(Down, s2c[c], R) \/ Down[m] \in R
  BY <1>2, <1>3, AppendToQueue
<1> HIDE DEF q
<1>5. /\ Len(Append(q, n)) = Len(q) + 1
      /\ Follow(Down, q, p) /\ Down[n] \in {p + Len(q) + 1, Last} =>
           Follow(Down, Append(q, n), p)
      /\ \A R : Has(Down, Append(q, n), R) => Has(Down, q, R) \/ Down[n] \in R
  BY <1>2, <1>4, AppendToQueue
<1>6. s2c'[c] = Append(q, n)
  BY <1>1 DEF q
<1>7. Follow(Down, q, p)
  BY <1>2, <1>4
<1>8. Follow(Down, s2c'[c], p) /\ Len(s2c'[c]) = Sent(sState') - p
  BY <1>2, <1>4, <1>5, <1>6, <1>7
<1>9. Down[m] \in 5 .. 7 => Down[n] \in 5 .. 7
  BY <1>2
<1>10. Has(Down, s2c'[c], 5 .. 7) => cState[c] \in EndStates
  BY <1>1, <1>2, <1>4, <1>5, <1>6, <1>9
<1>11. Down[m] # 7
  BY <1>2
<1>12. Has(Down, s2c'[c], {7}) => sState' \in FinalStates
  BY <1>2, <1>4, <1>5, <1>6, <1>11
<1> QED
  BY <1>8, <1>10, <1>12 DEF p

\* What the places of the server are, by the state it is in.
LEMMA Places ==
  /\ Sent("PARAM_EXCHANGE") = 1 /\ Sent("CREATE_STREAMS") = 2 /\ Sent("TEST_RUNNING") = 4
  /\ Sent("EXCHANGE_RESULTS") = 5 /\ Sent("DISPLAY_RESULTS") = 7
  /\ Got("PARAM_EXCHANGE") = 1 /\ Got("CREATE_STREAMS") = 2 /\ Got("TEST_RUNNING") = 2
  /\ Got("EXCHANGE_RESULTS") = 3 /\ Got("DISPLAY_RESULTS") = 4
  /\ Down["CREATE_STREAMS"] = 2 /\ Down["TEST_START"] = 3 /\ Down["TEST_RUNNING"] = 4
  /\ Down["EXCHANGE_RESULTS"] = 5 /\ Down["results"] = 6 /\ Down["DISPLAY_RESULTS"] = 7
  /\ Up["TEST_END"] = 3 /\ Up["results"] = 4
<1>1. /\ Sent("PARAM_EXCHANGE") = 1 /\ Sent("CREATE_STREAMS") = 2 /\ Sent("TEST_RUNNING") = 4
      /\ Sent("EXCHANGE_RESULTS") = 5 /\ Sent("DISPLAY_RESULTS") = 7
  BY DEF Sent
<1>2. /\ Got("PARAM_EXCHANGE") = 1 /\ Got("CREATE_STREAMS") = 2 /\ Got("TEST_RUNNING") = 2
      /\ Got("EXCHANGE_RESULTS") = 3 /\ Got("DISPLAY_RESULTS") = 4
  BY DEF Got
<1>3. /\ Down["CREATE_STREAMS"] = 2 /\ Down["TEST_START"] = 3 /\ Down["TEST_RUNNING"] = 4
      /\ Down["EXCHANGE_RESULTS"] = 5 /\ Down["results"] = 6 /\ Down["DISPLAY_RESULTS"] = 7
  BY Names DEF Down
<1>4. Up["TEST_END"] = 3 /\ Up["results"] = 4
  BY Names DEF Up
<1> QED
  BY <1>1, <1>2, <1>3, <1>4

\* What is known when the server looks at the connection of its client.
LEMMA Serving ==
  ASSUME ControlInv, NEW c \in Clients, sCtrl = c, sPc \in {"select", "params", "results"}
  PROVE  /\ Talks(c) /\ Served(c) /\ sEnd[c] = "open" /\ c # NoClient /\ ~sFreed /\ ~Idle
         /\ sErr \in Errors \ {"IEMESSAGE"} /\ sDone \in BOOLEAN /\ sShut \in BOOLEAN
         /\ sRec \in 0 .. streams_to_rec /\ sSend \in 0 .. streams_to_send
         /\ sState \in States
         /\ sPc = "params"  => sState = "PARAM_EXCHANGE" /\ sRec = 0 /\ sSend = 0
         /\ sPc = "results" => sState = "EXCHANGE_RESULTS"
         /\ sPc = "select"  => sState \in {"CREATE_STREAMS", "TEST_RUNNING", "DISPLAY_RESULTS"}
         /\ Read(c) = Got(sState)
         /\ c2s[c] \in Seq(Messages) /\ s2c[c] \in Seq(Messages)
         /\ c2s[c] # <<>> => Tail(c2s[c]) \in Seq(Messages)
         /\ cEnd[c] = "closed" => ~Alive(c)
         /\ sState = "EXCHANGE_RESULTS" \/ sState = "DISPLAY_RESULTS" =>
              SendersStopped(c) /\ (Alive(c) => cState[c] \in EndStates)
<1>1. TypeOK /\ ServerInv /\ ClientInv(c) /\ DownInv(c) /\ UpInv(c)
  BY DEF ControlInv
<1>2. c # NoClient /\ sEnd[c] = "open"
  BY <1>1, ClientsAssumption DEF DownInv
<1>3. Talks(c) /\ Served(c) /\ ~sFreed /\ ~Idle /\ Read(c) = Got(sState)
  BY <1>1, <1>2 DEF Talks, Served, ServerInv, Idle, Read
<1>4. /\ sErr \in Errors \ {"IEMESSAGE"} /\ sDone \in BOOLEAN /\ sShut \in BOOLEAN
      /\ sRec \in 0 .. streams_to_rec /\ sSend \in 0 .. streams_to_send
      /\ sState \in States
  BY <1>1 DEF TypeOK, ServerInv
<1>5. /\ sPc = "params"  => sState = "PARAM_EXCHANGE" /\ sRec = 0 /\ sSend = 0
      /\ sPc = "results" => sState = "EXCHANGE_RESULTS"
      /\ sPc = "select"  => sState \in {"CREATE_STREAMS", "TEST_RUNNING", "DISPLAY_RESULTS"}
  BY <1>1, <1>2 DEF ServerInv
<1>6. /\ c2s[c] \in Seq(Messages) /\ s2c[c] \in Seq(Messages)
      /\ c2s[c] # <<>> => Tail(c2s[c]) \in Seq(Messages)
  BY <1>1, Queues
<1>7. cEnd[c] = "closed" => ~Alive(c)
  BY <1>1 DEF ClientInv
<1>8. sState = "EXCHANGE_RESULTS" \/ sState = "DISPLAY_RESULTS" =>
        SendersStopped(c) /\ (Alive(c) => cState[c] \in EndStates)
  BY <1>1 DEF UpInv
<1> QED
  BY <1>2, <1>3, <1>4, <1>5, <1>6, <1>7, <1>8

\* The server goes on after it has read a message and sent the next of its script.
LEMMA ServerGoesOn ==
  ASSUME ControlInv, NEW c \in Clients, sCtrl = c, sPc \in {"select", "params", "results"},
         UNCHANGED clientVars, UNCHANGED lost,
         UNCHANGED <<sEnd, sCtrl, sRec, sSend, sThread, sFreed, sTimer, sErr, backlog>>,
         sDone' \in BOOLEAN, sShut' \in BOOLEAN,
         c2s[c] # <<>>, c2s' = Set(c2s, c, Tail(c2s[c])),
         NEW q \in Seq(Messages), s2c' = s2c \/ s2c' = Set(s2c, c, q),
         Got(sState') = Got(sState) + 1,
         \/ sPc' = "select" /\ sState' = "CREATE_STREAMS" /\ sPc = "params"
         \/ sPc' = "results" /\ sState' = "EXCHANGE_RESULTS"
         \/ sPc' = "select" /\ sState' = "DISPLAY_RESULTS",
         sState' \in {"EXCHANGE_RESULTS", "DISPLAY_RESULTS"} =>
           SendersStopped(c) /\ (Alive(c) => cState[c] \in EndStates),
         sState \notin FinalStates, DownInv(c)'
  PROVE  ControlInv'
<1>1. /\ Talks(c) /\ Served(c) /\ sEnd[c] = "open" /\ c # NoClient /\ ~sFreed
      /\ sPc = "params" => sRec = 0 /\ sSend = 0
      /\ Read(c) = Got(sState)
      /\ Tail(c2s[c]) \in Seq(Messages)
      /\ sErr # "IEMESSAGE"
  BY Serving
<1>2. TypeOK
  BY DEF ControlInv
<1>3. ~Idle' /\ sEnd'[c] = "open" /\ sCtrl' = c
  BY <1>1 DEF Idle
<1>4. Turns(c)
  <2>1. Touch(c2s, c2s', c, Seq(Messages)) /\ Touch(s2c, s2c', c, Seq(Messages))
    BY <1>1 DEF Touch
  <2> QED
    BY <2>1 DEF Turns, Touch
<1>5. ServerTypes'
  BY <1>2, Names DEF TypeOK, ServerTypes, ServerPcs
<1>6. ServerInv'
  <2>1. sState' = "CREATE_STREAMS" => ~AllAccepted(sRec, sSend)
    <3>1. AllStreams \in Nat \ {0} /\ streams_to_rec + streams_to_send = AllStreams
      BY Counts
    <3>2. sState' = "CREATE_STREAMS" => sRec = 0 /\ sSend = 0
      BY <1>1
    <3>3. streams_to_rec # 0 \/ streams_to_send # 0
      BY <3>1
    <3> QED
      BY <3>2, <3>3 DEF AllAccepted
  <2>2. sState' = "CREATE_STREAMS" => ~AllAccepted(sRec', sSend')
    BY <2>1
  <2> QED
    BY <1>1, <1>3, <2>2 DEF ServerInv, AllAccepted
<1>7. UpInv(c)'
  <2>1. c2s'[c] = Tail(c2s[c])
    BY <1>2, At
  <2> QED
    BY <1>1, <1>3, <2>1, UpTaken
<1>8. BacklogInv'
  BY <1>3, BacklogLeft
<1> QED
  BY <1>1, <1>3, <1>4, <1>5, <1>6, <1>7, <1>8, ServerPart

\* get_parameters and the answer to it.
LEMMA GetParametersOf ==
  ASSUME ControlInv, NEW c \in Clients, sCtrl = c, server_get_parameters
  PROVE  ControlInv'
<1>1. /\ sPc = "params"
      /\ UNCHANGED clientVars /\ UNCHANGED lost
      /\ UNCHANGED <<sEnd, sCtrl, sRec, sSend, sThread, sFreed, sTimer, sDone, sShut, backlog>>
  BY DEF server_get_parameters
<1>2. \/ /\ c2s[c] # <<>> /\ c2s' = Set(c2s, c, Tail(c2s[c]))
         /\ SendState(c, <<"CREATE_STREAMS">>, "CREATE_STREAMS", "select")
      \/ /\ sPc' = "abort" /\ sErr' \in {"IESTREAMLISTEN", "IERECVPARAMS"}
         /\ sState' \in {sState, "SERVER_ERROR"}
         /\ c2s' = c2s \/ (c2s[c] # <<>> /\ c2s' = Set(c2s, c, Tail(c2s[c])))
         /\ s2c' = s2c \/ s2c' = Set(s2c, c, s2c[c] \o <<"SERVER_ERROR">>)
  BY DEF server_get_parameters, ServerAborts, ServerWrites
<1>3. /\ Talks(c) /\ sEnd[c] = "open" /\ sState = "PARAM_EXCHANGE"
      /\ sErr \in Errors \ {"IEMESSAGE"} /\ sDone \in BOOLEAN /\ sShut \in BOOLEAN
      /\ sRec \in 0 .. streams_to_rec /\ sSend \in 0 .. streams_to_send
      /\ c2s[c] # <<>> => Tail(c2s[c]) \in Seq(Messages)
      /\ cEnd[c] = "closed" => ~Alive(c)
  BY <1>1, Serving
<1>4. /\ s2c[c] \o <<"SERVER_ERROR">> = Append(s2c[c], "SERVER_ERROR")
      /\ s2c[c] \o <<"CREATE_STREAMS">> = Append(s2c[c], "CREATE_STREAMS")
      /\ Append(s2c[c], "CREATE_STREAMS") \in Seq(Messages)
      /\ "CREATE_STREAMS" \in Messages
  BY Queues, Names DEF ControlInv
<1>5. sState \notin FinalStates
  BY <1>3 DEF FinalStates
<1>6. CASE /\ sPc' = "abort" /\ sErr' \in {"IESTREAMLISTEN", "IERECVPARAMS"}
           /\ sState' \in {sState, "SERVER_ERROR"}
           /\ c2s' = c2s \/ (c2s[c] # <<>> /\ c2s' = Set(c2s, c, Tail(c2s[c])))
           /\ s2c' = s2c \/ s2c' = Set(s2c, c, s2c[c] \o <<"SERVER_ERROR">>)
  <2>1. Touch(c2s, c2s', c, Seq(Messages))
    BY <1>3, <1>6 DEF Touch
  <2>2. sErr' \in Errors \ {"IEMESSAGE"}
    BY <1>6 DEF Errors
  <2>3. sState' \in States /\ sState' \notin {"EXCHANGE_RESULTS", "DISPLAY_RESULTS"}
    BY <1>3, <1>6, Names
  <2>4. s2c' = s2c \/ s2c' = Set(s2c, c, Append(s2c[c], "SERVER_ERROR"))
    BY <1>4, <1>6
  <2> QED
    BY <1>1, <1>3, <1>5, <1>6, <2>1, <2>2, <2>3, <2>4, ServerQuits
<1>7. CASE /\ c2s[c] # <<>> /\ c2s' = Set(c2s, c, Tail(c2s[c]))
           /\ SendState(c, <<"CREATE_STREAMS">>, "CREATE_STREAMS", "select")
  <2>1. /\ sState' = "CREATE_STREAMS"
        /\ \/ /\ sPc' = "select" /\ sErr' = sErr
              /\ \/ /\ s2c' = Set(s2c, c, Append(s2c[c], "CREATE_STREAMS"))
                    /\ s2c'[c] = Append(s2c[c], "CREATE_STREAMS")
                 \/ s2c' = s2c /\ cEnd[c] = "closed"
           \/ sPc' = "abort" /\ sErr' = "IESENDMESSAGE" /\ s2c' = s2c
    BY <1>4, <1>7, SendStateAt DEF ControlInv
  <2>2. CASE sPc' = "abort" /\ sErr' = "IESENDMESSAGE" /\ s2c' = s2c
    <3>1. Touch(c2s, c2s', c, Seq(Messages))
      BY <1>3, <1>7 DEF Touch
    <3>2. sErr' \in Errors \ {"IEMESSAGE"} /\ sState' \in States
      BY <2>1, <2>2, Names DEF Errors
    <3> QED
      BY <1>1, <1>3, <1>5, <2>1, <2>2, <3>1, <3>2, ServerQuits
  <2>3. CASE /\ sPc' = "select" /\ sErr' = sErr
             /\ \/ /\ s2c' = Set(s2c, c, Append(s2c[c], "CREATE_STREAMS"))
                   /\ s2c'[c] = Append(s2c[c], "CREATE_STREAMS")
                \/ s2c' = s2c /\ cEnd[c] = "closed"
    <3>1. /\ Down["CREATE_STREAMS"] = Sent(sState) + 1 /\ Down["CREATE_STREAMS"] = 2
          /\ Sent(sState') = Sent(sState) + 1 /\ Got(sState') = Got(sState) + 1
      BY <1>3, <2>1, Places
    <3>2. sCtrl' = c /\ sEnd'[c] = "open"
      BY <1>1, <1>3
    <3>3. s2c'[c] = Append(s2c[c], "CREATE_STREAMS") \/ ~Alive(c)
      BY <1>3, <2>3
    <3>4. Down["CREATE_STREAMS"] \notin 5 .. 7 /\ Down["CREATE_STREAMS"] # 7
      BY <3>1
    <3>5. DownInv(c)'
      BY <1>1, <1>3, <1>4, <1>5, <3>1, <3>2, <3>3, <3>4, SentOne
    <3>6. sState' \notin {"EXCHANGE_RESULTS", "DISPLAY_RESULTS"}
      BY <2>1
    <3>7. s2c' = s2c \/ s2c' = Set(s2c, c, Append(s2c[c], "CREATE_STREAMS"))
      BY <2>3
    <3> QED
      BY <1>1, <1>3, <1>4, <1>5, <1>7, <2>1, <2>3, <3>1, <3>5, <3>6, <3>7, ServerGoesOn
  <2> QED
    BY <2>1, <2>2, <2>3
<1> QED
  BY <1>2, <1>6, <1>7

\* The next message of the client that is served.
LEMMA HeadUp ==
  ASSUME ControlInv, NEW c \in Clients, sCtrl = c, sPc \in {"select", "params", "results"},
         c2s[c] # <<>>
  PROVE  /\ Head(c2s[c]) \in Messages
         /\ Up[Head(c2s[c])] \in {Got(sState) + 1, Last}
         /\ Head(c2s[c]) = "TEST_END" =>
              /\ sState = "TEST_RUNNING"
              /\ SendersStopped(c)
              /\ Alive(c) => cState[c] \in EndStates
<1>1. Talks(c) /\ Read(c) = Got(sState) /\ c2s[c] \in Seq(Messages)
  BY Serving
<1>2. UpInv(c) /\ ClientInv(c)
  BY DEF ControlInv
<1>3. Got(sState) \in Int
  BY DEF Got
<1>4. /\ Head(c2s[c]) \in Messages /\ Len(c2s[c]) \in Nat \ {0}
      /\ Follow(Up, c2s[c], Read(c)) => Up[Head(c2s[c])] \in {Read(c) + 1, Last}
      /\ \A R : Up[Head(c2s[c])] \in R => Has(Up, c2s[c], R)
  BY <1>1, <1>3, HeadOfQueue
<1>5. Up[Head(c2s[c])] \in {Got(sState) + 1, Last}
  BY <1>1, <1>2, <1>4 DEF UpInv
<1>6. ASSUME Head(c2s[c]) = "TEST_END"
      PROVE  /\ sState = "TEST_RUNNING" /\ SendersStopped(c)
             /\ Alive(c) => cState[c] \in EndStates
  <2>1. Has(Up, c2s[c], {3})
    BY <1>4, <1>6, Places
  <2>2. sState = "TEST_RUNNING" /\ SendersStopped(c)
    BY <1>1, <1>2, <2>1 DEF UpInv
  <2>3. Alive(c) => Len(c2s[c]) = Wrote(cState[c]) - 2 /\ cState[c] \in LiveStates
    BY <1>1, <1>2, <2>2, Places DEF UpInv, ClientInv
  <2>4. Alive(c) => Wrote(cState[c]) > 2
    <3>1. Wrote(cState[c]) \in Int
      BY DEF Wrote
    <3> QED
      BY <1>4, <2>3, <3>1
  <2>5. cState[c] \in LiveStates /\ Wrote(cState[c]) > 2 => cState[c] \in EndStates
    BY DEF Wrote, LiveStates, EndStates
  <2> QED
    BY <2>2, <2>3, <2>4, <2>5
<1> QED
  BY <1>4, <1>5, <1>6

\* TEST_END.
LEMMA TestEndOf ==
  ASSUME ControlInv, NEW c \in Clients, sCtrl = c, server_test_end
  PROVE  ControlInv'
<1>1. /\ sPc = "select" /\ c2s[c] # <<>> /\ Head(c2s[c]) = "TEST_END"
      /\ c2s' = Set(c2s, c, Tail(c2s[c])) /\ sDone' = TRUE /\ sShut' = TRUE
      /\ SendState(c, <<"EXCHANGE_RESULTS">>, "EXCHANGE_RESULTS", "results")
      /\ UNCHANGED clientVars /\ UNCHANGED lost
      /\ UNCHANGED <<sEnd, sCtrl, sRec, sSend, sThread, sFreed, sTimer, backlog>>
  BY DEF server_test_end, Selecting
<1>2. /\ Talks(c) /\ sEnd[c] = "open" /\ sErr \in Errors \ {"IEMESSAGE"}
      /\ sRec \in 0 .. streams_to_rec /\ sSend \in 0 .. streams_to_send
      /\ Tail(c2s[c]) \in Seq(Messages)
      /\ cEnd[c] = "closed" => ~Alive(c)
  BY <1>1, Serving
<1>3. /\ sState = "TEST_RUNNING" /\ SendersStopped(c)
      /\ Alive(c) => cState[c] \in EndStates
  BY <1>1, HeadUp
<1>4. /\ s2c[c] \o <<"EXCHANGE_RESULTS">> = Append(s2c[c], "EXCHANGE_RESULTS")
      /\ Append(s2c[c], "EXCHANGE_RESULTS") \in Seq(Messages)
      /\ "EXCHANGE_RESULTS" \in Messages
  BY Queues, Names DEF ControlInv
<1>5. sState \notin FinalStates
  BY <1>3 DEF FinalStates
<1>6. /\ sState' = "EXCHANGE_RESULTS"
      /\ \/ /\ sPc' = "results" /\ sErr' = sErr
            /\ \/ /\ s2c' = Set(s2c, c, Append(s2c[c], "EXCHANGE_RESULTS"))
                  /\ s2c'[c] = Append(s2c[c], "EXCHANGE_RESULTS")
               \/ s2c' = s2c /\ cEnd[c] = "closed"
         \/ sPc' = "abort" /\ sErr' = "IESENDMESSAGE" /\ s2c' = s2c
  BY <1>1, <1>4, SendStateAt DEF ControlInv
<1>7. CASE sPc' = "abort" /\ sErr' = "IESENDMESSAGE" /\ s2c' = s2c
  <2>1. Touch(c2s, c2s', c, Seq(Messages))
    BY <1>1, <1>2 DEF Touch
  <2>2. sErr' \in Errors \ {"IEMESSAGE"} /\ sState' \in States
    BY <1>6, <1>7, Names DEF Errors
  <2> QED
    BY <1>1, <1>2, <1>3, <1>5, <1>6, <1>7, <2>1, <2>2, ServerQuits
<1>8. CASE /\ sPc' = "results" /\ sErr' = sErr
           /\ \/ /\ s2c' = Set(s2c, c, Append(s2c[c], "EXCHANGE_RESULTS"))
                 /\ s2c'[c] = Append(s2c[c], "EXCHANGE_RESULTS")
              \/ s2c' = s2c /\ cEnd[c] = "closed"
  <2>1. /\ Down["EXCHANGE_RESULTS"] = Sent(sState) + 1 /\ Down["EXCHANGE_RESULTS"] = 5
        /\ Sent(sState') = Sent(sState) + 1 /\ Got(sState') = Got(sState) + 1
    BY <1>3, <1>6, Places
  <2>2. sCtrl' = c /\ sEnd'[c] = "open"
    BY <1>1, <1>2
  <2>3. s2c'[c] = Append(s2c[c], "EXCHANGE_RESULTS") \/ ~Alive(c)
    BY <1>2, <1>8
  <2>4. DownInv(c)'
    BY <1>1, <1>2, <1>3, <1>4, <1>5, <2>1, <2>2, <2>3, SentOne
  <2>5. s2c' = s2c \/ s2c' = Set(s2c, c, Append(s2c[c], "EXCHANGE_RESULTS"))
    BY <1>8
  <2> QED
    BY <1>1, <1>2, <1>3, <1>4, <1>5, <1>6, <1>8, <2>1, <2>4, <2>5, ServerGoesOn
<1> QED
  BY <1>6, <1>7, <1>8

\* get_results, and the answer to it.
LEMMA ServerGetResultsOf ==
  ASSUME ControlInv, NEW c \in Clients, sCtrl = c, server_get_results
  PROVE  ControlInv'
<1>1. /\ sPc = "results"
      /\ UNCHANGED clientVars /\ UNCHANGED lost
      /\ UNCHANGED <<sEnd, sCtrl, sRec, sSend, sThread, sFreed, sTimer, sDone, sShut, backlog>>
  BY DEF server_get_results
<1>2. \/ /\ c2s[c] # <<>> /\ c2s' = Set(c2s, c, Tail(c2s[c]))
         /\ SendState(c, <<"results", "DISPLAY_RESULTS">>, "DISPLAY_RESULTS", "select")
      \/ /\ sPc' = "abort" /\ sErr' = "IERECVRESULTS" /\ sState' = sState /\ s2c' = s2c
         /\ c2s' = c2s \/ (c2s[c] # <<>> /\ c2s' = Set(c2s, c, Tail(c2s[c])))
  BY DEF server_get_results, ServerAborts
<1>3. /\ Talks(c) /\ sEnd[c] = "open" /\ sState = "EXCHANGE_RESULTS"
      /\ sErr \in Errors \ {"IEMESSAGE"} /\ sDone \in BOOLEAN /\ sShut \in BOOLEAN
      /\ sRec \in 0 .. streams_to_rec /\ sSend \in 0 .. streams_to_send
      /\ sState \in States
      /\ c2s[c] # <<>> => Tail(c2s[c]) \in Seq(Messages)
      /\ cEnd[c] = "closed" => ~Alive(c)
      /\ SendersStopped(c) /\ (Alive(c) => cState[c] \in EndStates)
  BY <1>1, Serving
<1> DEFINE q == Append(Append(s2c[c], "results"), "DISPLAY_RESULTS")
<1>4. /\ s2c[c] \o <<"results", "DISPLAY_RESULTS">> = q
      /\ q \in Seq(Messages)
      /\ "results" \in Messages /\ "DISPLAY_RESULTS" \in Messages
  <2>1. s2c[c] \in Seq(Messages) /\ "results" \in Messages /\ "DISPLAY_RESULTS" \in Messages
    BY Names DEF ControlInv, TypeOK
  <2>2. Append(s2c[c], "results") \in Seq(Messages)
    BY <2>1, AppendProperties
  <2>3. q \in Seq(Messages)
    BY <2>1, <2>2, AppendProperties
  <2> QED
    BY <2>1, <2>3, AppendTwo
<1> HIDE DEF q
<1>5. sState \notin FinalStates
  BY <1>3 DEF FinalStates
<1>6. CASE /\ sPc' = "abort" /\ sErr' = "IERECVRESULTS" /\ sState' = sState /\ s2c' = s2c
           /\ c2s' = c2s \/ (c2s[c] # <<>> /\ c2s' = Set(c2s, c, Tail(c2s[c])))
  <2>1. Touch(c2s, c2s', c, Seq(Messages))
    BY <1>3, <1>6 DEF Touch
  <2>2. sErr' \in Errors \ {"IEMESSAGE"}
    BY <1>6 DEF Errors
  <2> QED
    BY <1>1, <1>3, <1>5, <1>6, <2>1, <2>2, ServerQuits
<1>7. CASE /\ c2s[c] # <<>> /\ c2s' = Set(c2s, c, Tail(c2s[c]))
           /\ SendState(c, <<"results", "DISPLAY_RESULTS">>, "DISPLAY_RESULTS", "select")
  <2>1. /\ sState' = "DISPLAY_RESULTS"
        /\ \/ /\ sPc' = "select" /\ sErr' = sErr
              /\ \/ s2c' = Set(s2c, c, q) /\ s2c'[c] = q
                 \/ s2c' = s2c /\ cEnd[c] = "closed"
           \/ sPc' = "abort" /\ sErr' = "IESENDMESSAGE" /\ s2c' = s2c
    BY <1>4, <1>7, SendStateAt DEF ControlInv
  <2>2. CASE sPc' = "abort" /\ sErr' = "IESENDMESSAGE" /\ s2c' = s2c
    <3>1. Touch(c2s, c2s', c, Seq(Messages))
      BY <1>3, <1>7 DEF Touch
    <3>2. sErr' \in Errors \ {"IEMESSAGE"} /\ sState' \in States
      BY <2>1, <2>2, Names DEF Errors
    <3> QED
      BY <1>1, <1>3, <1>5, <2>1, <2>2, <3>1, <3>2, ServerQuits
  <2>3. CASE /\ sPc' = "select" /\ sErr' = sErr
             /\ \/ s2c' = Set(s2c, c, q) /\ s2c'[c] = q
                \/ s2c' = s2c /\ cEnd[c] = "closed"
    <3>1. /\ Down["results"] = Sent(sState) + 1 /\ Down["results"] = 6
          /\ Down["DISPLAY_RESULTS"] = Sent(sState) + 2 /\ Down["DISPLAY_RESULTS"] = 7
          /\ Sent(sState') = Sent(sState) + 2 /\ Got(sState') = Got(sState) + 1
      BY <1>3, <2>1, Places
    <3>2. sCtrl' = c /\ sEnd'[c] = "open"
      BY <1>1, <1>3
    <3>3. s2c'[c] = Append(Append(s2c[c], "results"), "DISPLAY_RESULTS") \/ ~Alive(c)
      BY <1>3, <2>3 DEF q
    <3>4. sState' \in FinalStates
      BY <2>1 DEF FinalStates
    <3>5. DownInv(c)'
      BY <1>1, <1>3, <1>4, <1>5, <3>1, <3>2, <3>3, <3>4, SentTwo
    <3>6. s2c' = s2c \/ s2c' = Set(s2c, c, q)
      BY <2>3
    <3> QED
      BY <1>1, <1>3, <1>4, <1>5, <1>7, <2>1, <2>3, <3>1, <3>5, <3>6, ServerGoesOn
  <2> QED
    BY <2>1, <2>2, <2>3
<1> QED
  BY <1>2, <1>6, <1>7

\* The messages and the silence that end the loop.
LEMMA LeavesLoopOf ==
  ASSUME ControlInv, NEW c \in Clients, sCtrl = c,
         server_other_message \/ server_ctrl_closed \/ server_rcv_timeout
  PROVE  ControlInv'
<1>1. /\ sPc = "select" /\ UNCHANGED clientVars /\ UNCHANGED lost /\ UNCHANGED s2c
      /\ UNCHANGED <<sEnd, sCtrl, sRec, sSend, sThread, sFreed, sTimer, sDone, backlog>>
  BY DEF server_other_message, server_ctrl_closed, server_rcv_timeout, Selecting, netVars
<1>2. /\ sDone \in BOOLEAN /\ sShut \in BOOLEAN
      /\ sRec \in 0 .. streams_to_rec /\ sSend \in 0 .. streams_to_send
      /\ sState \in States /\ sState \in {"CREATE_STREAMS", "TEST_RUNNING", "DISPLAY_RESULTS"}
      /\ c2s[c] # <<>> => Tail(c2s[c]) \in Seq(Messages)
      /\ sErr \in Errors \ {"IEMESSAGE"}
      /\ sState = "DISPLAY_RESULTS" =>
           SendersStopped(c) /\ (Alive(c) => cState[c] \in EndStates)
  BY <1>1, Serving
<1>3. /\ sPc' \in {"exit", "abort"} /\ sState' \in {sState, "IPERF_DONE"}
      /\ sErr' \in Errors \ {"IEMESSAGE"} /\ sShut' \in BOOLEAN
      /\ c2s' = c2s \/ (c2s[c] # <<>> /\ c2s' = Set(c2s, c, Tail(c2s[c])))
  <2>1. CASE server_ctrl_closed \/ server_rcv_timeout
    BY <1>2, <2>1 DEF server_ctrl_closed, server_rcv_timeout, ServerAborts, Errors, netVars
  <2>2. CASE server_other_message
    <3>1. c2s[c] # <<>> /\ Head(c2s[c]) # "TEST_END" /\ c2s' = Set(c2s, c, Tail(c2s[c]))
      BY <2>2 DEF server_other_message
    <3>2. Head(c2s[c]) \in Messages /\ Up[Head(c2s[c])] \in {Got(sState) + 1, Last}
      BY <1>1, <3>1, HeadUp
    <3>3. Got(sState) + 1 \in {3, 5}
      BY <1>2, Places
    <3>4. Up[Head(c2s[c])] \in {3, 5, 8}
      BY <3>2, <3>3 DEF Last
    <3>5. Head(c2s[c]) \in {"IPERF_DONE", "CLIENT_TERMINATE"}
      BY <3>1, <3>2, <3>4 DEF Up, Last
    <3>6. /\ sState' = "IPERF_DONE" /\ sPc' = "exit"
          /\ sErr' \in {sErr, "IECLIENTTERM"} /\ sShut' \in BOOLEAN
      <4>1. "IPERF_DONE" \in States
        BY Names
      <4>2. CASE Head(c2s[c]) = "IPERF_DONE"
        BY <1>2, <2>2, <4>1, <4>2 DEF server_other_message
      <4>3. CASE Head(c2s[c]) = "CLIENT_TERMINATE"
        BY <1>2, <2>2, <4>3 DEF server_other_message
      <4> QED
        BY <3>5, <4>2, <4>3
    <3> QED
      BY <1>2, <3>1, <3>6 DEF Errors
  <2> QED
    BY <2>1, <2>2
<1>4. Touch(c2s, c2s', c, Seq(Messages))
  BY <1>2, <1>3 DEF Touch
<1>5. /\ sState \in FinalStates => sState' \in FinalStates
      /\ sState' \in States
      /\ sState' \in {"EXCHANGE_RESULTS", "DISPLAY_RESULTS"} => sState = "DISPLAY_RESULTS"
  BY <1>2, <1>3, Names DEF FinalStates
<1> QED
  BY <1>1, <1>2, <1>3, <1>4, <1>5, ServerQuits

\* A stream is accepted, and the last one starts the test.
LEMMA AcceptStreamOf ==
  ASSUME ControlInv, NEW c \in Clients, sCtrl = c, server_accept_stream
  PROVE  ControlInv'
<1> DEFINE rec  == IF sRec # streams_to_rec THEN sRec + 1 ELSE sRec
           send == IF sRec # streams_to_rec THEN sSend ELSE sSend + 1
<1>1. /\ sPc = "select" /\ sState = "CREATE_STREAMS" /\ backlog # <<>>
      /\ Head(backlog) = <<c, "stream">> /\ backlog' = Tail(backlog)
      /\ sRec' = rec /\ sSend' = send
      /\ UNCHANGED clientVars /\ UNCHANGED lost /\ UNCHANGED c2s
      /\ UNCHANGED <<sCtrl, sFreed, sShut, sEnd>>
  BY DEF server_accept_stream, Selecting
<1>2. \/ /\ ~AllAccepted(rec, send)
         /\ UNCHANGED <<sPc, sState, sErr, sDone, sTimer, sThread, s2c>>
      \/ /\ SendState(c, <<"TEST_START", "TEST_RUNNING">>, "TEST_RUNNING", "select")
         /\ \/ sPc' = "abort" /\ UNCHANGED <<sDone, sTimer, sThread>>
            \/ /\ sPc' # "abort" /\ sDone' = FALSE /\ sTimer' = "set"
               /\ sThread' = [i \in Streams |-> "running"]
  BY <1>1 DEF server_accept_stream
<1>3. /\ Talks(c) /\ Served(c) /\ sEnd[c] = "open" /\ c # NoClient /\ ~sFreed
      /\ sErr \in Errors \ {"IEMESSAGE"} /\ sDone \in BOOLEAN /\ sShut \in BOOLEAN
      /\ sRec \in 0 .. streams_to_rec /\ sSend \in 0 .. streams_to_send
      /\ cEnd[c] = "closed" => ~Alive(c)
  BY <1>1, Serving
<1>4. TypeOK /\ ServerInv
  BY DEF ControlInv
<1>5. rec \in 0 .. streams_to_rec /\ send \in 0 .. streams_to_send
  <2>1. streams_to_rec \in Nat /\ streams_to_send \in Nat
    BY Counts
  <2>2. ~AllAccepted(sRec, sSend)
    BY <1>1, <1>4 DEF ServerInv
  <2> QED
    BY <1>3, <2>1, <2>2 DEF AllAccepted
<1> HIDE DEF rec, send
<1>6. sCtrl' = c /\ sEnd'[c] = "open" /\ sState \notin FinalStates
  BY <1>1, <1>3 DEF FinalStates
<1>7. ASSUME ~Idle'
      PROVE  BacklogInv' /\ backlog' \in Seq(Clients \X {"ctrl", "stream"})
  <2>1. Head(backlog)[2] = "stream" /\ \A d \in Clients : sEnd'[d] = sEnd[d]
    BY <1>1
  <2> QED
    BY <1>1, <1>7, <2>1, BacklogTaken
<1>8. CASE /\ ~AllAccepted(rec, send)
           /\ UNCHANGED <<sPc, sState, sErr, sDone, sTimer, sThread, s2c>>
  <2>1. ~Idle' /\ Talks(c)'
    BY <1>1, <1>3, <1>8 DEF Idle, Talks
  <2>2. Turns(c)
    BY <1>1, <1>8 DEF Turns, Touch
  <2>3. ServerTypes'
    BY <1>1, <1>4, <1>5, <1>7, <1>8, <2>1 DEF TypeOK, ServerTypes
  <2>4. ServerInv'
    <3>1. ~AllAccepted(sRec', sSend')
      BY <1>1, <1>8
    <3> QED
      BY <1>1, <1>3, <1>4, <1>8, <2>1, <3>1 DEF ServerInv, AllAccepted
  <2>5. DownInv(c)'
    <3>1. s2c'[c] = s2c[c] /\ sState' = sState
      BY <1>8
    <3> QED
      BY <1>1, <1>3, <1>6, <3>1, DownSilent
  <2>6. UpInv(c)'
    <3>1. c2s'[c] = c2s[c] /\ sState' = sState /\ sEnd'[c] = sEnd[c]
      BY <1>1, <1>8
    <3> QED
      BY <1>1, <1>3, <1>6, <3>1, UpUntaken
  <2> QED
    BY <1>1, <1>3, <1>6, <1>7, <2>1, <2>2, <2>3, <2>4, <2>5, <2>6, ServerPart
<1>9. CASE /\ SendState(c, <<"TEST_START", "TEST_RUNNING">>, "TEST_RUNNING", "select")
           /\ \/ sPc' = "abort" /\ UNCHANGED <<sDone, sTimer, sThread>>
              \/ /\ sPc' # "abort" /\ sDone' = FALSE /\ sTimer' = "set"
                 /\ sThread' = [i \in Streams |-> "running"]
  <2> DEFINE q == Append(Append(s2c[c], "TEST_START"), "TEST_RUNNING")
  <2>1. /\ s2c[c] \o <<"TEST_START", "TEST_RUNNING">> = q
        /\ q \in Seq(Messages)
        /\ "TEST_START" \in Messages /\ "TEST_RUNNING" \in Messages
    <3>1. s2c[c] \in Seq(Messages) /\ "TEST_START" \in Messages /\ "TEST_RUNNING" \in Messages
      BY Names DEF ControlInv, TypeOK
    <3>2. Append(s2c[c], "TEST_START") \in Seq(Messages)
      BY <3>1, AppendProperties
    <3>3. q \in Seq(Messages)
      BY <3>1, <3>2, AppendProperties
    <3> QED
      BY <3>1, <3>3, AppendTwo
  <2> HIDE DEF q
  <2>2. /\ sState' = "TEST_RUNNING"
        /\ \/ /\ sPc' = "select" /\ sErr' = sErr
              /\ \/ s2c' = Set(s2c, c, q) /\ s2c'[c] = q
                 \/ s2c' = s2c /\ cEnd[c] = "closed"
           \/ sPc' = "abort" /\ sErr' = "IESENDMESSAGE" /\ s2c' = s2c
    BY <1>4, <1>9, <2>1, SendStateAt
  <2>3. CASE sPc' = "abort" /\ sErr' = "IESENDMESSAGE" /\ s2c' = s2c
    <3>1. Touch(c2s, c2s', c, Seq(Messages))
      BY <1>1 DEF Touch
    <3>2. sErr' \in Errors \ {"IEMESSAGE"} /\ sState' \in States
      BY <2>2, <2>3, Names DEF Errors
    <3>3. UNCHANGED <<sDone, sTimer, sThread>>
      BY <1>9, <2>3
    <3>4. sRec' \in 0 .. streams_to_rec /\ sSend' \in 0 .. streams_to_send
      BY <1>1, <1>5
    <3> QED
      BY <1>1, <1>3, <1>6, <2>2, <2>3, <3>1, <3>2, <3>3, <3>4, ServerQuits
  <2>4. CASE /\ sPc' = "select" /\ sErr' = sErr
             /\ \/ s2c' = Set(s2c, c, q) /\ s2c'[c] = q
                \/ s2c' = s2c /\ cEnd[c] = "closed"
    <3>1. sDone' = FALSE /\ sTimer' = "set" /\ sThread' = [i \in Streams |-> "running"]
      BY <1>9, <2>4
    <3>2. ~Idle' /\ Talks(c)'
      BY <1>3, <1>6, <2>4 DEF Idle, Talks
    <3>3. Turns(c)
      <4>1. Touch(s2c, s2c', c, Seq(Messages))
        BY <2>1, <2>4 DEF Touch
      <4> QED
        BY <1>1, <4>1 DEF Turns, Touch
    <3>4. ServerTypes'
      <4>1. sThread' \in [Streams -> ThreadStates] /\ sState' \in States
        BY <2>2, <3>1, Names DEF ThreadStates
      <4> QED
        BY <1>1, <1>4, <1>5, <1>7, <2>4, <3>1, <3>2, <4>1 DEF TypeOK, ServerTypes, ServerPcs
    <3>5. ServerInv'
      BY <1>1, <1>3, <1>6, <2>2, <2>4, <3>2 DEF ServerInv
    <3>6. DownInv(c)'
      <4>1. /\ Down["TEST_START"] = Sent(sState) + 1 /\ Down["TEST_START"] = 3
            /\ Down["TEST_RUNNING"] = Sent(sState) + 2 /\ Down["TEST_RUNNING"] = 4
            /\ Sent(sState') = Sent(sState) + 2
        BY <1>1, <2>2, Places
      <4>2. s2c'[c] = Append(Append(s2c[c], "TEST_START"), "TEST_RUNNING") \/ ~Alive(c)
        BY <1>3, <2>4 DEF q
      <4>3. /\ Down["TEST_RUNNING"] \notin 5 .. 7 /\ Down["TEST_RUNNING"] # 7
            /\ Down["TEST_RUNNING"] < 5
        BY <4>1
      <4>4. UNCHANGED clientVars
        BY <1>1
      <4> QED
        BY <1>3, <1>6, <2>1, <4>1, <4>2, <4>3, <4>4, SentTwo
    <3>7. UpInv(c)'
      <4>1. c2s'[c] = c2s[c] /\ sEnd'[c] = sEnd[c] /\ Got(sState') = Got(sState)
        BY <1>1, <2>2, Places
      <4>2. sState' \notin {"EXCHANGE_RESULTS", "DISPLAY_RESULTS"} /\ sState # "TEST_RUNNING"
        BY <1>1, <2>2
      <4> QED
        BY <1>1, <1>3, <1>6, <4>1, <4>2, UpUntaken
    <3> QED
      BY <1>1, <1>3, <1>6, <1>7, <3>2, <3>3, <3>4, <3>5, <3>6, <3>7, ServerPart
  <2> QED
    BY <2>2, <2>3, <2>4
<1> QED
  BY <1>2, <1>8, <1>9

\* server_timer_proc.
LEMMA TimerProcOf ==
  ASSUME ControlInv, NEW c \in Clients, sCtrl = c, server_timer_proc
  PROVE  ControlInv'
<1>1. /\ sPc = "select" /\ sTimer' = "null"
      /\ UNCHANGED clientVars /\ UNCHANGED lost /\ UNCHANGED c2s /\ UNCHANGED backlog
      /\ UNCHANGED <<sPc, sState, sErr, sRec, sSend, sThread>>
  BY DEF server_timer_proc, Selecting
<1>2. \/ UNCHANGED <<sDone, sFreed, sShut, sCtrl, sEnd, s2c>>
      \/ /\ sDone' = TRUE /\ sFreed' = TRUE /\ sShut' = TRUE /\ sCtrl' = NoClient
         /\ sEnd' = Set(sEnd, c, "closed")
         /\ \E out \in {s2c[c], <<>>} : s2c' = Set(s2c, c, out)
  BY DEF server_timer_proc, AfterClose
<1>3. /\ Talks(c) /\ Served(c) /\ sEnd[c] = "open" /\ c # NoClient /\ ~sFreed
      /\ s2c[c] \in Seq(Messages)
  BY <1>1, Serving
<1>4. TypeOK /\ ServerInv
  BY DEF ControlInv
<1>5. CASE UNCHANGED <<sDone, sFreed, sShut, sCtrl, sEnd, s2c>>
  <2>1. ~Idle'
    BY <1>1, <1>3, <1>5 DEF Idle
  <2>2. Turns(c)
    BY <1>1, <1>5 DEF Turns, Touch
  <2>3. ServerTypes'
    BY <1>1, <1>4, <1>5 DEF TypeOK, ServerTypes
  <2>4. ServerInv'
    BY <1>1, <1>3, <1>4, <1>5, <2>1 DEF ServerInv, AllAccepted
  <2>5. /\ sCtrl' = c /\ sEnd'[c] = sEnd[c] /\ c2s'[c] = c2s[c] /\ s2c'[c] = s2c[c]
        /\ sState' = sState
    BY <1>1, <1>5
  <2>6. DownInv(c)'
    BY <1>1, <1>3, <2>5, DownSilent
  <2>7. UpInv(c)'
    BY <1>1, <1>3, <2>5, UpUntaken
  <2>8. BacklogInv'
    BY <1>1, <1>5, <2>1, BacklogLeft
  <2> QED
    BY <1>3, <2>1, <2>2, <2>3, <2>4, <2>5, <2>6, <2>7, <2>8, ServerPart
<1>6. CASE /\ sDone' = TRUE /\ sFreed' = TRUE /\ sShut' = TRUE /\ sCtrl' = NoClient
           /\ sEnd' = Set(sEnd, c, "closed")
           /\ \E out \in {s2c[c], <<>>} : s2c' = Set(s2c, c, out)
  <2>1. ~Idle' /\ ~Talks(c)'
    BY <1>1, <1>3, <1>6 DEF Idle, Talks
  <2>2. PICK out \in {s2c[c], <<>>} : s2c' = Set(s2c, c, out)
    BY <1>6
  <2>3. sEnd'[c] = "closed" /\ s2c'[c] \in {s2c[c], <<>>}
    BY <1>4, <1>6, <2>2, At
  <2>4. Turns(c)
    <3>1. <<>> \in Seq(Messages)
      BY <1>4, Queues
    <3>2. Touch(s2c, s2c', c, Seq(Messages))
      BY <1>3, <2>2, <3>1 DEF Touch
    <3>3. Touch(sEnd, sEnd', c, {"none", "queued", "open", "closed"})
      BY <1>6 DEF Touch
    <3> QED
      BY <1>1, <3>2, <3>3 DEF Turns, Touch
  <2>5. ServerTypes'
    BY <1>1, <1>4, <1>6 DEF TypeOK, ServerTypes
  <2>6. ServerInv'
    BY <1>1, <1>4, <1>6, <2>1 DEF ServerInv, AllAccepted
  <2>7. sState' = sState /\ sCtrl' # c
    BY <1>1, <1>3, <1>6
  <2>8. DownInv(c)'
    BY <1>1, <2>1, <2>3, <2>7, DownSilent
  <2>9. UpInv(c)'
    BY <1>1, <2>1, <2>3, <2>7, UpGone
  <2>10. BacklogInv'
    <3>1. \A d \in Clients : sEnd[d] = "queued" => sEnd'[d] = "queued"
      <4>1. sEnd \in [Clients -> {"none", "queued", "open", "closed"}]
        BY <1>4 DEF TypeOK
      <4> QED
        BY <1>3, <1>6, <4>1 DEF Set
    <3> QED
      BY <1>1, <2>1, <3>1, BacklogLeft
  <2> QED
    BY <1>3, <1>6, <2>1, <2>3, <2>4, <2>5, <2>6, <2>7, <2>8, <2>9, <2>10, ServerPart
<1> QED
  BY <1>2, <1>5, <1>6

\* A step of the server on its own, which no client sees.
LEMMA ServerAlone ==
  ASSUME ControlInv, UNCHANGED clientVars, UNCHANGED netVars, UNCHANGED <<sCtrl>>,
         ServerTypes', ServerInv', Idle' => Idle, sFreed' = sFreed,
         sCtrl # NoClient => sPc' = sPc,
         sState' = sState \/ (sCtrl = NoClient /\ sState \notin FinalStates)
  PROVE  ControlInv'
<1>1. UNCHANGED <<sEnd, c2s, s2c, backlog, lost>>
  BY DEF netVars
<1>2. TypeOK'
  BY <1>1, ServerTypes' DEF ControlInv, TypeOK, ServerTypes, clientVars
<1>3. ASSUME NEW d \in Clients
      PROVE  ClientInv(d)' /\ DownInv(d)' /\ UpInv(d)' /\ (Served(d)' => Served(d))
  <2>1. sEnd'[d] = sEnd[d] /\ c2s'[d] = c2s[d] /\ s2c'[d] = s2c[d]
    BY <1>1
  <2>2. sState \in FinalStates => sState' \in FinalStates
    OBVIOUS
  <2>3. CASE sCtrl = d
    <3>1. /\ d # NoClient /\ sState' = sState /\ sPc' = sPc
          /\ sEnd[d] = "open" /\ sCtrl' = d /\ Served(d)
      BY <2>3, ClientsAssumption DEF ControlInv, DownInv, Served
    <3>2. Talks(d)' <=> Talks(d)
      BY <2>3, <3>1 DEF Talks
    <3>3. ClientInv(d)'
      BY <2>1, <2>2, ClientInvKept
    <3>4. DownInv(d)'
      BY <2>1, <3>1, <3>2, DownSilent
    <3>5. UpInv(d)'
      BY <2>1, <2>3, <3>1, <3>2, UpUntaken
    <3> QED
      BY <3>1, <3>3, <3>4, <3>5
  <2>4. CASE sCtrl # d
    <3>1. sCtrl' # d
      BY <2>4
    <3> QED
      BY <2>1, <2>2, <2>4, <3>1, UntouchedByServer
  <2> QED
    BY <2>3, <2>4
<1>4. BacklogInv'
  BY <1>1, BacklogLeft
<1>5. ServedInv'
  <2>1. ServedInv /\ (Idle' => Idle)
    BY DEF ControlInv
  <2> QED
    BY <1>3, <2>1 DEF ServedInv
<1> QED
  BY <1>2, <1>3, <1>4, <1>5 DEF ControlInv

\* What the server does without looking at a connection.
LEMMA ServerAloneKeeps ==
  ASSUME ControlInv,
         \/ iperf_server_listen \/ server_select_fails \/ server_clock \/ server_stopTest
         \/ \E i \in Streams : server_worker(i)
  PROVE  ControlInv'
<1>1. TypeOK /\ ServerInv
  BY DEF ControlInv
<1>2. ServerTypes
  BY <1>1 DEF TypeOK, ServerTypes
<1>3. sCtrl # NoClient => sPc \in {"select", "params", "results", "exit", "abort"} /\ ~sFreed
  BY <1>1 DEF ServerInv
<1>4. CASE iperf_server_listen
  <2>1. /\ sPc = "listen" /\ UNCHANGED clientVars /\ UNCHANGED netVars
        /\ UNCHANGED <<sDone, sCtrl, sRec, sSend, sThread, sFreed, sTimer, sShut>>
        /\ \/ sPc' = "select" /\ sState' = "IPERF_START" /\ sErr' = sErr
           \/ sPc' = "abort" /\ sErr' = "IELISTEN" /\ sState' = sState
    BY <1>4 DEF iperf_server_listen, ServerAborts
  <2>2. /\ sCtrl = NoClient /\ Idle /\ sState \notin FinalStates
        /\ sRec = 0 /\ sSend = 0 /\ sTimer = "null"
    BY <1>1, <1>3, <2>1 DEF ServerInv, Idle, FinalStates
  <2>3. ServerTypes'
    BY <1>2, <2>1, Names DEF ServerTypes, ServerPcs, Errors, netVars, States, Positive
  <2>4. ServerInv'
    BY <1>1, <2>1, <2>2 DEF ServerInv, Idle, AllAccepted
  <2> QED
    BY <2>1, <2>2, <2>3, <2>4, ServerAlone
<1>5. CASE server_select_fails
  <2>1. /\ sPc = "select" /\ sFreed /\ sPc' = "abort" /\ sErr' = "IESELECT"
        /\ UNCHANGED clientVars /\ UNCHANGED netVars
        /\ UNCHANGED <<sState, sDone, sCtrl, sRec, sSend, sThread, sFreed, sTimer, sShut>>
    BY <1>5 DEF server_select_fails, ServerAborts
  <2>2. sCtrl = NoClient /\ ~Idle'
    BY <1>3, <2>1 DEF Idle
  <2>3. ServerTypes'
    BY <1>2, <2>1 DEF ServerTypes, ServerPcs, Errors, netVars
  <2>4. ServerInv'
    BY <1>1, <2>1, <2>2 DEF ServerInv
  <2> QED
    BY <2>1, <2>2, <2>3, <2>4, ServerAlone
<1>6. CASE server_clock \/ server_stopTest \/ \E i \in Streams : server_worker(i)
  <2>1. /\ UNCHANGED clientVars /\ UNCHANGED netVars
        /\ UNCHANGED <<sPc, sState, sCtrl, sRec, sSend, sFreed, sShut>>
        /\ sErr' \in {sErr, "IESTREAMWRITE", "IESTREAMREAD"}
        /\ sTimer' = sTimer \/ (sTimer = "set" /\ sTimer' = "due")
        /\ sDone' = sDone \/ sDone' = TRUE
        /\ sThread' = sThread \/ \E i \in Streams : sThread' = [sThread EXCEPT ![i] = "exited"]
    BY <1>6 DEF server_clock, server_stopTest, server_worker
  <2>2. sThread' \in [Streams -> ThreadStates]
    <3>1. sThread \in [Streams -> ThreadStates]
      BY <1>2 DEF ServerTypes
    <3> QED
      BY <2>1, <3>1 DEF ThreadStates
  <2>3. sErr' \in Errors /\ sErr' # "IEMESSAGE"
    BY <1>1, <1>2, <2>1 DEF ServerTypes, ServerInv, Errors
  <2>4. ServerTypes'
    BY <1>2, <2>1, <2>2, <2>3 DEF ServerTypes, netVars
  <2>5. Idle' <=> Idle
    BY <2>1 DEF Idle
  <2>6. ServerInv'
    BY <1>1, <2>1, <2>3, <2>5 DEF ServerInv, AllAccepted
  <2> QED
    BY <2>1, <2>4, <2>5, <2>6, ServerAlone
<1> QED
  BY <1>4, <1>5, <1>6

\* The server is gone: every connection it had is closed.
LEMMA ServerGone ==
  ASSUME ControlInv, UNCHANGED clientVars, UNCHANGED lost, UNCHANGED c2s,
         sCtrl' = NoClient, backlog' = <<>>, sPc' \in Returned,
         sEnd' = [d \in Clients |-> IF sEnd[d] = "none" THEN "none" ELSE "closed"],
         s2c' \in [Clients -> Seq(Messages)],
         \A d \in Clients : \/ s2c'[d] \in {s2c[d], <<>>}
                            \/ sCtrl = d /\ s2c'[d] = Append(s2c[d], "SERVER_TERMINATE"),
         sState \in FinalStates => sState' \in FinalStates,
         ServerTypes', ServerInv'
  PROVE  ControlInv'
<1>1. TypeOK'
  <2>1. sEnd' \in [Clients -> {"none", "queued", "open", "closed"}]
    OBVIOUS
  <2> QED
    BY <2>1, ServerTypes' DEF ControlInv, TypeOK, ServerTypes, clientVars
<1>2. ~Idle'
  BY DEF Idle, Returned
<1>3. ASSUME NEW d \in Clients
      PROVE  ClientInv(d)' /\ DownInv(d)' /\ UpInv(d)' /\ (Served(d)' => Served(d))
  <2>1. ClientInv(d) /\ DownInv(d) /\ UpInv(d) /\ s2c[d] \in Seq(Messages)
    BY DEF ControlInv, TypeOK
  <2>2. sCtrl' # d /\ ~Talks(d)'
    BY ClientsAssumption DEF Talks
  <2>3. CASE sEnd[d] = "none"
    <3>1. sEnd'[d] = sEnd[d] /\ sCtrl # d /\ s2c[d] = <<>> /\ s2c'[d] = s2c[d]
      BY <2>1, <2>3 DEF DownInv
    <3> QED
      BY <2>2, <3>1, UntouchedByServer
  <2>4. CASE sEnd[d] # "none"
    <3>1. sEnd'[d] = "closed"
      BY <2>4
    <3>2. ClientInv(d)'
      BY <2>4, <3>1, ClientInvKept
    <3>3. UpInv(d)'
      BY <2>2, <3>1, UpGone
    <3>4. UNCHANGED <<cPc, cState, cMade>> /\ (Alive(d)' <=> Alive(d))
      BY DEF clientVars, Alive
    <3>5. DownInv(d)' /\ (Has(Down, s2c'[d], 0 .. 7) => Has(Down, s2c[d], 0 .. 7))
      <4>1. CASE s2c'[d] \in {s2c[d], <<>>}
        BY <2>2, <3>1, <4>1, DownSilent
      <4>2. CASE s2c'[d] = Append(s2c[d], "SERVER_TERMINATE")
        <5>1. "SERVER_TERMINATE" \in Messages /\ Down["SERVER_TERMINATE"] = Last /\ Last = 8
          BY Names DEF Down, Last
        <5>2. Place(cState[d], cPc[d]) \in Int
          BY DEF Place
        <5>3. /\ Follow(Down, s2c[d], Place(cState[d], cPc[d])) =>
                   Follow(Down, s2c'[d], Place(cState[d], cPc[d]))
              /\ \A R : Has(Down, s2c'[d], R) => Has(Down, s2c[d], R) \/ 8 \in R
          <6>1. /\ Follow(Down, s2c[d], Place(cState[d], cPc[d]))
                     /\ Down["SERVER_TERMINATE"] = Last =>
                     Follow(Down, Append(s2c[d], "SERVER_TERMINATE"), Place(cState[d], cPc[d]))
                /\ \A R : Has(Down, Append(s2c[d], "SERVER_TERMINATE"), R) =>
                            Has(Down, s2c[d], R) \/ Down["SERVER_TERMINATE"] \in R
            BY <2>1, <5>1, <5>2, AppendToQueue
          <6> QED
            BY <4>2, <5>1, <6>1
        <5>4. 8 \notin 5 .. 7 /\ 8 \notin {7} /\ 8 \notin 0 .. 7
          OBVIOUS
        <5>5. /\ Has(Down, s2c'[d], 5 .. 7) => Has(Down, s2c[d], 5 .. 7)
              /\ Has(Down, s2c'[d], {7}) => Has(Down, s2c[d], {7})
              /\ Has(Down, s2c'[d], 0 .. 7) => Has(Down, s2c[d], 0 .. 7)
          BY <5>3, <5>4
        <5>6. DownInv(d)'
          BY <2>1, <2>2, <3>1, <3>4, <5>3, <5>5 DEF DownInv
        <5> QED
          BY <5>5, <5>6
      <4> QED
        BY <4>1, <4>2
    <3>6. Served(d)' => Served(d)
      BY <2>2, <3>4, <3>5 DEF Served
    <3> QED
      BY <3>2, <3>3, <3>5, <3>6
  <2> QED
    BY <2>3, <2>4
<1>4. BacklogInv'
  BY <1>2 DEF BacklogInv
<1>5. ServedInv'
  <2>1. ServedInv
    BY DEF ControlInv
  <2> QED
    BY <1>2, <1>3, <2>1 DEF ServedInv
<1> QED
  BY <1>1, <1>3, <1>4, <1>5 DEF ControlInv

\* cleanup_server.
LEMMA CleanupKeeps ==
  ASSUME ControlInv, cleanup_server
  PROVE  ControlInv'
<1>1. /\ sPc' \in {"finished", "failed"} /\ sShut' = TRUE /\ sCtrl' = NoClient
      /\ sTimer' = "null" /\ backlog' = <<>>
      /\ sThread' = sThread \/ sThread' = Joined(sThread, Streams)
      /\ sEnd' = [c \in Clients |-> IF sEnd[c] = "none" THEN "none" ELSE "closed"]
      /\ UNCHANGED clientVars /\ UNCHANGED lost /\ UNCHANGED c2s
      /\ UNCHANGED <<sState, sDone, sErr, sRec, sSend, sFreed>>
  BY DEF cleanup_server
<1>2. PICK keep \in BOOLEAN :
        s2c' = [c \in Clients |-> IF /\ sEnd[c] \in {"queued", "open"}
                                     /\ c2s[c] # <<>>
                                     /\ ~keep
                                  THEN <<>> ELSE s2c[c]]
  BY DEF cleanup_server
<1>3. TypeOK /\ ServerInv
  BY DEF ControlInv
<1>4. s2c' \in [Clients -> Seq(Messages)] /\ \A d \in Clients : s2c'[d] \in {s2c[d], <<>>}
  <2>1. s2c \in [Clients -> Seq(Messages)] /\ <<>> \in Seq(Messages)
    BY <1>3 DEF TypeOK
  <2> QED
    BY <1>2, <2>1
<1>5. sThread' \in [Streams -> ThreadStates]
  <2>1. sThread \in [Streams -> ThreadStates]
    BY <1>3 DEF TypeOK
  <2>2. Joined(sThread, Streams) \in [Streams -> ThreadStates]
    BY <2>1, JoinedThreads
  <2> QED
    BY <1>1, <2>1, <2>2
<1>6. ServerTypes'
  <2>1. ServerTypes /\ <<>> \in Seq(Clients \X {"ctrl", "stream"})
    BY <1>3 DEF TypeOK, ServerTypes
  <2> QED
    BY <1>1, <1>5, <2>1 DEF ServerTypes, ServerPcs
<1>7. ServerInv'
  BY <1>1, <1>3 DEF ServerInv, Idle
<1>8. sPc' \in Returned
  BY <1>1 DEF Returned
<1> QED
  BY <1>1, <1>4, <1>6, <1>7, <1>8, ServerGone

\* iperf_got_sigend in the server.
LEMMA ServerSigendKeeps ==
  ASSUME ControlInv, server_sigend
  PROVE  ControlInv'
<1>1. /\ sPc' = "failed" /\ sErr' = "IESERVERTERM" /\ sShut' = TRUE /\ sCtrl' = NoClient
      /\ backlog' = <<>> /\ sState' \in {sState, "SERVER_TERMINATE"}
      /\ sThread' = [i \in Streams |-> IF sThread[i] = "none" THEN "none" ELSE "exited"]
      /\ sEnd' = [d \in Clients |-> IF sEnd[d] = "none" THEN "none" ELSE "closed"]
      /\ UNCHANGED clientVars /\ UNCHANGED lost /\ UNCHANGED c2s
      /\ UNCHANGED <<sRec, sSend, sFreed, sTimer>>
      /\ sDone' = (sDone \/ sState = "TEST_RUNNING")
  BY DEF server_sigend
<1>2. \/ s2c' = s2c
      \/ /\ sCtrl # NoClient
         /\ \E out \in {Append(s2c[sCtrl], "SERVER_TERMINATE"), <<>>} : s2c' = Set(s2c, sCtrl, out)
  BY DEF server_sigend, AfterClose
<1>3. TypeOK /\ ServerInv
  BY DEF ControlInv
<1>4. /\ s2c' \in [Clients -> Seq(Messages)]
      /\ \A d \in Clients : \/ s2c'[d] \in {s2c[d], <<>>}
                            \/ sCtrl = d /\ s2c'[d] = Append(s2c[d], "SERVER_TERMINATE")
  <2>1. s2c \in [Clients -> Seq(Messages)] /\ sCtrl \in Clients \cup {NoClient}
    BY <1>3 DEF TypeOK
  <2>2. CASE s2c' = s2c
    BY <2>1, <2>2
  <2>3. CASE /\ sCtrl # NoClient
             /\ \E out \in {Append(s2c[sCtrl], "SERVER_TERMINATE"), <<>>} :
                  s2c' = Set(s2c, sCtrl, out)
    <3>1. sCtrl \in Clients
      BY <2>1, <2>3
    <3>2. Append(s2c[sCtrl], "SERVER_TERMINATE") \in Seq(Messages) /\ <<>> \in Seq(Messages)
      BY <1>3, <3>1, Queues, Names
    <3> QED
      BY <2>1, <2>3, <3>1, <3>2 DEF Set
  <2> QED
    BY <1>2, <2>2, <2>3
<1>5. sDone' \in BOOLEAN
  BY <1>1, Zenon
<1>6. sThread' \in [Streams -> ThreadStates]
  BY <1>1 DEF ThreadStates
<1>7. ServerTypes'
  <2>1. ServerTypes /\ <<>> \in Seq(Clients \X {"ctrl", "stream"})
    BY <1>3 DEF TypeOK, ServerTypes
  <2>2. sPc' \in ServerPcs /\ sErr' \in Errors /\ sState' \in States
    BY <1>1, <2>1, Names DEF ServerTypes, ServerPcs, Errors
  <2> QED
    BY <1>1, <1>5, <1>6, <2>1, <2>2 DEF ServerTypes
<1>8. ServerInv'
  BY <1>1, <1>3 DEF ServerInv, Idle
<1>9. sPc' \in Returned /\ (sState \in FinalStates => sState' \in FinalStates)
  BY <1>1 DEF Returned, FinalStates
<1> QED
  BY <1>1, <1>4, <1>7, <1>8, <1>9, ServerGone

\* The steps that need a client.
LEMMA ServedSteps ==
  ASSUME ControlInv,
         \/ server_get_parameters \/ server_accept_stream \/ server_test_end
         \/ server_get_results \/ server_other_message \/ server_ctrl_closed
         \/ server_rcv_timeout \/ server_timer_proc
  PROVE  sCtrl \in Clients
<1>1. ServerInv /\ sCtrl \in Clients \cup {NoClient}
  BY DEF ControlInv, TypeOK
<1>2. \/ sPc \in {"params", "results"}
      \/ sCtrl # NoClient
      \/ sPc = "select" /\ sTimer = "due"
      \/ sPc = "select" /\ ~sFreed /\ sState = "CREATE_STREAMS"
  BY DEF server_get_parameters, server_accept_stream, server_test_end, server_get_results,
         server_other_message, server_ctrl_closed, server_rcv_timeout, server_timer_proc,
         Selecting
<1> QED
  BY <1>1, <1>2 DEF ServerInv, Idle

\* Every step preserves the invariant.
LEMMA StepKeeps ==
  ASSUME ControlInv, Next
  PROVE  ControlInv'
<1>1. CASE \E c \in Clients : ClientStep(c)
  BY <1>1, ClientStepKeeps
<1>2. CASE ServerLoop
  <2>1. CASE iperf_server_listen \/ server_select_fails
    BY <2>1, ServerAloneKeeps
  <2>2. CASE iperf_accept
    BY <2>2, AcceptKeeps
  <2>3. CASE iperf_accept_busy \/ server_reject_stream
    BY <2>3, TurnedAwayKeeps
  <2>4. CASE server_get_parameters
    BY <2>4, ServedSteps, GetParametersOf
  <2>5. CASE server_accept_stream
    BY <2>5, ServedSteps, AcceptStreamOf
  <2>6. CASE server_test_end
    BY <2>6, ServedSteps, TestEndOf
  <2>7. CASE server_get_results
    BY <2>7, ServedSteps, ServerGetResultsOf
  <2>8. CASE server_other_message \/ server_ctrl_closed \/ server_rcv_timeout
    BY <2>8, ServedSteps, LeavesLoopOf
  <2>9. CASE server_timer_proc
    BY <2>9, ServedSteps, TimerProcOf
  <2>10. CASE cleanup_server
    BY <2>10, CleanupKeeps
  <2> QED
    BY <1>2, <2>1, <2>2, <2>3, <2>4, <2>5, <2>6, <2>7, <2>8, <2>9, <2>10 DEF ServerLoop
<1>3. CASE server_clock \/ server_stopTest \/ \E i \in Streams : server_worker(i)
  BY <1>3, ServerAloneKeeps
<1>4. CASE server_sigend
  BY <1>4, ServerSigendKeeps
<1>5. CASE Quiet
  <2>1. UNCHANGED <<clientVars, serverVars, netVars>>
    BY <1>5 DEF Quiet, vars
  <2>2. UNCHANGED clientVars /\ UNCHANGED netVars /\ UNCHANGED serverVars
    BY <2>1
  <2>3. ServerTypes' /\ ServerInv' /\ (Idle' <=> Idle)
    BY <2>2 DEF ControlInv, TypeOK, ServerTypes, ServerInv, Idle, AllAccepted, serverVars, netVars
  <2>4. UNCHANGED <<sCtrl, sPc, sState, sFreed>>
    BY <2>2 DEF serverVars
  <2> QED
    BY <2>2, <2>3, <2>4, ServerAlone
<1> QED
  BY <1>1, <1>2, <1>3, <1>4, <1>5 DEF Next, Environment, ClientStep

\* The initial states satisfy the invariant.
LEMMA InitControlInv ==
  Init => ControlInv
<1> SUFFICES ASSUME Init
             PROVE  ControlInv
  OBVIOUS
<1>1. AllStreams \in Nat /\ streams_to_rec \in Nat /\ streams_to_send \in Nat
  BY Counts
<1>2. TypeOK
  <2>1. ClientTypes
    <3>1. /\ cPc \in [Clients -> ClientPcs] /\ cState \in [Clients -> States]
          /\ cErr \in [Clients -> Errors] /\ cMade \in [Clients -> 0 .. AllStreams]
          /\ cThread \in [Clients -> [Streams -> ThreadStates]]
      BY <1>1 DEF Init, ClientPcs, States, Errors, ThreadStates
    <3>2. /\ cDone \in [Clients -> BOOLEAN] /\ lost \in [Clients -> BOOLEAN]
          /\ cTimer \in [Clients -> {"null", "set", "due"}]
          /\ cEnd \in [Clients -> {"none", "open", "closed"}]
          /\ sEnd \in [Clients -> {"none", "queued", "open", "closed"}]
      BY DEF Init
    <3>3. c2s \in [Clients -> Seq(Messages)] /\ s2c \in [Clients -> Seq(Messages)]
      BY DEF Init
    <3> QED
      BY <3>1, <3>2, <3>3 DEF ClientTypes
  <2>2. ServerTypes
    <3>1. sThread \in [Streams -> ThreadStates] /\ backlog \in Seq(Clients \X {"ctrl", "stream"})
      BY DEF Init, ThreadStates
    <3>2. /\ sPc \in ServerPcs /\ sState \in States /\ sErr \in Errors
          /\ sCtrl \in Clients \cup {NoClient} /\ sTimer \in {"null", "set", "due"}
      BY DEF Init, ServerPcs, States, Errors
    <3>3. sRec \in 0 .. streams_to_rec /\ sSend \in 0 .. streams_to_send
      BY <1>1 DEF Init
    <3>4. sDone \in BOOLEAN /\ sFreed \in BOOLEAN /\ sShut \in BOOLEAN
      BY DEF Init
    <3> QED
      BY <3>1, <3>2, <3>3, <3>4 DEF ServerTypes
  <2> QED
    BY <2>1, <2>2 DEF TypeOK, ClientTypes, ServerTypes
<1>3. ServerInv
  BY DEF Init, ServerInv, Idle
<1>4. ASSUME NEW c \in Clients
      PROVE  ClientInv(c) /\ DownInv(c) /\ UpInv(c) /\ ~Served(c)
  <2>1. /\ cPc[c] = "connect" /\ cState[c] = "NONE" /\ cMade[c] = 0 /\ cEnd[c] = "none"
        /\ sEnd[c] = "none" /\ c2s[c] = <<>> /\ s2c[c] = <<>> /\ cErr[c] = "IENONE"
        /\ sCtrl = NoClient /\ c # NoClient
    BY ClientsAssumption DEF Init
  <2>2. ~Alive(c) /\ ~Talks(c) /\ \A R : ~Has(Down, <<>>, R) /\ ~Has(Up, <<>>, R)
    BY <2>1, EmptyQueue DEF Alive, Talks
  <2>3. ClientInv(c)
    BY <2>1, <2>2 DEF ClientInv, Returned
  <2>4. DownInv(c)
    BY <2>1, <2>2 DEF DownInv
  <2>5. UpInv(c)
    BY <2>1, <2>2 DEF UpInv
  <2>6. ~Served(c)
    BY <2>1, <2>2 DEF Served
  <2> QED
    BY <2>3, <2>4, <2>5, <2>6
<1>5. BacklogInv
  BY DEF Init, BacklogInv
<1>6. ServedInv
  BY <1>4 DEF ServedInv
<1> QED
  BY <1>2, <1>3, <1>4, <1>5, <1>6 DEF ControlInv

\* What the client's state may become.
MovesOn(c) ==
  \/ cState'[c] = cState[c]
  \/ cState'[c] \in Failure
  \/ \E n \in 1 .. Len(Order) - 1 : cState[c] = Order[n] /\ cState'[c] = Order[n + 1]

\* One state to the next.
LEMMA NextInOrder ==
  ASSUME NEW c \in Clients, NEW s, NEW t, cState[c] = s, cState'[c] = t,
         \/ s = "NONE" /\ t = "PARAM_EXCHANGE"
         \/ s = "PARAM_EXCHANGE" /\ t = "CREATE_STREAMS"
         \/ s = "CREATE_STREAMS" /\ t = "TEST_START"
         \/ s = "TEST_START" /\ t = "TEST_RUNNING"
         \/ s = "TEST_RUNNING" /\ t = "TEST_END"
         \/ s = "TEST_END" /\ t = "EXCHANGE_RESULTS"
  PROVE  MovesOn(c)
<1>1. /\ Len(Order) - 1 = 6
      /\ Order[1] = "NONE" /\ Order[2] = "PARAM_EXCHANGE" /\ Order[3] = "CREATE_STREAMS"
      /\ Order[4] = "TEST_START" /\ Order[5] = "TEST_RUNNING" /\ Order[6] = "TEST_END"
      /\ Order[7] = "EXCHANGE_RESULTS"
  BY DEF Order
<1>2. \E n \in 1 .. 6 : cState[c] = Order[n] /\ cState'[c] = Order[n + 1]
  <2>1. CASE s = "NONE" /\ t = "PARAM_EXCHANGE"
    <3>1. 1 \in 1 .. 6 /\ 1 + 1 = 2
      OBVIOUS
    <3> QED
      BY <1>1, <2>1, <3>1
  <2>2. CASE s = "PARAM_EXCHANGE" /\ t = "CREATE_STREAMS"
    <3>1. 2 \in 1 .. 6 /\ 2 + 1 = 3
      OBVIOUS
    <3> QED
      BY <1>1, <2>2, <3>1
  <2>3. CASE s = "CREATE_STREAMS" /\ t = "TEST_START"
    <3>1. 3 \in 1 .. 6 /\ 3 + 1 = 4
      OBVIOUS
    <3> QED
      BY <1>1, <2>3, <3>1
  <2>4. CASE s = "TEST_START" /\ t = "TEST_RUNNING"
    <3>1. 4 \in 1 .. 6 /\ 4 + 1 = 5
      OBVIOUS
    <3> QED
      BY <1>1, <2>4, <3>1
  <2>5. CASE s = "TEST_RUNNING" /\ t = "TEST_END"
    <3>1. 5 \in 1 .. 6 /\ 5 + 1 = 6
      OBVIOUS
    <3> QED
      BY <1>1, <2>5, <3>1
  <2>6. CASE s = "TEST_END" /\ t = "EXCHANGE_RESULTS"
    <3>1. 6 \in 1 .. 6 /\ 6 + 1 = 7
      OBVIOUS
    <3> QED
      BY <1>1, <2>6, <3>1
  <2> QED
    BY <2>1, <2>2, <2>3, <2>4, <2>5, <2>6
<1> QED
  BY <1>1, <1>2 DEF MovesOn

\* A step of client c moves c on, or ends its test.
LEMMA ClientMovesOn ==
  ASSUME ControlInv, NEW c \in Clients, ClientStep(c)
  PROVE  MovesOn(c)
<1>1. TypeOK /\ ClientInv(c)
  BY DEF ControlInv
<1>2. CASE client_param_exchange(c)
  <2>1. ClientReads(c, "PARAM_EXCHANGE") /\ cState' = Set(cState, c, "PARAM_EXCHANGE")
    BY <1>2 DEF client_param_exchange
  <2> QED
    BY <1>1, <2>1, ReadsInOrder, At, NextInOrder
<1>3. CASE client_create_streams(c)
  <2>1. ClientReads(c, "CREATE_STREAMS") /\ cState' = Set(cState, c, "CREATE_STREAMS")
    BY <1>3 DEF client_create_streams
  <2> QED
    BY <1>1, <2>1, ReadsInOrder, At, NextInOrder
<1>4. CASE client_test_start(c)
  <2>1. ClientReads(c, "TEST_START") /\ cState' = Set(cState, c, "TEST_START")
    BY <1>4 DEF client_test_start
  <2> QED
    BY <1>1, <2>1, ReadsInOrder, At, NextInOrder
<1>5. CASE client_test_running(c)
  <2>1. ClientReads(c, "TEST_RUNNING") /\ cState' = Set(cState, c, "TEST_RUNNING")
    BY <1>5 DEF client_test_running
  <2> QED
    BY <1>1, <2>1, ReadsInOrder, At, NextInOrder
<1>6. CASE client_exchange_results(c)
  <2>1. ClientReads(c, "EXCHANGE_RESULTS") /\ cState' = Set(cState, c, "EXCHANGE_RESULTS")
    BY <1>6 DEF client_exchange_results
  <2> QED
    BY <1>1, <2>1, ReadsInOrder, At, NextInOrder
<1>7. CASE client_check_done(c)
  <2>1. /\ cPc[c] = "tail" \/ cState[c] = "TEST_RUNNING"
        /\ UNCHANGED cState \/ cState' = Set(cState, c, "TEST_END")
    BY <1>7 DEF client_check_done
  <2>2. cState[c] = "TEST_RUNNING"
    BY <1>1, <2>1 DEF ClientInv
  <2>3. CASE UNCHANGED cState
    BY <2>3 DEF MovesOn
  <2>4. CASE cState' = Set(cState, c, "TEST_END")
    BY <1>1, <2>2, <2>4, At, NextInOrder
  <2> QED
    BY <2>1, <2>3, <2>4
<1>8. CASE client_display_results(c)
  <2>1. ClientReads(c, "DISPLAY_RESULTS") /\ iperf_client_end(c, "DISPLAY_RESULTS")
    BY <1>8 DEF client_display_results
  <2>2. cEnd[c] = "open"
    BY <1>1, <2>1, ReadsInOrder DEF ClientInv
  <2>3. cState' = Set(cState, c, "IPERF_DONE")
    BY <2>1, <2>2 DEF iperf_client_end, Positive
  <2> QED
    BY <1>1, <2>3, At DEF MovesOn, Failure
<1>9. CASE client_cleanup_and_fail(c)
  <2>1. cState' = Set(cState, c, IF cState[c] \in Positive /\ cEnd[c] = "open"
                                 THEN "IPERF_DONE" ELSE cState[c])
    BY <1>9 DEF client_cleanup_and_fail, iperf_client_end
  <2> QED
    BY <1>1, <2>1, At DEF MovesOn, Failure
<1>10. CASE client_sigend(c)
  <2>1. cState' = Set(cState, c, "CLIENT_TERMINATE")
    BY <1>10 DEF client_sigend
  <2> QED
    BY <1>1, <2>1, At DEF MovesOn, Failure
<1>11. CASE client_refused(c)
  <2>1. PICK m \in Messages \ {"PARAM_EXCHANGE", "CREATE_STREAMS", "TEST_START",
                               "TEST_RUNNING", "EXCHANGE_RESULTS", "DISPLAY_RESULTS"} :
          ClientReads(c, m) /\ cState' = Set(cState, c, IF m \in States THEN m ELSE "NONE")
    BY <1>11 DEF client_refused
  <2>2. m \in {"ACCESS_DENIED", "SERVER_ERROR", "SERVER_TERMINATE"}
    BY <2>1, ReadsInOrder
  <2>3. cState' = Set(cState, c, m)
    BY <2>1, <2>2, Names
  <2> QED
    BY <1>1, <2>2, <2>3, At DEF MovesOn, Failure
<1>12. CASE \/ iperf_connect(c) \/ iperf_create_streams(c) \/ client_rcv_timeout(c)
            \/ client_get_results(c) \/ client_ctrl_closed(c) \/ client_join(c)
            \/ client_clock(c) \/ lose(c) \/ client_stopTest(c)
            \/ \E i \in Streams : client_worker(c, i)
  <2>1. UNCHANGED cState
    BY <1>12 DEF iperf_connect, iperf_create_streams, client_rcv_timeout, client_get_results,
                 client_ctrl_closed, client_join, client_clock, lose, client_stopTest,
                 client_worker, clientVars
  <2> QED
    BY <2>1 DEF MovesOn
<1> QED
  BY <1>2, <1>3, <1>4, <1>5, <1>6, <1>7, <1>8, <1>9, <1>10, <1>11, <1>12
  DEF ClientStep, ClientLoop

\* The steps of the server leave the clients' states alone.
LEMMA ServerLeavesState ==
  ASSUME Next, ~\E c \in Clients : ClientStep(c)
  PROVE  UNCHANGED cState
<1>1. CASE ServerLoop
  <2>1. UNCHANGED clientVars
    BY <1>1 DEF ServerLoop, iperf_server_listen, iperf_accept, iperf_accept_busy,
       server_get_parameters, server_accept_stream, server_reject_stream, server_test_end,
       server_get_results, server_other_message, server_ctrl_closed, server_rcv_timeout,
       server_timer_proc, server_select_fails, cleanup_server
  <2> QED
    BY <2>1 DEF clientVars
<1>2. CASE server_clock \/ server_stopTest \/ server_sigend \/ \E i \in Streams : server_worker(i)
  <2>1. UNCHANGED clientVars
    BY <1>2 DEF server_clock, server_stopTest, server_sigend, server_worker
  <2> QED
    BY <2>1 DEF clientVars
<1>3. CASE Quiet
  BY <1>3 DEF Quiet, vars, clientVars
<1> QED
  BY <1>1, <1>2, <1>3 DEF Next, Environment, ClientStep

\* Every step moves every client on.
LEMMA StepInOrder ==
  ASSUME ControlInv, Next
  PROVE  \A c \in Clients : MovesOn(c)
<1>1. CASE \E c \in Clients : ClientStep(c)
  <2> PICK c \in Clients : ClientStep(c)
    BY <1>1
  <2>1. MovesOn(c)
    BY ClientMovesOn
  <2>2. \A d \in Clients : d # c => cState'[d] = cState[d]
    BY ClientMoves, MovesFrame DEF ControlInv, Same
  <2> QED
    BY <2>1, <2>2 DEF MovesOn
<1>2. CASE ~\E c \in Clients : ClientStep(c)
  <2>1. UNCHANGED cState
    BY <1>2, ServerLeavesState
  <2> QED
    BY <2>1 DEF MovesOn
<1> QED
  BY <1>1, <1>2

-----------------------------------------------------------------------------
(* The streams, counted.                                                   *)

\* The places of an accept queue in which a stream of c waits.
Waiting(q, c) == {n \in 1 .. Len(q) : q[n] = <<c, "stream">>}

\* A client that makes streams, has made some, or is about to be told to.
Makes(c) ==
  \/ sCtrl = c
  \/ cMade[c] > 0
  \/ cPc[c] = "streams"
  \/ Has(Down, s2c[c], {2, 3})

\* Told that all its streams are there.
Told == {"TEST_START", "TEST_RUNNING", "TEST_END"}

\* The streams accepted and those that wait are among those the client has made, and
\* TEST_START is sent when all have been accepted.
StreamsInv ==
  /\ \A c \in Clients :
       Makes(c) => sRec + sSend + Cardinality(Waiting(backlog, c)) <= cMade[c]
  /\ \A c \in Clients : Has(Down, s2c[c], {3}) => AllAccepted(sRec, sSend)
  /\ \A c \in Clients :
       cState[c] \in Told =>
         cMade[c] = AllStreams /\ AllAccepted(sRec, sSend) /\ Waiting(backlog, c) = {}

Connections == Clients \X {"ctrl", "stream"}

\* A queue holds finitely many streams, and none if it counts none.
LEMMA WaitingIsFinite ==
  ASSUME NEW q \in Seq(Connections), NEW c
  PROVE  /\ IsFiniteSet(Waiting(q, c))
         /\ Cardinality(Waiting(q, c)) \in Nat
         /\ Cardinality(Waiting(q, c)) = 0 <=> Waiting(q, c) = {}
<1>1. Len(q) \in Nat
  BY LenProperties
<1>2. IsFiniteSet(1 .. Len(q))
  BY <1>1, FS_Interval
<1>3. Waiting(q, c) \in SUBSET (1 .. Len(q))
  BY DEF Waiting
<1>4. IsFiniteSet(Waiting(q, c))
  BY <1>2, <1>3, FS_Subset
<1> QED
  BY <1>4, FS_CardinalityType, FS_EmptySet

\* A connection is added at the end.
LEMMA WaitingAppend ==
  ASSUME NEW q \in Seq(Connections), NEW x \in Connections, NEW c
  PROVE  Cardinality(Waiting(Append(q, x), c)) =
           Cardinality(Waiting(q, c)) + (IF x = <<c, "stream">> THEN 1 ELSE 0)
<1>1. /\ Len(q) \in Nat /\ Len(Append(q, x)) = Len(q) + 1
      /\ \A n \in 1 .. Len(q) : Append(q, x)[n] = q[n]
      /\ Append(q, x)[Len(q) + 1] = x
  BY AppendProperties, LenProperties
<1>2. CASE x = <<c, "stream">>
  <2>1. Waiting(Append(q, x), c) = Waiting(q, c) \cup {Len(q) + 1}
    BY <1>1, <1>2 DEF Waiting
  <2>2. Len(q) + 1 \notin Waiting(q, c)
    BY <1>1 DEF Waiting
  <2> QED
    BY <1>2, <2>1, <2>2, WaitingIsFinite, FS_AddElement
<1>3. CASE x # <<c, "stream">>
  <2>1. ASSUME NEW n
        PROVE  n \in 1 .. Len(Append(q, x)) /\ Append(q, x)[n] = <<c, "stream">>
                 <=> n \in 1 .. Len(q) /\ q[n] = <<c, "stream">>
    <3>1. n \in 1 .. Len(Append(q, x)) <=> n \in 1 .. Len(q) \/ n = Len(q) + 1
      BY <1>1
    <3> QED
      BY <1>1, <1>3, <3>1
  <2>2. Waiting(Append(q, x), c) = Waiting(q, c)
    BY <2>1 DEF Waiting
  <2> QED
    BY <1>3, <2>2, WaitingIsFinite
<1> QED
  BY <1>2, <1>3

\* The first connection is taken: the places of the others move up by one.
LEMMA WaitingTail ==
  ASSUME NEW q \in Seq(Connections), NEW c, q # <<>>
  PROVE  Cardinality(Waiting(q, c)) =
           Cardinality(Waiting(Tail(q), c)) + (IF Head(q) = <<c, "stream">> THEN 1 ELSE 0)
<1>1. /\ Len(q) \in Nat \ {0} /\ Tail(q) \in Seq(Connections) /\ Len(Tail(q)) = Len(q) - 1
      /\ \A n \in 1 .. Len(Tail(q)) : Tail(q)[n] = q[n + 1]
      /\ Head(q) = q[1]
  BY HeadTailProperties, EmptySeq
<1> DEFINE rest == Waiting(q, c) \ {1}
           f == [n \in Waiting(Tail(q), c) |-> n + 1]
<1>2. f \in Bijection(Waiting(Tail(q), c), rest)
  <2>1. ASSUME NEW n \in Waiting(Tail(q), c) PROVE f[n] \in rest
    BY <1>1, <2>1 DEF Waiting
  <2>2. \A m, n \in Waiting(Tail(q), c) : f[m] = f[n] => m = n
    BY DEF Waiting
  <2>3. ASSUME NEW k \in rest PROVE \E n \in Waiting(Tail(q), c) : f[n] = k
    <3>1. k \in 2 .. Len(q) /\ q[k] = <<c, "stream">>
      BY <1>1, <2>3 DEF Waiting
    <3>2. k - 1 \in 1 .. Len(Tail(q)) /\ k - 1 + 1 = k
      BY <1>1, <3>1
    <3>3. k - 1 \in Waiting(Tail(q), c)
      BY <1>1, <3>1, <3>2 DEF Waiting
    <3> QED
      BY <3>2, <3>3
  <2>4. f \in [Waiting(Tail(q), c) -> rest]
    BY <2>1
  <2> HIDE DEF f, rest
  <2> QED
    BY <2>2, <2>3, <2>4 DEF Bijection, Injection, Surjection, IsInjective
<1>3. Cardinality(rest) = Cardinality(Waiting(Tail(q), c))
  <2>1. ExistsBijection(Waiting(Tail(q), c), rest)
    BY <1>2 DEF ExistsBijection
  <2> QED
    BY <1>1, <2>1, WaitingIsFinite, FS_Bijection
<1>4. Cardinality(rest) =
        IF 1 \in Waiting(q, c) THEN Cardinality(Waiting(q, c)) - 1 ELSE Cardinality(Waiting(q, c))
  BY WaitingIsFinite, FS_RemoveElement
<1>5. 1 \in Waiting(q, c) <=> Head(q) = <<c, "stream">>
  BY <1>1 DEF Waiting
<1>6. Cardinality(Waiting(q, c)) \in Nat
  BY WaitingIsFinite
<1> HIDE DEF rest
<1> QED
  BY <1>3, <1>4, <1>5, <1>6

\* A queue of control connections.
LEMMA NoneWaiting ==
  ASSUME NEW q \in Seq(Connections), \A n \in 1 .. Len(q) : q[n][2] = "ctrl"
  PROVE  \A c : Waiting(q, c) = {}
BY DEF Waiting

-----------------------------------------------------------------------------
(* What the steps do to the streams.                                       *)

\* A client that reads has had the message in its queue.
LEMMA ReadsWhatIsThere ==
  ASSUME ControlInv, NEW c \in Clients, NEW m, ClientReads(c, m)
  PROVE  /\ \A R : Down[m] \in R => Has(Down, s2c[c], R)
         /\ \A R : Has(Down, s2c'[c], R) => Has(Down, s2c[c], R)
<1>1. /\ s2c[c] \in Seq(Messages) /\ 0 \in Int /\ s2c[c] # <<>> /\ m = Head(s2c[c])
      /\ s2c'[c] = Tail(s2c[c])
  BY ReadsInOrder DEF ControlInv, TypeOK, ClientReads
<1>2. /\ \A R : Has(Down, Tail(s2c[c]), R) => Has(Down, s2c[c], R)
      /\ \A R : Down[Head(s2c[c])] \in R => Has(Down, s2c[c], R)
  BY <1>1, HeadOfQueue
<1> QED
  BY <1>1, <1>2

\* The effect of a step of client c on its streams.
ClientEffect(c) ==
  /\ \A R : Has(Down, s2c'[c], R) => Has(Down, s2c[c], R)
  /\ cPc'[c] = "streams" => cPc[c] = "streams" \/ Has(Down, s2c[c], {2})
  /\ cState'[c] \in Told => cState[c] \in Told \/ Has(Down, s2c[c], {3})
  /\ \/ cMade' = cMade /\ backlog' \in {backlog, Append(backlog, <<c, "ctrl">>)}
     \/ /\ cPc[c] = "streams" /\ cState' = cState
        /\ cMade' = Set(cMade, c, cMade[c] + 1)
        /\ backlog' = Append(backlog, <<c, "stream">>)

LEMMA ClientStreams ==
  ASSUME ControlInv, NEW c \in Clients, ClientStep(c)
  PROVE  ClientEffect(c)
<1>1. TypeOK /\ ClientInv(c)
  BY DEF ControlInv
<1>2. \A v : Set(cPc, c, v)[c] = v /\ Set(cState, c, v)[c] = v
  BY <1>1, At
<1>3. Down["CREATE_STREAMS"] = 2 /\ Down["TEST_START"] = 3
  BY DEF Down, Messages, States, Positive
<1>4. CASE client_create_streams(c)
  <2>1. /\ ClientReads(c, "CREATE_STREAMS") /\ cState'[c] = "CREATE_STREAMS"
        /\ UNCHANGED <<cMade, backlog>>
    BY <1>2, <1>4 DEF client_create_streams
  <2> QED
    BY <1>3, <2>1, ReadsWhatIsThere DEF ClientEffect, Told
<1>5. CASE client_test_start(c)
  <2>1. /\ ClientReads(c, "TEST_START") /\ UNCHANGED <<cPc, cMade, backlog>>
    BY <1>5 DEF client_test_start
  <2> QED
    BY <1>3, <2>1, ReadsWhatIsThere DEF ClientEffect
<1>6. CASE client_param_exchange(c)
  <2>1. /\ ClientReads(c, "PARAM_EXCHANGE") /\ cState'[c] = "PARAM_EXCHANGE"
        /\ cPc' = cPc \/ cPc'[c] = "fail"
        /\ UNCHANGED <<cMade, backlog>>
    BY <1>2, <1>6 DEF client_param_exchange, ClientFails
  <2> QED
    BY <2>1, ReadsWhatIsThere DEF ClientEffect, Told
<1>7. CASE client_test_running(c)
  <2>1. /\ ClientReads(c, "TEST_RUNNING") /\ cPc'[c] \in {"tail", "fail"}
        /\ UNCHANGED <<cMade, backlog>>
    BY <1>2, <1>7 DEF client_test_running, ClientFails
  <2>2. cState[c] = "TEST_START"
    BY <2>1, ReadsInOrder
  <2> QED
    BY <2>1, <2>2, ReadsWhatIsThere DEF ClientEffect, Told
<1>8. CASE client_exchange_results(c)
  <2>1. /\ ClientReads(c, "EXCHANGE_RESULTS") /\ cState'[c] = "EXCHANGE_RESULTS"
        /\ cPc'[c] \in {"results", "fail"}
        /\ UNCHANGED <<cMade, backlog>>
    BY <1>2, <1>8 DEF client_exchange_results, ClientFails
  <2> QED
    BY <2>1, ReadsWhatIsThere DEF ClientEffect, Told
<1>9. CASE client_display_results(c)
  <2>1. /\ ClientReads(c, "DISPLAY_RESULTS") /\ cPc'[c] = "join"
        /\ cState'[c] \in {"IPERF_DONE", "DISPLAY_RESULTS"}
        /\ UNCHANGED <<cMade, backlog>>
    BY <1>2, <1>9 DEF client_display_results, iperf_client_end
  <2> QED
    BY <2>1, ReadsWhatIsThere DEF ClientEffect, Told
<1>10. CASE client_refused(c)
  <2>1. PICK m \in Messages \ {"PARAM_EXCHANGE", "CREATE_STREAMS", "TEST_START",
                               "TEST_RUNNING", "EXCHANGE_RESULTS", "DISPLAY_RESULTS"} :
          /\ ClientReads(c, m) /\ cState' = Set(cState, c, IF m \in States THEN m ELSE "NONE")
          /\ cPc' = Set(cPc, c, "fail")
          /\ UNCHANGED <<cMade, backlog>>
    BY <1>10 DEF client_refused, ClientFails
  <2>2. m \in {"ACCESS_DENIED", "SERVER_ERROR", "SERVER_TERMINATE"}
    BY <2>1, ReadsInOrder
  <2>3. cState'[c] \in {m, "NONE"} /\ cPc'[c] = "fail"
    BY <1>2, <2>1
  <2> QED
    BY <2>1, <2>2, <2>3, ReadsWhatIsThere DEF ClientEffect, Told
<1>11. CASE client_get_results(c)
  <2>1. /\ cPc'[c] \in {"select", "fail"} /\ UNCHANGED <<cState, cMade, backlog>>
        /\ s2c' = s2c \/ (s2c[c] # <<>> /\ s2c' = Set(s2c, c, Tail(s2c[c])))
    BY <1>2, <1>11 DEF client_get_results, ClientFails
  <2>2. s2c' = Set(s2c, c, Tail(s2c[c])) => s2c'[c] = Tail(s2c[c])
    BY <1>1, At
  <2>3. s2c[c] \in Seq(Messages) /\ 0 \in Int
    BY <1>1 DEF TypeOK
  <2>4. s2c[c] # <<>> => \A R : Has(Down, Tail(s2c[c]), R) => Has(Down, s2c[c], R)
    BY <2>3, HeadOfQueue
  <2>5. \A R : Has(Down, s2c'[c], R) => Has(Down, s2c[c], R)
    BY <2>1, <2>2, <2>4
  <2> QED
    BY <2>1, <2>5 DEF ClientEffect
<1>12. CASE iperf_connect(c)
  <2>1. /\ cPc'[c] \in {"select", "fail"} /\ UNCHANGED <<cState, cMade, s2c>>
        /\ backlog' \in {backlog, Append(backlog, <<c, "ctrl">>)}
    BY <1>2, <1>12 DEF iperf_connect, ClientFails
  <2> QED
    BY <2>1 DEF ClientEffect
<1>13. CASE iperf_create_streams(c)
  <2>1. /\ cPc[c] = "streams" /\ UNCHANGED <<cState, s2c>>
        /\ \/ UNCHANGED <<cMade, backlog>>
           \/ /\ cMade' = Set(cMade, c, cMade[c] + 1)
              /\ backlog' = Append(backlog, <<c, "stream">>)
    BY <1>13 DEF iperf_create_streams
  <2> QED
    BY <2>1 DEF ClientEffect
<1>14. CASE client_check_done(c)
  <2>1. /\ cPc[c] = "tail" \/ cState[c] = "TEST_RUNNING"
        /\ UNCHANGED <<s2c, cMade, backlog>>
        /\ cPc'[c] \in {"select", "fail"}
    BY <1>2, <1>14 DEF client_check_done, ClientFails
  <2>2. cState[c] = "TEST_RUNNING"
    BY <1>1, <2>1 DEF ClientInv
  <2> QED
    BY <2>1, <2>2 DEF ClientEffect, Told
<1>15. CASE client_cleanup_and_fail(c)
  <2>1. /\ cPc'[c] = "failed" /\ cState'[c] \in {cState[c], "IPERF_DONE"}
        /\ UNCHANGED <<s2c, cMade, backlog>>
    BY <1>2, <1>15 DEF client_cleanup_and_fail, iperf_client_end
  <2> QED
    BY <2>1 DEF ClientEffect, Told
<1>16. CASE client_sigend(c)
  <2>1. /\ cPc'[c] = "failed" /\ cState'[c] = "CLIENT_TERMINATE"
        /\ UNCHANGED <<s2c, cMade, backlog>>
    BY <1>2, <1>16 DEF client_sigend
  <2> QED
    BY <2>1 DEF ClientEffect, Told
<1>17. CASE client_rcv_timeout(c) \/ client_ctrl_closed(c) \/ client_join(c)
  <2>1. cPc'[c] \in {"fail", "finished"} /\ UNCHANGED <<cState, s2c, cMade, backlog>>
    BY <1>2, <1>17 DEF client_rcv_timeout, client_ctrl_closed, client_join, ClientFails, netVars
  <2> QED
    BY <2>1 DEF ClientEffect
<1>18. CASE \/ client_clock(c) \/ lose(c) \/ client_stopTest(c)
            \/ \E i \in Streams : client_worker(c, i)
  <2>1. UNCHANGED <<cPc, cState, s2c, cMade, backlog>>
    BY <1>18 DEF client_clock, lose, client_stopTest, client_worker, clientVars, netVars
  <2> QED
    BY <2>1 DEF ClientEffect
<1> QED
  BY <1>4, <1>5, <1>6, <1>7, <1>8, <1>9, <1>10, <1>11, <1>12, <1>13, <1>14, <1>15, <1>16,
     <1>17, <1>18
  DEF ClientStep, ClientLoop

\* All accepted means as many as the client can have made.
LEMMA AllOfThem ==
  ASSUME ControlInv, NEW c \in Clients, AllAccepted(sRec, sSend),
         sRec + sSend + Cardinality(Waiting(backlog, c)) <= cMade[c]
  PROVE  cMade[c] = AllStreams /\ Waiting(backlog, c) = {}
<1>1. backlog \in Seq(Connections) /\ cMade[c] \in 0 .. AllStreams
  BY DEF ControlInv, TypeOK, Connections
<1>2. /\ Cardinality(Waiting(backlog, c)) \in Nat
      /\ Cardinality(Waiting(backlog, c)) = 0 <=> Waiting(backlog, c) = {}
  BY <1>1, WaitingIsFinite
<1>3. sRec + sSend = AllStreams
  BY Counts DEF AllAccepted
<1> QED
  BY <1>1, <1>2, <1>3, Counts

\* A step of client c.
LEMMA ClientKeepsStreams ==
  ASSUME ControlInv, StreamsInv, NEW c \in Clients, ClientStep(c)
  PROVE  StreamsInv'
<1>1. /\ Moves(c) /\ ClientEffect(c)
  BY ClientMoves, ClientStreams
<1>2. \A d \in Clients : d # c => Same(d)
  BY <1>1, MovesFrame DEF ControlInv
<1>3. UNCHANGED <<sRec, sSend, sCtrl>>
  BY <1>1 DEF Moves, serverVars
<1>4. /\ backlog \in Seq(Connections) /\ <<c, "ctrl">> \in Connections
      /\ <<c, "stream">> \in Connections
      /\ cMade[c] \in Nat /\ sRec \in Nat /\ sSend \in Nat
  BY Counts DEF ControlInv, TypeOK, Connections
<1>5. \A d \in Clients : Cardinality(Waiting(backlog, d)) \in Nat
  BY <1>4, WaitingIsFinite
<1>6. ASSUME NEW d \in Clients, d # c \/ cMade' = cMade
      PROVE  /\ Cardinality(Waiting(backlog', d)) = Cardinality(Waiting(backlog, d))
             /\ cMade'[d] = cMade[d]
  <2>1. cMade'[d] = cMade[d]
    BY <1>2, <1>6 DEF Same
  <2>2. \/ backlog' = backlog
        \/ backlog' = Append(backlog, <<c, "ctrl">>)
        \/ d # c /\ backlog' = Append(backlog, <<c, "stream">>)
    <3>1. cMade' = Set(cMade, c, cMade[c] + 1) => cMade'[c] = cMade[c] + 1
      BY At DEF ControlInv
    <3>2. cMade[c] + 1 # cMade[c]
      BY <1>4
    <3> QED
      BY <1>1, <1>6, <3>1, <3>2 DEF ClientEffect
  <2>3. <<c, "ctrl">> # <<d, "stream">> /\ (d # c => <<c, "stream">> # <<d, "stream">>)
    OBVIOUS
  <2>4. CASE backlog' = backlog
    BY <2>1, <2>4
  <2>5. CASE backlog' = Append(backlog, <<c, "ctrl">>)
    BY <1>4, <1>5, <2>1, <2>3, <2>5, WaitingAppend
  <2>6. CASE d # c /\ backlog' = Append(backlog, <<c, "stream">>)
    BY <1>4, <1>5, <2>1, <2>3, <2>6, WaitingAppend
  <2> QED
    BY <2>2, <2>4, <2>5, <2>6
<1>7. ASSUME NEW d \in Clients
      PROVE  /\ \A R : Has(Down, s2c'[d], R) => Has(Down, s2c[d], R)
             /\ Makes(d)' => Makes(d)
             /\ Makes(d) =>
                  sRec' + sSend' + Cardinality(Waiting(backlog', d)) <= cMade'[d]
  <2>1. \A R : Has(Down, s2c'[d], R) => Has(Down, s2c[d], R)
    BY <1>1, <1>2 DEF ClientEffect, Same
  <2>2. CASE d # c \/ cMade' = cMade
    <3>1. cPc'[d] = "streams" => cPc[d] = "streams" \/ Has(Down, s2c[d], {2})
      BY <1>1, <1>2 DEF ClientEffect, Same
    <3>2. Has(Down, s2c[d], {2}) => Has(Down, s2c[d], {2, 3})
      BY DEF Has
    <3>3. Makes(d)' => Makes(d)
      BY <1>3, <1>6, <2>1, <2>2, <3>1, <3>2 DEF Makes
    <3> QED
      BY <1>3, <1>6, <2>1, <2>2, <3>3 DEF StreamsInv
  <2>3. CASE d = c /\ cMade' # cMade
    <3>1. /\ cPc[c] = "streams" /\ cMade'[c] = cMade[c] + 1
          /\ backlog' = Append(backlog, <<c, "stream">>)
      BY <1>1, <2>3, At DEF ClientEffect, ControlInv
    <3>2. Cardinality(Waiting(backlog', c)) = Cardinality(Waiting(backlog, c)) + 1
      BY <1>4, <3>1, WaitingAppend
    <3>3. Makes(c) => sRec + sSend + Cardinality(Waiting(backlog, c)) <= cMade[c]
      BY DEF StreamsInv
    <3>4. Makes(c)
      BY <3>1 DEF Makes
    <3> QED
      BY <1>3, <1>4, <1>5, <2>1, <2>3, <3>1, <3>2, <3>3, <3>4
  <2> QED
    BY <2>2, <2>3
<1>8. ASSUME NEW d \in Clients, cState'[d] \in Told
      PROVE  cMade'[d] = AllStreams /\ AllAccepted(sRec', sSend') /\ Waiting(backlog', d) = {}
  <2>1. cMade[d] = AllStreams /\ AllAccepted(sRec, sSend) /\ Waiting(backlog, d) = {}
    <3>1. CASE cState[d] \in Told
      BY <3>1 DEF StreamsInv
    <3>2. CASE cState[d] \notin Told
      <4>1. Has(Down, s2c[d], {3})
        BY <1>1, <1>2, <1>8, <3>2 DEF ClientEffect, Same
      <4>2. Has(Down, s2c[d], {2, 3})
        BY <4>1 DEF Has
      <4> QED
        BY <4>1, <4>2, AllOfThem DEF StreamsInv, Makes
    <3> QED
      BY <3>1, <3>2
  <2>2. d # c \/ cMade' = cMade
    <3>1. cMade' # cMade => cPc[c] = "streams" /\ cState' = cState
      BY <1>1 DEF ClientEffect
    <3>2. cPc[c] = "streams" => cState[c] = "CREATE_STREAMS"
      BY DEF ControlInv, ClientInv
    <3> QED
      BY <1>8, <3>1, <3>2 DEF Told
  <2>3. Cardinality(Waiting(backlog', d)) = 0
    BY <1>4, <1>6, <2>1, <2>2, WaitingIsFinite
  <2>4. backlog' \in Seq(Connections)
    <3>1. \/ backlog' = backlog
          \/ backlog' = Append(backlog, <<c, "ctrl">>)
          \/ backlog' = Append(backlog, <<c, "stream">>)
      BY <1>1 DEF ClientEffect
    <3>2. \A x \in Connections : Append(backlog, x) \in Seq(Connections)
      BY <1>4, AppendProperties
    <3> QED
      BY <1>4, <3>1, <3>2
  <2> QED
    BY <1>3, <1>6, <2>1, <2>2, <2>3, <2>4, WaitingIsFinite
<1>9. \A d \in Clients : Has(Down, s2c[d], {3}) => AllAccepted(sRec, sSend)
  BY DEF StreamsInv
<1> QED
  BY <1>3, <1>7, <1>8, <1>9 DEF StreamsInv

\* The server writes to client c, or cuts what it has written.
LEMMA WrittenOne ==
  ASSUME TypeOK, NEW c \in Clients, NEW m \in Messages,
         s2c' \in {s2c, Set(s2c, c, s2c[c] \o <<m>>), Set(s2c, c, Append(s2c[c], m)),
                  Set(s2c, c, <<>>)}
  PROVE  /\ \A d \in Clients : d # c => s2c'[d] = s2c[d]
         /\ \A R : Has(Down, s2c'[c], R) => Has(Down, s2c[c], R) \/ Down[m] \in R
<1>1. s2c \in [Clients -> Seq(Messages)] /\ s2c[c] \in Seq(Messages) /\ 0 \in Int
  BY DEF TypeOK
<1>2. /\ s2c[c] \o <<m>> = Append(s2c[c], m)
      /\ \A R : Has(Down, Append(s2c[c], m), R) => Has(Down, s2c[c], R) \/ Down[m] \in R
  BY <1>1, AppendToQueue
<1>3. \A R : ~Has(Down, <<>>, R)
  BY EmptyQueue
<1>4. \A v : Set(s2c, c, v)[c] = v /\ \A d \in Clients : d # c => Set(s2c, c, v)[d] = s2c[d]
  BY <1>1 DEF Set
<1>5. s2c'[c] \in {s2c[c], Append(s2c[c], m), <<>>} /\ \A d \in Clients : d # c => s2c'[d] = s2c[d]
  BY <1>2, <1>4
<1> QED
  BY <1>2, <1>3, <1>5

\* What the server does but accept streams: no stream is counted, TEST_START is not
\* sent, and only the client it talks to may be told to make streams.
ServerEffect ==
  /\ UNCHANGED <<cPc, cState, cMade, sRec, sSend>>
  /\ backlog' \in {backlog, <<>>} \/ (backlog # <<>> /\ backlog' = Tail(backlog))
  /\ \A d \in Clients : Has(Down, s2c'[d], {3}) => Has(Down, s2c[d], {3})
  /\ \/ Idle
     \/ /\ sCtrl' \in {sCtrl, NoClient}
        /\ \A d \in Clients : Has(Down, s2c'[d], {2, 3}) => Has(Down, s2c[d], {2, 3}) \/ sCtrl = d

LEMMA WritesEffect ==
  ASSUME ControlInv, NEW c \in Clients, NEW m \in Messages, Down[m] # 3,
         Idle \/ Down[m] # 2 \/ sCtrl = c,
         Idle \/ sCtrl' \in {sCtrl, NoClient},
         s2c' \in {s2c, Set(s2c, c, s2c[c] \o <<m>>), Set(s2c, c, Append(s2c[c], m)),
                  Set(s2c, c, <<>>)},
         UNCHANGED <<cPc, cState, cMade, sRec, sSend>>,
         backlog' \in {backlog, <<>>} \/ (backlog # <<>> /\ backlog' = Tail(backlog))
  PROVE  ServerEffect
<1>1. /\ \A d \in Clients : d # c => s2c'[d] = s2c[d]
      /\ \A R : Has(Down, s2c'[c], R) => Has(Down, s2c[c], R) \/ Down[m] \in R
  BY WrittenOne DEF ControlInv
<1>2. \A d \in Clients : Has(Down, s2c'[d], {3}) => Has(Down, s2c[d], {3})
  BY <1>1
<1>3. \A d \in Clients :
        Has(Down, s2c'[d], {2, 3}) => Has(Down, s2c[d], {2, 3}) \/ (d = c /\ Down[m] = 2)
  BY <1>1
<1> QED
  BY <1>2, <1>3 DEF ServerEffect

\* Their places in the script.
LEMMA PlacesOf ==
  /\ {"PARAM_EXCHANGE", "CREATE_STREAMS", "SERVER_ERROR", "ACCESS_DENIED", "EXCHANGE_RESULTS",
      "results", "DISPLAY_RESULTS", "SERVER_TERMINATE", "TEST_START", "TEST_RUNNING"} \subseteq Messages
  /\ Down["PARAM_EXCHANGE"] = 1 /\ Down["CREATE_STREAMS"] = 2 /\ Down["EXCHANGE_RESULTS"] = 5
  /\ Down["results"] = 6 /\ Down["DISPLAY_RESULTS"] = 7
  /\ Down["ACCESS_DENIED"] = 8 /\ Down["SERVER_ERROR"] = 8
  /\ Down["SERVER_TERMINATE"] = 8
  /\ Down["TEST_START"] = 3 /\ Down["TEST_RUNNING"] = 4
BY DEF Down, Messages, States, Positive, Last

LEMMA ServerStreams ==
  ASSUME ControlInv, Next, ~\E c \in Clients : ClientStep(c), ~server_accept_stream
  PROVE  ServerEffect
<1> USE PlacesOf
<1>1. /\ TypeOK /\ ServerInv /\ BacklogInv /\ sCtrl \in Clients \cup {NoClient}
      /\ backlog \in Seq(Connections)
  BY DEF ControlInv, TypeOK, Connections
<1>2. backlog # <<>> => Head(backlog)[1] \in Clients
  <2>1. backlog # <<>> => Head(backlog) \in Connections
    BY <1>1, HeadTailProperties
  <2> QED
    BY <2>1 DEF Connections
<1>3. CASE /\ UNCHANGED <<cPc, cState, cMade, sRec, sSend, s2c, backlog>>
           /\ sCtrl' \in {sCtrl, NoClient}
  BY <1>3 DEF ServerEffect
<1>4. CASE iperf_server_listen \/ server_select_fails \/ server_other_message
           \/ server_ctrl_closed \/ server_rcv_timeout \/ server_clock \/ server_stopTest
           \/ (\E i \in Streams : server_worker(i)) \/ Quiet
  <2>1. UNCHANGED <<cPc, cState, cMade, sRec, sSend, s2c, backlog, sCtrl>>
    BY <1>4 DEF iperf_server_listen, server_select_fails, server_other_message,
       server_ctrl_closed, server_rcv_timeout, server_clock, server_stopTest, server_worker,
       Quiet, vars, clientVars, serverVars, netVars
  <2> QED
    BY <1>3, <2>1
<1>5. CASE iperf_accept
  <2>1. PICK c \in Clients : c = Head(backlog)[1]
    BY <1>2, <1>5 DEF iperf_accept
  <2>2. Idle
    BY <1>1, <1>5 DEF iperf_accept, Selecting, Idle
  <2>3. /\ s2c' \in {s2c, Set(s2c, c, s2c[c] \o <<"PARAM_EXCHANGE">>)}
        /\ UNCHANGED <<cPc, cState, cMade, sRec, sSend>>
        /\ backlog # <<>> /\ backlog' = Tail(backlog)
    BY <1>5, <2>1 DEF iperf_accept, SendState, ServerWrites, clientVars
  <2> QED
    BY <2>2, <2>3, WritesEffect
<1>6. CASE iperf_accept_busy \/ server_reject_stream
  <2>1. PICK c \in Clients : c = Head(backlog)[1]
    BY <1>2, <1>6 DEF iperf_accept_busy, server_reject_stream
  <2>2. /\ UNCHANGED <<cPc, cState, cMade, sRec, sSend, sCtrl>>
        /\ backlog # <<>> /\ backlog' = Tail(backlog)
        /\ \E u : Deny(u)
    BY <1>6 DEF iperf_accept_busy, server_reject_stream, clientVars, serverVars
  <2>3. s2c' \in {s2c, Set(s2c, c, Append(s2c[c], "ACCESS_DENIED")), Set(s2c, c, <<>>)}
    BY <2>1, <2>2 DEF Deny, AfterClose
  <2>4. "ACCESS_DENIED" \in Messages /\ Down["ACCESS_DENIED"] # 3 /\ Down["ACCESS_DENIED"] # 2
    OBVIOUS
  <2>5. /\ sCtrl' \in {sCtrl, NoClient}
        /\ s2c' \in {s2c, Set(s2c, c, s2c[c] \o <<"ACCESS_DENIED">>),
                     Set(s2c, c, Append(s2c[c], "ACCESS_DENIED")), Set(s2c, c, <<>>)}
    BY <2>2, <2>3
  <2> HIDE PlacesOf
  <2> QED
    BY <2>2, <2>4, <2>5, WritesEffect
<1>7. CASE server_get_parameters
  <2>1. sCtrl \in Clients
    BY <1>7, ServedSteps
  <2>2. /\ UNCHANGED <<cPc, cState, cMade, sRec, sSend, sCtrl, backlog>>
        /\ \/ s2c' = s2c
           \/ s2c' = Set(s2c, sCtrl, s2c[sCtrl] \o <<"CREATE_STREAMS">>)
           \/ s2c' = Set(s2c, sCtrl, s2c[sCtrl] \o <<"SERVER_ERROR">>)
    BY <1>7 DEF server_get_parameters, SendState, ServerWrites, clientVars
  <2>3. CASE s2c' = s2c
    BY <1>3, <2>2, <2>3
  <2>4. CASE s2c' = Set(s2c, sCtrl, s2c[sCtrl] \o <<"CREATE_STREAMS">>)
    BY <2>1, <2>2, <2>4, WritesEffect
  <2>5. CASE s2c' = Set(s2c, sCtrl, s2c[sCtrl] \o <<"SERVER_ERROR">>)
    BY <2>1, <2>2, <2>5, WritesEffect
  <2> QED
    BY <2>2, <2>3, <2>4, <2>5
<1>8. CASE server_test_end
  <2>1. sCtrl \in Clients
    BY <1>8, ServedSteps
  <2>2. /\ UNCHANGED <<cPc, cState, cMade, sRec, sSend, sCtrl, backlog>>
        /\ s2c' \in {s2c, Set(s2c, sCtrl, s2c[sCtrl] \o <<"EXCHANGE_RESULTS">>)}
    BY <1>8 DEF server_test_end, SendState, ServerWrites, clientVars
  <2> QED
    BY <2>1, <2>2, WritesEffect
<1>9. CASE server_get_results
  <2>1. sCtrl \in Clients
    BY <1>9, ServedSteps
  <2>2. /\ UNCHANGED <<cPc, cState, cMade, sRec, sSend, sCtrl, backlog>>
        /\ s2c' \in {s2c, Set(s2c, sCtrl, s2c[sCtrl] \o <<"results", "DISPLAY_RESULTS">>)}
    BY <1>9 DEF server_get_results, SendState, ServerWrites, clientVars
  <2>3. CASE s2c' = s2c
    BY <1>3, <2>2, <2>3
  <2>4. CASE s2c' = Set(s2c, sCtrl, s2c[sCtrl] \o <<"results", "DISPLAY_RESULTS">>)
    <3>1. s2c \in [Clients -> Seq(Messages)] /\ s2c[sCtrl] \in Seq(Messages) /\ 0 \in Int
      BY <1>1, <2>1 DEF TypeOK
    <3>2. /\ s2c'[sCtrl] = Append(Append(s2c[sCtrl], "results"), "DISPLAY_RESULTS")
          /\ \A d \in Clients : d # sCtrl => s2c'[d] = s2c[d]
      BY <2>1, <2>4, <3>1, AppendTwo DEF Set
    <3>3. Append(s2c[sCtrl], "results") \in Seq(Messages)
      BY <3>1, AppendToQueue
    <3>4. \A R : Has(Down, s2c'[sCtrl], R) => Has(Down, s2c[sCtrl], R) \/ 6 \in R \/ 7 \in R
      <4>1. ASSUME NEW q \in Seq(Messages), NEW m \in Messages
            PROVE  \A R : Has(Down, Append(q, m), R) => Has(Down, q, R) \/ Down[m] \in R
        BY <3>1, <4>1, AppendToQueue
      <4>2. \A R : Has(Down, Append(s2c[sCtrl], "results"), R)
                     => Has(Down, s2c[sCtrl], R) \/ Down["results"] \in R
        BY <3>1, <4>1
      <4>3. \A R : Has(Down, s2c'[sCtrl], R)
                     => \/ Has(Down, Append(s2c[sCtrl], "results"), R)
                        \/ Down["DISPLAY_RESULTS"] \in R
        BY <3>2, <3>3, <4>1
      <4> QED
        BY <4>2, <4>3
    <3>5. 6 \notin {3} /\ 7 \notin {3} /\ 6 \notin {2, 3} /\ 7 \notin {2, 3}
      OBVIOUS
    <3>6. \A d \in Clients : /\ Has(Down, s2c'[d], {3}) => Has(Down, s2c[d], {3})
                             /\ Has(Down, s2c'[d], {2, 3}) => Has(Down, s2c[d], {2, 3})
      BY <3>2, <3>4, <3>5
    <3> QED
      BY <2>2, <3>6 DEF ServerEffect
  <2> QED
    BY <2>2, <2>3, <2>4
<1>10. CASE server_timer_proc
  <2>1. sCtrl \in Clients
    BY <1>10, ServedSteps
  <2>2. /\ UNCHANGED <<cPc, cState, cMade, sRec, sSend, backlog>>
        /\ sCtrl' \in {sCtrl, NoClient}
        /\ \/ s2c' = s2c
           \/ s2c' = Set(s2c, sCtrl, s2c[sCtrl]) \/ s2c' = Set(s2c, sCtrl, <<>>)
    BY <1>10 DEF server_timer_proc, AfterClose, clientVars
  <2>3. s2c' = Set(s2c, sCtrl, s2c[sCtrl]) => s2c' = s2c
    BY <1>1, <2>1 DEF Set, TypeOK
  <2>4. s2c' \in {s2c, Set(s2c, sCtrl, <<>>)}
    BY <2>2, <2>3
  <2>5. /\ "results" \in Messages /\ Down["results"] # 3 /\ Down["results"] # 2
    OBVIOUS
  <2> QED
    BY <2>1, <2>2, <2>4, <2>5, WritesEffect
<1>11. CASE cleanup_server
  <2>1. /\ UNCHANGED <<cPc, cState, cMade, sRec, sSend>> /\ backlog' = <<>> /\ sCtrl' = NoClient
        /\ \A d \in Clients : s2c'[d] \in {s2c[d], <<>>}
    BY <1>11 DEF cleanup_server, clientVars
  <2>2. \A R : ~Has(Down, <<>>, R)
    BY EmptyQueue
  <2>3. \A d \in Clients : \A R : Has(Down, s2c'[d], R) => Has(Down, s2c[d], R)
    BY <2>1, <2>2
  <2> QED
    BY <2>1, <2>3 DEF ServerEffect
<1>12. CASE server_sigend
  <2>1. /\ UNCHANGED <<cPc, cState, cMade, sRec, sSend>> /\ backlog' = <<>> /\ sCtrl' = NoClient
    BY <1>12 DEF server_sigend, clientVars
  <2>2. CASE s2c' = s2c
    BY <2>1, <2>2 DEF ServerEffect
  <2>3. CASE s2c' # s2c
    <3>1. /\ sCtrl \in Clients
          /\ s2c' \in {Set(s2c, sCtrl, Append(s2c[sCtrl], "SERVER_TERMINATE")), Set(s2c, sCtrl, <<>>)}
      BY <1>1, <1>12, <2>3 DEF server_sigend, AfterClose
    <3>2. "SERVER_TERMINATE" \in Messages /\ Down["SERVER_TERMINATE"] # 3
          /\ Down["SERVER_TERMINATE"] # 2
      OBVIOUS
    <3>3. /\ sCtrl' \in {sCtrl, NoClient} /\ backlog' \in {backlog, <<>>}
          /\ s2c' \in {s2c, Set(s2c, sCtrl, s2c[sCtrl] \o <<"SERVER_TERMINATE">>),
                       Set(s2c, sCtrl, Append(s2c[sCtrl], "SERVER_TERMINATE")),
                       Set(s2c, sCtrl, <<>>)}
      BY <2>1, <3>1
    <3> HIDE PlacesOf
    <3> QED
      BY <2>1, <3>1, <3>2, <3>3, WritesEffect
  <2> QED
    BY <2>2, <2>3
<1> QED
  BY <1>4, <1>5, <1>6, <1>7, <1>8, <1>9, <1>10, <1>11, <1>12
  DEF Next, ServerLoop, Environment, ClientStep

\* A step of the server that accepts no stream.
LEMMA ServerKeepsStreams ==
  ASSUME ControlInv, StreamsInv, ServerEffect
  PROVE  StreamsInv'
<1>1. /\ backlog \in Seq(Connections) /\ sCtrl \in Clients \cup {NoClient}
      /\ sRec \in Nat /\ sSend \in Nat /\ cMade \in [Clients -> Nat]
  BY Counts DEF ControlInv, TypeOK, Connections
<1>2. \A d \in Clients : Cardinality(Waiting(backlog, d)) \in Nat
  BY <1>1, WaitingIsFinite
<1>3. /\ UNCHANGED <<cPc, cState, cMade, sRec, sSend>>
      /\ \A d \in Clients : Has(Down, s2c'[d], {3}) => Has(Down, s2c[d], {3})
  BY DEF ServerEffect
<1>4. /\ backlog' \in Seq(Connections)
      /\ \A d \in Clients : /\ Cardinality(Waiting(backlog', d)) \in Nat
                            /\ Cardinality(Waiting(backlog', d)) <= Cardinality(Waiting(backlog, d))
  <2>1. CASE backlog' = backlog
    BY <1>1, <1>2, <2>1
  <2>2. CASE backlog' = <<>>
    <3>1. <<>> \in Seq(Connections) /\ \A d : Waiting(<<>>, d) = {}
      BY DEF Waiting
    <3> QED
      BY <1>2, <2>2, <3>1, FS_EmptySet
  <2>3. CASE backlog # <<>> /\ backlog' = Tail(backlog)
    <3>1. Tail(backlog) \in Seq(Connections)
      BY <1>1, <2>3, HeadTailProperties
    <3>2. \A d \in Clients : Cardinality(Waiting(Tail(backlog), d)) \in Nat
      BY <3>1, WaitingIsFinite
    <3>3. ASSUME NEW d \in Clients
          PROVE  Cardinality(Waiting(Tail(backlog), d)) <= Cardinality(Waiting(backlog, d))
      <4>1. Cardinality(Waiting(backlog, d)) = Cardinality(Waiting(Tail(backlog), d))
              + (IF Head(backlog) = <<d, "stream">> THEN 1 ELSE 0)
        BY <1>1, <2>3, WaitingTail
      <4> QED
        BY <1>2, <3>2, <4>1
    <3> QED
      BY <2>3, <3>1, <3>2, <3>3
  <2> QED
    BY <2>1, <2>2, <2>3 DEF ServerEffect
<1>5. ASSUME NEW d \in Clients, Makes(d)'
      PROVE  sRec' + sSend' + Cardinality(Waiting(backlog', d)) <= cMade'[d]
  <2>1. CASE Idle
    <3>1. sRec = 0 /\ sSend = 0 /\ \A n \in 1 .. Len(backlog) : backlog[n][2] = "ctrl"
      BY <2>1 DEF ControlInv, ServerInv, BacklogInv
    <3>2. Cardinality(Waiting(backlog, d)) = 0
      BY <1>1, <3>1, NoneWaiting, FS_EmptySet
    <3> QED
      BY <1>1, <1>2, <1>3, <1>4, <3>1, <3>2
  <2>2. CASE ~Idle
    <3>1. Makes(d)
      <4>1. d # NoClient
        BY ClientsAssumption
      <4> QED
        BY <1>3, <1>5, <2>2, <4>1 DEF Makes, ServerEffect
    <3>2. sRec + sSend + Cardinality(Waiting(backlog, d)) <= cMade[d]
      BY <3>1 DEF StreamsInv
    <3> QED
      BY <1>1, <1>2, <1>3, <1>4, <3>2
  <2> QED
    BY <2>1, <2>2
<1>6. ASSUME NEW d \in Clients, cState'[d] \in Told
      PROVE  cMade'[d] = AllStreams /\ AllAccepted(sRec', sSend') /\ Waiting(backlog', d) = {}
  <2>1. cMade[d] = AllStreams /\ AllAccepted(sRec, sSend) /\ Waiting(backlog, d) = {}
    BY <1>3, <1>6 DEF StreamsInv
  <2>2. Cardinality(Waiting(backlog, d)) = 0
    BY <2>1, FS_EmptySet
  <2>3. Cardinality(Waiting(backlog', d)) = 0
    BY <1>4, <2>2
  <2> QED
    BY <1>3, <1>4, <2>1, <2>3, WaitingIsFinite
<1>7. \A d \in Clients : Has(Down, s2c[d], {3}) => AllAccepted(sRec, sSend)
  BY DEF StreamsInv
<1> QED
  BY <1>3, <1>5, <1>6, <1>7 DEF StreamsInv

\* The server accepts a stream of its client.
LEMMA AcceptKeepsStreams ==
  ASSUME ControlInv, StreamsInv, server_accept_stream
  PROVE  StreamsInv'
<1> USE PlacesOf
<1>1. PICK c \in Clients : c = sCtrl
  BY ServedSteps
<1>2. /\ backlog \in Seq(Connections) /\ backlog # <<>> /\ Head(backlog) = <<c, "stream">>
      /\ backlog' = Tail(backlog) /\ UNCHANGED <<cPc, cState, cMade, sCtrl>>
      /\ sPc = "select" /\ sState = "CREATE_STREAMS"
      /\ s2c \in [Clients -> Seq(Messages)] /\ s2c[c] \in Seq(Messages)
      /\ sRec \in Nat /\ sSend \in Nat /\ cMade[c] \in Nat
  <2>1. /\ backlog # <<>> /\ Head(backlog) = <<c, "stream">>
        /\ backlog' = Tail(backlog) /\ UNCHANGED <<cPc, cState, cMade, sCtrl>>
        /\ sPc = "select" /\ sState = "CREATE_STREAMS"
    BY <1>1 DEF server_accept_stream, Selecting, clientVars
  <2>2. /\ backlog \in Seq(Connections) /\ s2c \in [Clients -> Seq(Messages)]
    BY DEF ControlInv, TypeOK, Connections
  <2>3. sRec \in Nat /\ sSend \in Nat /\ cMade \in [Clients -> Nat]
    BY Counts DEF ControlInv, TypeOK
  <2> QED
    BY <2>1, <2>2, <2>3
<1>3. sRec' \in Nat /\ sSend' \in Nat /\ sRec' + sSend' = sRec + sSend + 1
  <2>1. \/ sRec' = sRec + 1 /\ sSend' = sSend
        \/ sRec' = sRec /\ sSend' = sSend + 1
    BY DEF server_accept_stream
  <2>2. sRec \in Nat /\ sSend \in Nat
    BY <1>2
  <2> HIDE PlacesOf
  <2>3. CASE sRec' = sRec + 1 /\ sSend' = sSend
    BY ONLY <2>2, <2>3
  <2>4. CASE sRec' = sRec /\ sSend' = sSend + 1
    BY ONLY <2>2, <2>4
  <2> QED
    BY <2>1, <2>3, <2>4
<1>4. ~AllAccepted(sRec, sSend)
  BY <1>2 DEF ControlInv, ServerInv
<1>5. \A d \in Clients : /\ ~Has(Down, s2c[d], {3})
                         /\ cState[d] \notin Told
  BY <1>4 DEF StreamsInv
<1>6. /\ \A d \in Clients : d # c => s2c'[d] = s2c[d]
      /\ s2c' = s2c \/ AllAccepted(sRec', sSend')
  <2>1. \/ s2c' = s2c
        \/ /\ s2c' = Set(s2c, c, s2c[c] \o <<"TEST_START", "TEST_RUNNING">>)
           /\ AllAccepted(sRec', sSend')
    BY <1>1, <1>2 DEF server_accept_stream, SendState, ServerWrites
  <2> QED
    BY <1>2, <2>1 DEF Set
<1>7. ASSUME NEW d \in Clients, Has(Down, s2c'[d], {3})
      PROVE  AllAccepted(sRec', sSend')
  BY <1>5, <1>6, <1>7
<1>8. ASSUME NEW d \in Clients, d # c
      PROVE  ~Makes(d)'
  <2>1. Served(c) /\ ~Served(d)
    BY <1>1, <1>8 DEF ControlInv, ServedInv, Served
  <2>2. ~(cPc[d] = "streams")
    <3>1. cPc[d] = "streams" => Alive(d) /\ cState[d] = "CREATE_STREAMS"
      BY DEF ControlInv, ClientInv, Alive
    <3> QED
      BY <2>1, <3>1 DEF Served
  <2>3. ~Has(Down, s2c[d], {2, 3})
    <3>1. Has(Down, s2c[d], {2, 3}) => Has(Down, s2c[d], 0 .. 7)
      BY DEF Has
    <3> QED
      BY <2>1, <3>1 DEF Served
  <2> QED
    BY <1>2, <1>6, <1>8, <2>1, <2>2, <2>3 DEF Makes, Served
<1>9. sRec' + sSend' + Cardinality(Waiting(backlog', c)) <= cMade'[c]
  <2>1. sRec + sSend + Cardinality(Waiting(backlog, c)) <= cMade[c]
    BY <1>1 DEF StreamsInv, Makes
  <2>2. Cardinality(Waiting(backlog, c)) = Cardinality(Waiting(backlog', c)) + 1
    BY <1>2, WaitingTail
  <2>3. Tail(backlog) \in Seq(Connections)
    BY <1>2, HeadTailProperties
  <2>4. Cardinality(Waiting(backlog', c)) \in Nat
    BY <1>2, <2>3, WaitingIsFinite
  <2>5. PICK n \in Nat : n = Cardinality(Waiting(backlog', c))
    BY <2>4
  <2>6. sRec + sSend + (n + 1) <= cMade[c]
    BY <2>1, <2>2, <2>5
  <2>7. cMade'[c] = cMade[c] /\ sRec \in Nat /\ sSend \in Nat /\ cMade[c] \in Nat
    BY <1>2
  <2>8. (sRec' + sSend') + n <= cMade[c]
    <3>1. ASSUME NEW r \in Nat, NEW w \in Nat, NEW r1 \in Nat, NEW w1 \in Nat, NEW k \in Nat,
                 r + w + (n + 1) <= k, r1 + w1 = r + w + 1
          PROVE  (r1 + w1) + n <= k
      BY ONLY n \in Nat, <3>1
    <3>2. PICK r \in Nat, w \in Nat, k \in Nat : r = sRec /\ w = sSend /\ k = cMade[c]
      BY <2>7
    <3>3. PICK r1 \in Nat, w1 \in Nat : r1 = sRec' /\ w1 = sSend'
      BY <1>3
    <3>4. r + w + (n + 1) <= k /\ r1 + w1 = r + w + 1
      BY <1>3, <2>6, <3>2, <3>3
    <3>5. (r1 + w1) + n <= k
      BY <3>1, <3>4
    <3> QED
      BY <3>2, <3>3, <3>5
  <2> QED
    BY <2>5, <2>7, <2>8
<1>10. \A d \in Clients : Makes(d)' =>
         sRec' + sSend' + Cardinality(Waiting(backlog', d)) <= cMade'[d]
  BY <1>8, <1>9
<1> QED
  BY <1>2, <1>5, <1>7, <1>10 DEF StreamsInv

\* Every step of the system keeps the count.
LEMMA StreamsStep ==
  ControlInv /\ StreamsInv /\ [Next]_vars => StreamsInv'
<1> SUFFICES ASSUME ControlInv, StreamsInv, [Next]_vars
             PROVE  StreamsInv'
  OBVIOUS
<1>1. CASE UNCHANGED vars
  <2>1. /\ UNCHANGED <<cPc, cState, cMade, sRec, sSend, s2c, backlog, sCtrl>>
    BY <1>1 DEF vars, clientVars, serverVars, netVars
  <2>2. ServerEffect
    BY <2>1 DEF ServerEffect
  <2> QED
    BY <2>2, ServerKeepsStreams
<1>2. CASE \E c \in Clients : ClientStep(c)
  BY <1>2, ClientKeepsStreams
<1>3. CASE server_accept_stream
  BY <1>3, AcceptKeepsStreams
<1>4. CASE Next /\ ~server_accept_stream /\ ~\E c \in Clients : ClientStep(c)
  BY <1>4, ServerStreams, ServerKeepsStreams
<1> QED
  BY <1>1, <1>2, <1>3, <1>4

\* Nobody has made a stream, and none is accepted.
LEMMA InitStreams ==
  Init => StreamsInv
<1> SUFFICES ASSUME Init
             PROVE  StreamsInv
  OBVIOUS
<1>1. ASSUME NEW c \in Clients
      PROVE  /\ cPc[c] = "connect" /\ cState[c] = "NONE" /\ cMade[c] = 0 /\ s2c[c] = <<>>
             /\ sCtrl = NoClient /\ c # NoClient
  BY ClientsAssumption DEF Init
<1>2. \A R : ~Has(Down, <<>>, R)
  BY EmptyQueue
<1> QED
  BY <1>1, <1>2 DEF StreamsInv, Makes, Told

-----------------------------------------------------------------------------
(* Theorems.                                                               *)

\* The invariant holds in every run of iperf_run_client and iperf_run_server.
THEOREM ControlInvariant == Spec => []ControlInv
<1>1. ControlInv /\ [Next]_vars => ControlInv'
  <2>1. ASSUME ControlInv, Next
        PROVE  ControlInv'
    BY <2>1, StepKeeps
  <2>2. ASSUME ControlInv, UNCHANGED vars
        PROVE  ControlInv'
    <3>1. UNCHANGED <<clientVars, serverVars, netVars>>
      BY <2>2 DEF vars
    <3>2. UNCHANGED clientVars /\ UNCHANGED netVars /\ UNCHANGED serverVars
      BY <3>1
    <3>3. ServerTypes' /\ ServerInv' /\ (Idle' <=> Idle)
      BY <2>2, <3>2 DEF ControlInv, TypeOK, ServerTypes, ServerInv, Idle, AllAccepted,
                        serverVars, netVars
    <3>4. UNCHANGED <<sCtrl, sPc, sState, sFreed>>
      BY <3>2 DEF serverVars
    <3> QED
      BY <2>2, <3>2, <3>3, <3>4, ServerAlone
  <2> QED
    BY <2>1, <2>2
<1> QED
  BY <1>1, InitControlInv, PTL DEF Spec

\* Every variable keeps its type: the counters of accepted streams never pass what
\* get_parameters computed, however the accepts of iperf_run_server interleave.
THEOREM TypesHold == Spec => []TypeOK
<1>1. ControlInv => TypeOK
  BY DEF ControlInv
<1> QED
  BY <1>1, ControlInvariant, PTL

\* Neither iperf_handle_message_client nor iperf_handle_message_server ever meets a
\* message it does not expect (IEMESSAGE), for any clients, streams and faults.
THEOREM AlwaysInSync == Spec => []ProtocolInSync
<1>1. ControlInv => ProtocolInSync
  BY DEF ControlInv, ServerInv, ClientInv, ProtocolInSync
<1> QED
  BY <1>1, ControlInvariant, PTL

\* One run of iperf_run_server lets at most one client open streams.
THEOREM AlwaysOneTest == Spec => []OneTestAtATime
<1>1. ControlInv => OneTestAtATime
  BY DEF ControlInv, ServedInv, Served, OneTestAtATime
<1> QED
  BY <1>1, ControlInvariant, PTL

\* No sender of a client writes to the sockets that the server closes on TEST_END.
THEOREM SendersStopFirst == Spec => []SendersStoppedFirst
<1>1. ControlInv => SendersStoppedFirst
  BY DEF ControlInv, UpInv, SendersStopped, SendersStoppedFirst
<1> QED
  BY <1>1, ControlInvariant, PTL

\* iperf_run_client returns with no thread running, whichever way it returns.
THEOREM ClientsJoinThreads == Spec => []ClientThreadsJoined
<1>1. ControlInv => ClientThreadsJoined
  BY DEF ControlInv, ClientInv, AllStopped, ClientThreadsJoined
<1> QED
  BY <1>1, ControlInvariant, PTL

\* A client returns 0 only after the server has sent its results and DISPLAY_RESULTS.
THEOREM FinishTogether == Spec => []FinishedTogether
<1>1. ControlInv => FinishedTogether
  BY DEF ControlInv, ClientInv, FinalStates, FinishedTogether
<1> QED
  BY <1>1, ControlInvariant, PTL

\* A client goes through the states of a test one by one, or fails.
THEOREM StatesFollowOrder == Spec => StatesInOrder
<1>1. ControlInv /\ [Next]_vars =>
        [\A c \in Clients :
           \/ cState'[c] = cState[c]
           \/ cState'[c] \in Failure
           \/ \E n \in 1 .. Len(Order) - 1 :
                cState[c] = Order[n] /\ cState'[c] = Order[n + 1]]_vars
  BY StepInOrder DEF MovesOn
<1> QED
  BY <1>1, ControlInvariant, PTL DEF Spec, StatesInOrder

\* When a client has been told to run, the server has accepted exactly the streams it
\* has made: none is missing, none waits in the accept queue, and none of somebody
\* else was counted in its place, for any number of clients and streams.
THEOREM StreamsAlwaysAgree == Spec => []StreamsAgree
<1>1. Spec => []StreamsInv
  BY InitStreams, StreamsStep, ControlInvariant, PTL DEF Spec
<1>2. ControlInv /\ StreamsInv => StreamsAgree
  <2> SUFFICES ASSUME ControlInv, StreamsInv
               PROVE  StreamsAgree
    OBVIOUS
  <2>1. DOMAIN backlog = 1 .. Len(backlog)
    BY DEF ControlInv, TypeOK
  <2> QED
    BY <2>1 DEF StreamsInv, StreamsAgree, Told, Waiting
<1> QED
  BY <1>1, <1>2, ControlInvariant, PTL

=============================================================================
