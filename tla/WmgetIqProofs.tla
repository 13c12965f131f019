---------------------------- MODULE WmgetIqProofs ----------------------------
(***************************************************************************)
(* Proofs about the request socket of wmget, for any docks and clients.    *)
(*                                                                         *)
(* That a start succeeds, and that a running dock can be reached, are      *)
(* proved for docks that are started one after another (~Race): both fail  *)
(* when two start at a time.  StartInv says whose name ~/.wmget.iq is      *)
(* between the steps of iq_server_init; RunInv adds that no dock runs      *)
(* while another starts, which is what the test at its beginning is for.   *)
(* The test does not tell when the backlog is full: that a running dock    *)
(* can be reached is proved of behaviours in which no test meets such a    *)
(* backlog (TestTells).                                                    *)
(***************************************************************************)
EXTENDS WmgetIq, SequenceTheorems, TLAPS

----------------------------------------------------------------------------
(* Types: every connection waits on a socket that somebody holds *)

Conns == Clients \cup {Probe}

DockStates == {"off", "refused", "failed", "gone"} \cup Starting \cup Running
ClientStates == Waiting \cup {"off", "refused", "answered", "left", "hungup", "dropped"}

TypeInv == Types /\ backlog \in [Docks -> Seq(Conns)]

LEMMA InitType == Init => TypeInv
  <1> SUFFICES ASSUME Init
               PROVE  TypeInv
    OBVIOUS
  <1>1. << >> \in Seq(Conns)
    BY EmptySeq
  <1> QED
    BY <1>1 DEF Init, TypeInv, Types, Conns, Waiting

LEMMA DroppedType ==
    ASSUME client \in [Clients -> ClientStates], NEW conns
    PROVE  Dropped(conns) \in [Clients -> ClientStates]
  BY DEF Dropped, ClientStates

\* Steps of a dock, or of its user, that leave the connections alone.
LEMMA DockType ==
    ASSUME TypeInv, NEW d \in Docks,
           \/ ProbeFails(d) \/ Unlink(d) \/ Bind(d) \/ Listen(d) \/ Fork(d)
    PROVE  TypeInv'
  <1> USE DEF TypeInv, Types, Starting, Running, Listening, Goes
  <1>1. CASE ProbeFails(d)
    BY <1>1 DEF ProbeFails, MayStart
  <1>2. CASE Unlink(d)
    BY <1>2 DEF Unlink
  <1>3. CASE Bind(d)
    BY <1>3 DEF Bind
  <1>4. CASE Listen(d)
    BY <1>4 DEF Listen
  <1>5. CASE Fork(d)
    BY <1>5 DEF Fork
  <1> QED
    BY <1>1, <1>2, <1>3, <1>4, <1>5

\* Steps that add a connection to the backlog of the dock that has the name.
LEMMA QueueType ==
    ASSUME TypeInv, Reachable, NEW c \in Conns
    PROVE  /\ path \in Docks /\ Listening(path)
           /\ [backlog EXCEPT ![path] = Append(@, c)] \in [Docks -> Seq(Conns)]
  BY AppendProperties DEF TypeInv, Types, Reachable

LEMMA RefusedType ==
    ASSUME TypeInv, NEW d \in Docks, Refused(d)
    PROVE  TypeInv'
  <1> USE DEF Starting, Running, Listening, Goes, Conns
  <1>1. /\ backlog' = [backlog EXCEPT ![path] = Append(@, Probe)]
        /\ dock' = [dock EXCEPT ![d] = "refused"] /\ dock[d] = "off"
        /\ UNCHANGED <<path, serving, kid, client>>
        /\ Reachable
    BY DEF Refused, MayStart
  <1>2. backlog' \in [Docks -> Seq(Conns)] /\ path \in Docks /\ Listening(path)
    BY <1>1, QueueType
  <1>3. \A e \in Docks : backlog'[e] # << >> => Listening(e)'
    BY <1>1, <1>2 DEF TypeInv, Types
  <1> QED
    BY <1>1, <1>2, <1>3 DEF TypeInv, Types

LEMMA AcceptType ==
    ASSUME TypeInv, NEW d \in Docks, Accept(d)
    PROVE  TypeInv'
  <1> USE DEF Starting, Running, Listening, Goes, Conns
  <1>1. /\ dock[d] = "idle" /\ backlog[d] # << >>
        /\ serving' = [serving EXCEPT ![d] = Head(backlog[d])]
        /\ backlog' = [backlog EXCEPT ![d] = Tail(@)]
        /\ dock' = [dock EXCEPT ![d] = "reading"]
        /\ UNCHANGED <<path, kid, client>>
    BY DEF Accept
  <1>2. Head(backlog[d]) \in Conns /\ Tail(backlog[d]) \in Seq(Conns)
    BY <1>1, HeadTailProperties DEF TypeInv
  <1>3. Head(backlog[d]) # Nobody
    BY <1>2, NamesAssumption DEF Nobody, Probe
  <1>4. backlog' \in [Docks -> Seq(Conns)]
    BY <1>1, <1>2 DEF TypeInv
  <1>5. \A e \in Docks : backlog'[e] # << >> => Listening(e)'
    BY <1>1 DEF TypeInv, Types
  <1>6. \A e \in Docks : dock'[e] = "reading" <=> serving'[e] # Nobody
    BY <1>1, <1>3 DEF TypeInv, Types
  <1> QED
    BY <1>1, <1>2, <1>4, <1>5, <1>6 DEF TypeInv, Types

\* A request comes to its end, and the dock is idle again.
LEMMA RequestEndsType ==
    ASSUME TypeInv, NEW d \in Docks, Answer(d) \/ EndOfFile(d)
    PROVE  TypeInv'
  <1> USE DEF Starting, Running, Listening, Goes, Conns, Waiting
  <1>1. /\ dock[d] = "reading"
        /\ serving' = [serving EXCEPT ![d] = Nobody]
        /\ dock' = [dock EXCEPT ![d] = "idle"]
        /\ UNCHANGED <<path, kid, backlog>>
        /\ \/ client' = [client EXCEPT ![serving[d]] = "answered"]
           \/ client' = client
    BY DEF Answer, EndOfFile
  <1>2. client' \in [Clients -> ClientStates]
    BY <1>1 DEF TypeInv, Types, ClientStates
  <1>3. \A e \in Docks : backlog'[e] # << >> => Listening(e)'
    BY <1>1 DEF TypeInv, Types
  <1>4. \A e \in Docks : dock'[e] = "reading" <=> serving'[e] # Nobody
    BY <1>1 DEF TypeInv, Types
  <1> QED
    BY <1>1, <1>2, <1>3, <1>4 DEF TypeInv, Types, ClientStates

LEMMA ExitType ==
    ASSUME TypeInv, NEW d \in Docks, Quit(d) \/ Die(d) \/ AnswerNobody(d)
    PROVE  TypeInv'
  <1> USE DEF Starting, Running, Listening, Goes, Conns, Waiting
  <1>1. PICK conns :
          /\ dock[d] \in Running /\ dock' = [dock EXCEPT ![d] = "gone"]
          /\ client' = Dropped(conns)
          /\ backlog' = IF kid[d] THEN backlog ELSE [backlog EXCEPT ![d] = <<>>]
          /\ serving' = [serving EXCEPT ![d] = Nobody]
          /\ UNCHANGED <<path, kid>>
    BY DEF Quit, Die, AnswerNobody, Exit
  <1>2. client' \in [Clients -> ClientStates]
    BY <1>1, DroppedType DEF TypeInv, Types, ClientStates
  <1>3. << >> \in Seq(Conns)
    BY EmptySeq
  <1>4. backlog' \in [Docks -> Seq(Conns)]
    BY <1>1, <1>3 DEF TypeInv
  <1>5. \A e \in Docks : backlog'[e] # << >> => Listening(e)'
    BY <1>1 DEF TypeInv, Types
  <1>6. \A e \in Docks : dock'[e] = "reading" <=> serving'[e] # Nobody
    BY <1>1 DEF TypeInv, Types
  <1> QED
    BY <1>1, <1>2, <1>4, <1>5, <1>6 DEF TypeInv, Types, ClientStates

LEMMA KidEndsType ==
    ASSUME TypeInv, NEW d \in Docks, KidEnds(d)
    PROVE  TypeInv'
  <1> USE DEF Starting, Running, Listening, Conns, Waiting
  <1>1. /\ kid' = [kid EXCEPT ![d] = FALSE]
        /\ UNCHANGED <<path, dock, serving>>
        /\ \/ dock[d] \in Running /\ UNCHANGED <<backlog, client>>
           \/ \E conns : /\ client' = Dropped(conns)
                         /\ backlog' = [backlog EXCEPT ![d] = << >>]
    BY DEF KidEnds
  <1>2. client' \in [Clients -> ClientStates]
    BY <1>1, DroppedType DEF TypeInv, Types, ClientStates
  <1>3. << >> \in Seq(Conns)
    BY EmptySeq
  <1>4. backlog' \in [Docks -> Seq(Conns)]
    BY <1>1, <1>3 DEF TypeInv
  <1>5. \A e \in Docks : backlog'[e] # << >> => Listening(e)'
    BY <1>1 DEF TypeInv, Types
  <1> QED
    BY <1>1, <1>2, <1>4, <1>5 DEF TypeInv, Types, ClientStates

\* The steps of a client.
LEMMA ClientType ==
    ASSUME TypeInv, NEW c \in Clients, Connect(c) \/ SendCommand(c) \/ Leave(c)
    PROVE  TypeInv'
  <1> USE DEF Listening, Conns
  <1>1. UNCHANGED <<path, dock, serving, kid>>
    BY DEF Connect, SendCommand, Leave
  <1>2. client' \in [Clients -> ClientStates]
    BY DEF Connect, SendCommand, Leave, Becomes, TypeInv, Types, ClientStates, Waiting
  <1>3. \/ backlog' = backlog
        \/ Reachable /\ backlog' = [backlog EXCEPT ![path] = Append(@, c)]
    BY DEF Connect, SendCommand, Leave
  <1>4. backlog' \in [Docks -> Seq(Conns)]
    BY <1>3, QueueType DEF TypeInv
  <1>5. \A e \in Docks : backlog'[e] # << >> => Listening(e)'
    BY <1>1, <1>3, QueueType DEF TypeInv, Types
  <1> QED
    BY <1>1, <1>2, <1>4, <1>5 DEF TypeInv, Types, ClientStates

LEMMA StutterType == TypeInv /\ UNCHANGED vars => TypeInv'
  BY DEF TypeInv, Types, Listening, vars

LEMMA AlwaysTypeInv == Spec => []TypeInv
  <1>1. TypeInv /\ [Next]_vars => TypeInv'
    BY DockType, RefusedType, AcceptType, RequestEndsType, ExitType, KidEndsType, ClientType,
       StutterType DEF Next, Starts, Serves
  <1> QED
    BY <1>1, InitType, PTL DEF Spec

\* Who waits on a connection
WaitersHeld == \A c \in Clients : client[c] \in Waiting => Held(c)

LEMMA AppendElements ==
    ASSUME NEW S, NEW s \in Seq(S), NEW x \in S
    PROVE  ToSet(Append(s, x)) = ToSet(s) \cup {x}
  BY AppendProperties DEF ToSet

LEMMA HeadTailElements ==
    ASSUME NEW S, NEW s \in Seq(S), s # << >>, NEW x \in ToSet(s)
    PROVE  x = Head(s) \/ x \in ToSet(Tail(s))
  <1>1. PICK i \in 1 .. Len(s) : x = s[i]
    BY DEF ToSet
  <1>2. /\ Head(s) = s[1] /\ Len(Tail(s)) = Len(s) - 1
        /\ \A j \in 1 .. Len(Tail(s)) : Tail(s)[j] = s[j + 1]
        /\ Tail(s) \in Seq(S) /\ Len(s) \in Nat
    BY HeadTailProperties
  <1>3. CASE i = 1
    BY <1>1, <1>2, <1>3
  <1>4. CASE i # 1
    <2>1. i - 1 \in 1 .. Len(Tail(s)) /\ Tail(s)[i - 1] = s[i]
      BY <1>2, <1>4
    <2>2. i - 1 \in DOMAIN Tail(s)
      BY <1>2, <2>1
    <2> QED
      BY <1>1, <2>1, <2>2 DEF ToSet
  <1> QED
    BY <1>3, <1>4

\* A connection that is added to a backlog, and those that were there, are held.
LEMMA QueueHeld ==
    ASSUME TypeInv, Reachable, NEW x \in Conns, serving' = serving,
           backlog' = [backlog EXCEPT ![path] = Append(@, x)]
    PROVE  \A c \in Clients : Held(c) \/ c = x => Held(c)'
  <1>1. path \in Docks /\ backlog \in [Docks -> Seq(Conns)]
    BY DEF Reachable, TypeInv
  <1>2. \A d \in Docks : ToSet(backlog[d]) \subseteq ToSet(backlog'[d])
    BY <1>1, AppendElements
  <1>3. x \in ToSet(backlog'[path])
    BY <1>1, AppendElements
  <1> QED
    BY <1>1, <1>2, <1>3 DEF Held

LEMMA AcceptHeld ==
    ASSUME TypeInv, WaitersHeld, NEW d \in Docks, Accept(d)
    PROVE  WaitersHeld'
  <1>1. /\ dock[d] = "idle" /\ backlog[d] # << >>
        /\ serving' = [serving EXCEPT ![d] = Head(backlog[d])]
        /\ backlog' = [backlog EXCEPT ![d] = Tail(@)]
        /\ client' = client
    BY DEF Accept
  <1>2. serving[d] = Nobody
    BY <1>1 DEF TypeInv, Types
  <1>3. /\ backlog \in [Docks -> Seq(Conns)]
        /\ serving \in [Docks -> Clients \cup {Probe, Nobody}]
    BY DEF TypeInv, Types
  <1>4. ASSUME NEW c \in Clients, NEW e \in Docks,
               serving[e] = c \/ c \in ToSet(backlog[e])
        PROVE  serving'[e] = c \/ c \in ToSet(backlog'[e])
    <2>1. CASE e = d
      BY <1>1, <1>2, <1>3, <1>4, <2>1, HeadTailElements, NamesAssumption
    <2>2. CASE e # d
      BY <1>1, <1>3, <1>4, <2>2
    <2> QED
      BY <2>1, <2>2
  <1> QED
    BY <1>1, <1>4 DEF WaitersHeld, Held

\* Who still waits when a request has been answered is somebody else.
LEMMA RequestEndsHeld ==
    ASSUME TypeInv, WaitersHeld, NEW d \in Docks, Answer(d) \/ EndOfFile(d)
    PROVE  WaitersHeld'
  <1>1. /\ serving' = [serving EXCEPT ![d] = Nobody]
        /\ backlog' = backlog
        /\ serving \in [Docks -> Clients \cup {Probe, Nobody}]
    BY DEF Answer, EndOfFile, TypeInv, Types
  <1>2. ASSUME NEW c \in Clients, client'[c] \in Waiting
        PROVE  client[c] \in Waiting /\ c # serving[d]
    BY <1>2, NamesAssumption DEF Answer, EndOfFile, TypeInv, Types, Waiting
  <1> QED
    BY <1>1, <1>2 DEF WaitersHeld, Held

\* With a process go the connections it serves, with the last holder of a
\* socket those that wait on it.
LEMMA EndHeld ==
    ASSUME TypeInv, WaitersHeld, NEW d \in Docks,
           Quit(d) \/ Die(d) \/ AnswerNobody(d) \/ KidEnds(d)
    PROVE  WaitersHeld'
  <1>1. PICK conns :
          /\ \/ client' = Dropped(conns)
             \/ client' = client /\ conns = {}
          /\ \A e \in Docks : /\ serving'[e] = serving[e] \/ serving[e] \in conns
                            /\ \/ backlog'[e] = backlog[e]
                               \/ ToSet(backlog[e]) \subseteq conns
    <2>1. CASE Quit(d) \/ Die(d) \/ AnswerNobody(d)
      <3>1. Exit(d)
        BY <2>1 DEF Quit, Die, AnswerNobody
      <3> DEFINE conns == {serving[d]} \cup (IF kid[d] THEN {} ELSE ToSet(backlog[d]))
      <3>2. \A e \in Docks : /\ serving'[e] = serving[e] \/ serving[e] \in conns
                          /\ \/ backlog'[e] = backlog[e]
                             \/ ToSet(backlog[e]) \subseteq conns
        BY <3>1 DEF Exit, TypeInv, Types
      <3>3. client' = Dropped(conns)
        BY <3>1 DEF Exit
      <3> HIDE DEF conns
      <3> QED
        BY <3>2, <3>3
    <2>2. CASE KidEnds(d) /\ dock[d] \in Running
      <3>1. client' = client /\ serving' = serving /\ backlog' = backlog
        BY <2>2 DEF KidEnds
      <3> WITNESS {}
      <3> QED
        BY <3>1
    <2>3. CASE KidEnds(d) /\ dock[d] \notin Running
      <3>1. /\ client' = Dropped(ToSet(backlog[d])) /\ serving' = serving
            /\ backlog' = [backlog EXCEPT ![d] = << >>]
        BY <2>3 DEF KidEnds
      <3>2. \A e \in Docks \ {d} : backlog'[e] = backlog[e]
        BY <3>1 DEF TypeInv
      <3> WITNESS ToSet(backlog[d])
      <3> QED
        BY <3>1, <3>2
    <2> QED
      BY <2>1, <2>2, <2>3
  <1>2. ASSUME NEW c \in Clients, client'[c] \in Waiting
        PROVE  client[c] \in Waiting /\ c \notin conns
    BY <1>1, <1>2 DEF Dropped, Waiting
  <1> QED
    BY <1>1, <1>2 DEF WaitersHeld, Held

LEMMA HeldStep == TypeInv /\ WaitersHeld /\ [Next]_vars => WaitersHeld'
  <1> SUFFICES ASSUME TypeInv, WaitersHeld, [Next]_vars
               PROVE  WaitersHeld'
    OBVIOUS
  <1>1. ASSUME UNCHANGED <<serving, backlog, client>>
        PROVE  WaitersHeld'
    BY <1>1 DEF WaitersHeld, Held
  <1>2. ASSUME NEW d \in Docks,
               ProbeFails(d) \/ Unlink(d) \/ Bind(d) \/ Listen(d) \/ Fork(d)
        PROVE  WaitersHeld'
    BY <1>1, <1>2 DEF ProbeFails, Unlink, Bind, Listen, Fork
  <1>3. ASSUME NEW d \in Docks, Refused(d)
        PROVE  WaitersHeld'
    <2>1. \A c \in Clients : Held(c) => Held(c)'
      BY <1>3, QueueHeld DEF Refused, Conns
    <2> QED
      BY <1>3, <2>1 DEF Refused, WaitersHeld
  <1>4. ASSUME NEW c \in Clients, Connect(c)
        PROVE  WaitersHeld'
    <2>1. CASE Reachable
      <3>1. \A k \in Clients : Held(k) \/ k = c => Held(k)'
        BY <1>4, <2>1, QueueHeld DEF Connect, Conns
      <3>2. \A k \in Clients : k # c => client'[k] = client[k]
        BY <1>4 DEF Connect, Becomes, TypeInv, Types
      <3> QED
        BY <3>1, <3>2 DEF WaitersHeld
    <2>2. CASE ~Reachable
      BY <1>4, <2>2 DEF Connect, Becomes, WaitersHeld, Held, Waiting, TypeInv, Types
    <2> QED
      BY <2>1, <2>2
  <1>5. ASSUME NEW c \in Clients, SendCommand(c) \/ Leave(c)
        PROVE  WaitersHeld'
    <2>1. UNCHANGED <<serving, backlog>>
      BY <1>5 DEF SendCommand, Leave
    <2>2. \A k \in Clients : client'[k] \in Waiting => client[k] \in Waiting
      BY <1>5 DEF SendCommand, Leave, Becomes, Waiting, TypeInv, Types
    <2> QED
      BY <2>1, <2>2 DEF WaitersHeld, Held
  <1> QED
    BY <1>1, <1>2, <1>3, <1>4, <1>5, AcceptHeld, RequestEndsHeld, EndHeld
    DEF Next, Starts, Serves, vars

\* Connections wait only on a socket that somebody holds, and who waits on a
\* connection is being served or waits on such a socket, for any docks and
\* clients, whenever docks are killed and children end.
THEOREM TypeCorrect == Spec => []TypeOK
  <1>1. Init => WaitersHeld
    BY DEF Init, WaitersHeld, Waiting
  <1>2. TypeInv /\ WaitersHeld => TypeOK
    BY DEF TypeInv, TypeOK, WaitersHeld
  <1> QED
    BY <1>1, <1>2, HeldStep, AlwaysTypeInv, PTL DEF Spec

----------------------------------------------------------------------------
(* Docks that are started one after another *)

\* No two docks are between the test of iq_server_init and listen.
OneStarts ==
    \A d, e \in Docks : dock[d] \in Starting /\ dock[e] \in Starting => d = e

\* The name is free after unlink, and belongs to the dock that has bound it.
NameTaken ==
    \A d \in Docks : /\ dock[d] = "unlinked" => path = Nobody
                     /\ dock[d] = "bound" => path = d

StartInv == OneStarts /\ NameTaken /\ StartSucceeds

LEMMA InitStart == Init => StartInv
  BY DEF Init, StartInv, OneStarts, NameTaken, StartSucceeds, Starting

\* Only the dock that starts changes the name.
LEMMA StartStep ==
    ASSUME ~Race, TypeInv, StartInv, [Next]_vars
    PROVE  StartInv'
  <1> USE NamesAssumption DEF StartInv, OneStarts, NameTaken, StartSucceeds, Starting, Goes
  <1>1. dock \in [Docks -> DockStates]
    BY DEF TypeInv, Types, DockStates
  <1>2. ASSUME NEW d \in Docks, Refused(d) \/ ProbeFails(d)
        PROVE  StartInv'
    <2>1. path' = path /\ \A e \in Docks : dock[e] \notin Starting
      BY <1>2 DEF Refused, ProbeFails, MayStart
    <2>2. PICK s \in {"refused", "probed"} : dock' = [dock EXCEPT ![d] = s]
      BY <1>2 DEF Refused, ProbeFails
    <2> QED
      BY <1>1, <2>1, <2>2
  <1>3. ASSUME NEW d \in Docks, Unlink(d)
        PROVE  StartInv'
    BY <1>1, <1>3 DEF Unlink
  <1>4. ASSUME NEW d \in Docks, Bind(d)
        PROVE  StartInv'
    BY <1>1, <1>4 DEF Bind
  <1>5. ASSUME NEW d \in Docks, Listen(d)
        PROVE  StartInv'
    BY <1>1, <1>5 DEF Listen
  <1>6. ASSUME NEW d \in Docks,
               \/ Accept(d) \/ Answer(d) \/ EndOfFile(d) \/ AnswerNobody(d)
               \/ Quit(d) \/ Die(d)
        PROVE  StartInv'
    <2>1. path' = path
      BY <1>6 DEF Accept, Answer, EndOfFile, AnswerNobody, Quit, Die, Exit
    <2>2. PICK s \in {"idle", "reading", "gone"} : dock' = [dock EXCEPT ![d] = s]
      BY <1>6 DEF Accept, Answer, EndOfFile, AnswerNobody, Quit, Die, Exit
    <2> QED
      BY <1>1, <2>1, <2>2
  <1>7. ASSUME UNCHANGED <<path, dock>>
        PROVE  StartInv'
    BY <1>7
  <1>8. ASSUME NEW d \in Docks, Fork(d) \/ KidEnds(d)
        PROVE  StartInv'
    BY <1>7, <1>8 DEF Fork, KidEnds
  <1>9. ASSUME NEW c \in Clients, Connect(c) \/ SendCommand(c) \/ Leave(c)
        PROVE  StartInv'
    BY <1>7, <1>9 DEF Connect, SendCommand, Leave
  <1>10. ASSUME UNCHANGED vars
         PROVE  StartInv'
    BY <1>7, <1>10 DEF vars
  <1> QED
    BY <1>2, <1>3, <1>4, <1>5, <1>6, <1>8, <1>9, <1>10 DEF Next, Starts, Serves

\* A dock that has passed the test of iq_server_init gets its socket, whatever
\* the docks before it have left behind, if no two docks start at a time.
THEOREM StartAlwaysSucceeds ==
    ASSUME ~Race
    PROVE  Spec => []StartSucceeds
  <1>1. TypeInv /\ StartInv /\ [Next]_vars => StartInv'
    BY StartStep
  <1> QED
    BY <1>1, InitStart, AlwaysTypeInv, PTL DEF Spec, StartInv

\* No test of iq_server_init meets a full backlog: it fails only when nobody
\* listens.
TestTells == [][\A d \in Docks : ProbeFails(d) => ~Reachable]_vars

\* While a dock starts none runs, and a dock that runs has the name.
RunInv ==
    /\ StartInv
    /\ \A d, e \in Docks : dock[d] \in Starting => dock[e] \notin Running
    /\ RunningReachable

LEMMA RunStep ==
    ASSUME ~Race, TypeInv, RunInv, [Next]_vars,
           [\A d \in Docks : ProbeFails(d) => ~Reachable]_vars
    PROVE  RunInv'
  <1> USE NamesAssumption
      DEF RunInv, RunningReachable, Starting, Running, Goes
  <1>1. dock \in [Docks -> DockStates]
    BY DEF TypeInv, Types, DockStates
  <1>2. StartInv'
    BY StartStep
  <1>3. ASSUME NEW d \in Docks, Refused(d)
        PROVE  RunInv'
    BY <1>1, <1>2, <1>3 DEF Refused
  <1>4. ASSUME NEW d \in Docks, ProbeFails(d)
        PROVE  RunInv'
    <2>1. dock[d] = "off" /\ dock' = [dock EXCEPT ![d] = "probed"] /\ path' = path
      BY <1>4 DEF ProbeFails, MayStart
    <2>2. vars' # vars
      BY <1>1, <2>1 DEF vars
    <2>3. ~Reachable
      BY <1>4, <2>2
    <2>4. \A e \in Docks : dock[e] \notin Running
      BY <2>3 DEF Reachable, Listening
    <2>5. \A e \in Docks : dock[e] \notin Starting
      BY <1>4 DEF ProbeFails, MayStart
    <2> QED
      BY <1>1, <1>2, <2>1, <2>4, <2>5
  <1>5. ASSUME NEW d \in Docks, Unlink(d)
        PROVE  RunInv'
    BY <1>1, <1>2, <1>5 DEF Unlink
  <1>6. ASSUME NEW d \in Docks, Bind(d)
        PROVE  RunInv'
    BY <1>1, <1>2, <1>6 DEF Bind
  <1>7. ASSUME NEW d \in Docks, Listen(d)
        PROVE  RunInv'
    <2>1. dock[d] = "bound" /\ path' = path
      BY <1>7 DEF Listen
    <2>2. \A e \in Docks : e # d => dock[e] \notin Starting
      BY <2>1 DEF StartInv, OneStarts
    <2>3. path = d /\ \A e \in Docks : dock[e] \notin Running
      BY <2>1 DEF StartInv, NameTaken
    <2>4. dock' = [dock EXCEPT ![d] = "idle"]
      BY <1>7, <2>3 DEF Listen
    <2> QED
      BY <1>1, <1>2, <2>1, <2>2, <2>3, <2>4
  <1>8. ASSUME NEW d \in Docks,
               \/ Accept(d) \/ Answer(d) \/ EndOfFile(d) \/ AnswerNobody(d)
               \/ Quit(d) \/ Die(d)
        PROVE  RunInv'
    <2>1. path' = path /\ dock[d] \in Running
      BY <1>8 DEF Accept, Answer, EndOfFile, AnswerNobody, Quit, Die, Exit
    <2>2. PICK s \in {"idle", "reading", "gone"} : dock' = [dock EXCEPT ![d] = s]
      BY <1>8 DEF Accept, Answer, EndOfFile, AnswerNobody, Quit, Die, Exit
    <2> QED
      BY <1>1, <1>2, <2>1, <2>2
  <1>9. ASSUME UNCHANGED <<path, dock>>
        PROVE  RunInv'
    BY <1>2, <1>9
  <1>10. ASSUME NEW d \in Docks, Fork(d) \/ KidEnds(d)
         PROVE  RunInv'
    BY <1>9, <1>10 DEF Fork, KidEnds
  <1>11. ASSUME NEW c \in Clients, Connect(c) \/ SendCommand(c) \/ Leave(c)
         PROVE  RunInv'
    BY <1>9, <1>11 DEF Connect, SendCommand, Leave
  <1>12. ASSUME UNCHANGED vars
         PROVE  RunInv'
    BY <1>9, <1>12 DEF vars
  <1> QED
    BY <1>3, <1>4, <1>5, <1>6, <1>7, <1>8, <1>10, <1>11, <1>12 DEF Next, Starts, Serves

LEMMA InitRun == Init => RunInv
  BY InitStart DEF Init, RunInv, RunningReachable, Starting, Running

\* A running dock is reached by its name, so that there is one at most, if no
\* two docks start at a time and no test meets a full backlog.  Docks may be
\* killed, leave children behind that answer the test, and be busy with a client.
THEOREM RunningIsReachable ==
    ASSUME ~Race
    PROVE  Spec /\ TestTells => []RunningReachable
  <1>1. /\ TypeInv /\ RunInv /\ [Next]_vars
        /\ [\A d \in Docks : ProbeFails(d) => ~Reachable]_vars
        => RunInv'
    BY RunStep
  <1>2. RunInv => RunningReachable
    BY DEF RunInv
  <1> QED
    BY <1>1, <1>2, InitRun, AlwaysTypeInv, PTL DEF Spec, TestTells

=============================================================================
