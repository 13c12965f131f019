------------------------------ MODULE WmgetIq ------------------------------
(***************************************************************************)
(* The socket through which clients reach the dock of wmget (iq.c): how a  *)
(* dock takes ~/.wmget.iq, how clients connect to it, send a command and   *)
(* read the answer, and what becomes of it when the dock goes away.  The   *)
(* children a dock forks for its downloads inherit its listening socket    *)
(* and may outlive it.  What a command does is in WmgetJobs.               *)
(***************************************************************************)
EXTENDS Integers, Sequences, SequencesExt

CONSTANTS
  Docks,       \* the processes "wmget dock"
  Clients,     \* the processes "wmget URL", "wmget list", "wmget cancel"
  MaxPending,  \* connections that may wait on a socket
  Race         \* may a dock start while another one is starting?

ASSUME MaxPendingAssumption == MaxPending \in Nat
ASSUME RaceAssumption == Race \in BOOLEAN

Nobody == "nobody"
Probe == "probe"       \* the connection of iq_server_init, closed by its exit

ASSUME NamesAssumption == Nobody \notin Docks \cup Clients /\ Probe \notin Clients

VARIABLES
  path,     \* whose socket the name ~/.wmget.iq stands for
  dock,     \* where each dock is
  serving,  \* the connection a dock has accepted
  kid,      \* does a child of the dock hold its listening socket?
  backlog,  \* the connections waiting on each dock's socket
  client    \* where each client is

vars == <<path, dock, serving, kid, backlog, client>>

Starting == {"probed", "unlinked", "bound"}
Running == {"idle", "reading"}

\* Somebody still holds the listening socket of d.
Listening(d) == dock[d] \in Running \/ kid[d]
Reachable == path \in Docks /\ Listening(path)
Full(d) == Len(backlog[d]) >= MaxPending

Init == /\ path = Nobody
        /\ dock = [d \in Docks |-> "off"]
        /\ serving = [d \in Docks |-> Nobody]
        /\ kid = [d \in Docks |-> FALSE]
        /\ backlog = [d \in Docks |-> <<>>]
        /\ client = [c \in Clients |-> "off"]

-----------------------------------------------------------------------------
(* iq_server_init *)

Goes(d, where) == dock' = [dock EXCEPT ![d] = where]

MayStart(d) == /\ dock[d] = "off"
               /\ Race \/ \A e \in Docks : dock[e] \notin Starting

\* The test succeeds: this dock exits, and the other one finds its connection.
Refused(d) ==
  /\ MayStart(d)
  /\ Reachable /\ ~Full(path)
  /\ backlog' = [backlog EXCEPT ![path] = Append(@, Probe)]
  /\ Goes(d, "refused")
  /\ UNCHANGED <<path, serving, kid, client>>

\* Mutation: takes a dock that is busy with a client for none.
ProbeIdle(d) ==
  /\ MayStart(d)
  /\ Reachable => dock[path] = "reading"
  /\ Goes(d, "probed")
  /\ UNCHANGED <<path, serving, kid, backlog, client>>

\* The socket does not block: connect fails when nobody listens, and also when
\* the backlog of who does is full.
ProbeFails(d) ==
  /\ MayStart(d)
  /\ Reachable => Full(path)
  /\ Goes(d, "probed")
  /\ UNCHANGED <<path, serving, kid, backlog, client>>

\* Mutation: leaves the name of the last dock where it is.
UnlinkNothing(d) ==
  /\ dock[d] = "probed"
  /\ Goes(d, "unlinked")
  /\ UNCHANGED <<path, serving, kid, backlog, client>>

Unlink(d) ==
  /\ dock[d] = "probed"
  /\ path' = Nobody
  /\ Goes(d, "unlinked")
  /\ UNCHANGED <<serving, kid, backlog, client>>

Bind(d) ==
  /\ dock[d] = "unlinked"
  /\ path' = IF path = Nobody THEN d ELSE path
  /\ Goes(d, IF path = Nobody THEN "bound" ELSE "failed")
  /\ UNCHANGED <<serving, kid, backlog, client>>

\* chmod works on the name, whoever owns it, and listen on the socket.
Listen(d) ==
  /\ dock[d] = "bound"
  /\ Goes(d, IF path = Nobody THEN "failed" ELSE "idle")
  /\ UNCHANGED <<path, serving, kid, backlog, client>>

-----------------------------------------------------------------------------
(* on_iq_ready *)

Accept(d) ==
  /\ dock[d] = "idle"
  /\ backlog[d] # <<>>
  /\ serving' = [serving EXCEPT ![d] = Head(backlog[d])]
  /\ backlog' = [backlog EXCEPT ![d] = Tail(@)]
  /\ Goes(d, "reading")
  /\ UNCHANGED <<path, kid, client>>

\* fgets returns a command; the answer is written and the connection closed.
Answer(d) ==
  /\ dock[d] = "reading"
  /\ serving[d] \in Clients /\ client[serving[d]] = "sent"
  /\ client' = [client EXCEPT ![serving[d]] = "answered"]
  /\ serving' = [serving EXCEPT ![d] = Nobody]
  /\ Goes(d, "idle")
  /\ UNCHANGED <<path, kid, backlog>>

\* Mutation: fgets is tried again until there is a command.
EndOfProbe(d) ==
  /\ dock[d] = "reading"
  /\ serving[d] = Probe
  /\ serving' = [serving EXCEPT ![d] = Nobody]
  /\ Goes(d, "idle")
  /\ UNCHANGED <<path, kid, backlog, client>>

\* fgets meets the end of the connection of one that sent nothing.
EndOfFile(d) ==
  /\ dock[d] = "reading"
  /\ \/ serving[d] = Probe
     \/ serving[d] \in Clients /\ client[serving[d]] = "left"
  /\ serving' = [serving EXCEPT ![d] = Nobody]
  /\ Goes(d, "idle")
  /\ UNCHANGED <<path, kid, backlog, client>>

-----------------------------------------------------------------------------
(* The end of a dock and of its children *)

Waiting == {"connected", "sent"}

\* Who waits on the connections in conns sees them closed.
Dropped(conns) ==
  [c \in Clients |-> IF c \in conns /\ client[c] \in Waiting THEN "dropped"
                     ELSE client[c]]

\* The dock is gone; its socket goes too unless a child holds it.
Exit(d) ==
  /\ Goes(d, "gone")
  /\ client' = Dropped({serving[d]} \cup
                       (IF kid[d] THEN {} ELSE ToSet(backlog[d])))
  /\ backlog' = IF kid[d] THEN backlog ELSE [backlog EXCEPT ![d] = <<>>]
  /\ serving' = [serving EXCEPT ![d] = Nobody]
  /\ UNCHANGED <<path, kid>>

\* The window is destroyed; nothing unlinks the name.
Quit(d) == dock[d] = "idle" /\ Exit(d)

\* Killed in the middle of a request.
Die(d) == dock[d] = "reading" /\ Exit(d)

\* The answer to a client that has gone raises SIGPIPE, and no handler is
\* installed.
AnswerNobody(d) ==
  /\ dock[d] = "reading"
  /\ serving[d] \in Clients /\ client[serving[d]] = "hungup"
  /\ Exit(d)

Fork(d) ==
  /\ dock[d] = "idle"
  /\ ~kid[d]
  /\ kid' = [kid EXCEPT ![d] = TRUE]
  /\ UNCHANGED <<path, dock, serving, backlog, client>>

\* Mutation: leaves those who wait on the socket where they are.
KidEndsQuietly(d) ==
  /\ kid[d]
  /\ kid' = [kid EXCEPT ![d] = FALSE]
  /\ UNCHANGED <<path, dock, serving, backlog, client>>

\* With the last holder of the socket those who wait on it are dropped.
KidEnds(d) ==
  /\ kid[d]
  /\ kid' = [kid EXCEPT ![d] = FALSE]
  /\ IF dock[d] \in Running
     THEN UNCHANGED <<backlog, client>>
     ELSE /\ client' = Dropped(ToSet(backlog[d]))
          /\ backlog' = [backlog EXCEPT ![d] = <<>>]
  /\ UNCHANGED <<path, dock, serving>>

-----------------------------------------------------------------------------
(* request, list and cancel *)

Becomes(c, what) == client' = [client EXCEPT ![c] = what]

\* iq_client_connect: the socket of a client blocks while the backlog is full.
Connect(c) ==
  /\ client[c] = "off"
  /\ \/ /\ ~Reachable
        /\ Becomes(c, "refused")
        /\ UNCHANGED backlog
     \/ /\ Reachable /\ ~Full(path)
        /\ Becomes(c, "connected")
        /\ backlog' = [backlog EXCEPT ![path] = Append(@, c)]
  /\ UNCHANGED <<path, dock, serving, kid>>

SendCommand(c) ==
  /\ client[c] = "connected"
  /\ Becomes(c, "sent")
  /\ UNCHANGED <<path, dock, serving, kid, backlog>>

\* The user interrupts a client, before or after it has sent its command.
Leave(c) ==
  /\ client[c] \in Waiting
  /\ Becomes(c, IF client[c] = "connected" THEN "left" ELSE "hungup")
  /\ UNCHANGED <<path, dock, serving, kid, backlog>>

-----------------------------------------------------------------------------
Starts(d) == Refused(d) \/ ProbeFails(d) \/ Unlink(d) \/ Bind(d) \/ Listen(d)
Serves(d) == Accept(d) \/ Answer(d) \/ EndOfFile(d) \/ AnswerNobody(d)

Next == \/ \E d \in Docks : \/ Starts(d) \/ Serves(d)
                            \/ Quit(d) \/ Die(d) \/ Fork(d) \/ KidEnds(d)
        \/ \E c \in Clients : Connect(c) \/ SendCommand(c) \/ Leave(c)

Spec == Init /\ [][Next]_vars

\* A dock that runs goes on with what its socket has for it.  Nothing makes a
\* download end, and nothing makes a client send or leave.
FairSpec == Spec /\ \A d \in Docks : WF_vars(Serves(d))

-----------------------------------------------------------------------------
(* Properties *)

Types ==
  /\ path \in Docks \cup {Nobody}
  /\ dock \in [Docks -> {"off", "refused", "failed", "gone"} \cup Starting
                         \cup Running]
  /\ serving \in [Docks -> Clients \cup {Probe, Nobody}]
  /\ kid \in [Docks -> BOOLEAN]
  /\ \A d \in Docks : /\ backlog[d] \in Seq(Clients \cup {Probe})
                      /\ backlog[d] # <<>> => Listening(d)
                      /\ dock[d] = "reading" <=> serving[d] # Nobody
  /\ client \in [Clients -> Waiting \cup
                   {"off", "refused", "answered", "left", "hungup", "dropped"}]

\* The connection of c is being served, or waits on a socket.
Held(c) == \E d \in Docks : serving[d] = c \/ c \in ToSet(backlog[d])

\* Connections wait only on a socket that somebody holds, and no client waits on
\* a connection that has got lost on its way from one process to another.
TypeOK == Types /\ \A c \in Clients : client[c] \in Waiting => Held(c)

\* A dock that has passed the test gets its socket, whatever the docks before it
\* have left behind: they may have been killed, and nobody unlinks the name.
StartSucceeds == \A d \in Docks : dock[d] # "failed"

\* A running dock can be reached by its name, so that there is one at most, if
\* docks are not started at the same time and the backlog does not fill up: the
\* test of iq_server_init is answered by a dock that is busy, and by the children
\* that are all that is left of one.
RunningReachable == \A d \in Docks : dock[d] \in Running => path = d

\* The dock on whose socket c waits is gone, and a download it has started
\* keeps the socket open.
Orphaned(c) == \E d \in Docks : /\ c \in ToSet(backlog[d])
                                /\ dock[d] \notin Running /\ kid[d]

\* The dock that c waits for reads from a client, perhaps c, that says nothing.
Silenced(c) == \E d \in Docks : /\ serving[d] = c \/ c \in ToSet(backlog[d])
                                /\ dock[d] = "reading" /\ serving[d] \in Clients
                                /\ client[serving[d]] = "connected"

\* Every client that has connected is answered, or sees its connection end, or
\* leaves, whatever becomes of the docks, unless from some time on its dock is
\* gone and a download it has started goes on, or its dock reads from a client
\* that says nothing: there is no other way to wait for ever.
NoClientLeftWaiting ==
  \A c \in Clients :
    client[c] \in Waiting
      ~> (client[c] \notin Waiting \/ [](Orphaned(c) \/ Silenced(c)))

=============================================================================
