------------------------------- MODULE DaLoop -------------------------------
(***************************************************************************)
(* The main loop of wmget's dockapp library (dockapp/da_run.c) and the     *)
(* callback it runs when the X connection is readable (dockapp/da_x.c).    *)
(* dockapp_run calls the periodic callback when it is due, polls the file  *)
(* descriptors, and runs the callbacks of the ready ones.  Events of the X *)
(* server wait at two places: on the socket, which poll sees, and in the   *)
(* queue of Xlib, which it does not see.                                   *)
(*                                                                         *)
(* Environment: the X server sends events, clients connect, time passes.   *)
(* One tick is a millisecond of the loop's arithmetic.                     *)
(***************************************************************************)
EXTENDS Integers, Sequences, SequencesExt

CONSTANTS
  Interval,    \* da_timer_interval_msec
  Slip,        \* ticks that may pass between the two looks at the clock
  MaxEvents,   \* bound on the events sent that are not mere motion
  MaxClients   \* bound on the connections made

ASSUME BoundsAssumption ==
  /\ Interval \in Nat \ {0}
  /\ {Slip, MaxEvents, MaxClients} \subseteq Nat

VARIABLES
  pc,       \* where dockapp_run is
  left,     \* msec until da_timer_next_timeout, -1 for any time after it
  wait,     \* what is left of poll's timeout; Forever: none
  slip,     \* ticks since the first look at the clock
  ready,    \* the callbacks collected after poll
  wire,     \* events on the X socket
  xq,       \* events in the queue of Xlib
  clients,  \* connections waiting on the listening socket
  connects, \* connections made so far
  asking,   \* "no", "asked": XConvertSelection sent, "owed": cb not called yet
  sent,     \* history: events the X server has sent
  handled,  \* history: events taken from the queue by da_xfd_callback
  exitAsked \* history: a callback returned dockapp_exit

timer == <<left, wait, slip>>
queues == <<wire, xq, sent, handled, asking>>
iq == <<clients, connects>>
vars == <<pc, left, wait, slip, ready, wire, xq, clients, connects, asking,
          sent, handled, exitAsked>>

Forever == -1
Callbacks == {"x", "iq"}
Event == {"press", "release", "expose", "motion", "string", "none", "destroy"}

\* The events that are not of these kinds, in their order.
Without(kinds, events) ==
  LET F[n \in 0 .. Len(events)] ==
        IF n = 0 THEN <<>>
        ELSE IF events[n] \in kinds THEN F[n - 1]
        ELSE Append(F[n - 1], events[n])
  IN F[Len(events)]

\* The events that must not get lost.
Kept(events) == Without({"expose", "motion"}, events)

\* What Xlib reads from the socket.  The switch of da_xfd_callback has no case
\* for motion: it is left out of the queue.
Read(events) == Without({"motion"}, events)
NoExpose(events) == Without({"expose"}, events)

Init == /\ pc = "top"
        /\ left = Interval /\ wait = 0 /\ slip = 0
        /\ ready = <<>>
        /\ wire = <<>> /\ xq = <<>> /\ sent = <<>> /\ handled = <<>>
        /\ clients = 0 /\ connects = 0
        /\ asking = "no"
        /\ exitAsked = FALSE

-----------------------------------------------------------------------------
(* The environment *)

Send(e) ==
  /\ Len(sent) < MaxEvents
  /\ "destroy" \notin ToSet(sent)
  /\ pc # "done"
  /\ e \in {"string", "none"} => asking = "asked"
  /\ wire' = Append(wire, e)
  /\ sent' = Append(sent, e)
  /\ asking' = IF e \in {"string", "none"} THEN "owed" ELSE asking
  /\ UNCHANGED <<pc, left, wait, slip, ready, xq, clients, connects, handled,
                 exitAsked>>

\* The pointer moves over the window while the loop sleeps.
Move ==
  /\ pc = "poll"
  /\ "motion" \notin ToSet(wire)
  /\ wire' = Append(wire, "motion")
  /\ UNCHANGED <<pc, left, wait, slip, ready, xq, clients, connects, asking,
                 sent, handled, exitAsked>>

Connect ==
  /\ connects < MaxClients
  /\ pc # "done"
  /\ clients' = clients + 1 /\ connects' = connects + 1
  /\ UNCHANGED <<pc, timer, ready, queues, exitAsked>>

Tick ==
  /\ pc # "done"
  /\ left > -1 \/ wait > 0
  /\ pc = "looked" => slip < Slip
  /\ left' = IF left > -1 THEN left - 1 ELSE left
  /\ wait' = IF pc = "poll" /\ wait > 0 THEN wait - 1 ELSE wait
  /\ slip' = IF pc = "looked" THEN slip + 1 ELSE slip
  /\ UNCHANGED <<pc, ready, queues, iq, exitAsked>>

-----------------------------------------------------------------------------
(* dockapp_run: the timer *)

\* da_redraw_icon: XCheckTypedWindowEvent takes the Expose events of the window
\* in event.xany.window out of the queue, and on the way reads the socket
\* empty.  That field is never set, so no event or all of a window may go.
Redraw ==
  /\ LET all == xq \o Read(wire) IN xq' \in {all, NoExpose(all)}
  /\ wire' = <<>>

\* The callback of wmget: process_queue, then draw_pbars unless a job could not
\* be started.  What the callback returns is dropped.
TimerDue ==
  /\ pc = "top"
  /\ left <= 0
  /\ \/ Redraw /\ UNCHANGED exitAsked
     \/ exitAsked' = TRUE /\ UNCHANGED <<wire, xq>>
  /\ left' = Interval
  /\ pc' = "looked"
  /\ UNCHANGED <<wait, slip, ready, iq, asking, sent, handled>>

TimerNotDue ==
  /\ pc = "top"
  /\ left > 0
  /\ pc' = "looked"
  /\ UNCHANGED <<timer, ready, queues, iq, exitAsked>>

\* Mutation: sleeps a tick less than what is left, so as not to be late.
SetTimeoutEarly ==
  /\ pc = "looked"
  /\ wait' = left - 1
  /\ slip' = 0
  /\ pc' = "poll"
  /\ UNCHANGED <<left, ready, queues, iq, exitAsked>>

\* The second look at the clock; poll takes a negative timeout as none.
SetTimeout ==
  /\ pc = "looked"
  /\ wait' = IF left < 0 THEN Forever ELSE left
  /\ slip' = 0
  /\ pc' = "poll"
  /\ UNCHANGED <<left, ready, queues, iq, exitAsked>>

-----------------------------------------------------------------------------
(* dockapp_run: poll and the callbacks *)

\* The X connection is the first of the pollfds, the socket of iq.c the second.
Readable == (IF wire # <<>> THEN <<"x">> ELSE <<>>)
            \o (IF clients > 0 THEN <<"iq">> ELSE <<>>)

PollTimesOut ==
  /\ pc = "poll"
  /\ Readable = <<>> /\ wait = 0
  /\ pc' = "top"
  /\ UNCHANGED <<timer, ready, queues, iq, exitAsked>>

\* EINTR: a signal comes before any descriptor is ready.
PollFails ==
  /\ pc = "poll"
  /\ Readable = <<>>
  /\ pc' = "top"
  /\ UNCHANGED <<timer, ready, queues, iq, exitAsked>>

\* Mutation: the loop that collects the callbacks stops one short.
PollMissesLast ==
  /\ pc = "poll"
  /\ Readable # <<>>
  /\ ready' = Front(Readable)
  /\ pc' = "dispatch"
  /\ UNCHANGED <<timer, queues, iq, exitAsked>>

PollReturns ==
  /\ pc = "poll"
  /\ Readable # <<>>
  /\ ready' = Readable
  /\ pc' = "dispatch"
  /\ UNCHANGED <<timer, queues, iq, exitAsked>>

\* Mutation: the loop over the callbacks does not go on to the next one.
RunIqAgain ==
  /\ pc = "dispatch"
  /\ ready # <<>> /\ Head(ready) = "iq"
  /\ clients' = clients - 1
  /\ UNCHANGED <<pc, timer, ready, queues, connects, exitAsked>>

\* on_iq_ready accepts one connection and answers it.
RunIq ==
  /\ pc = "dispatch"
  /\ ready # <<>> /\ Head(ready) = "iq"
  /\ ready' = Tail(ready)
  /\ clients' = clients - 1
  /\ UNCHANGED <<pc, timer, queues, connects, exitAsked>>

\* Mutation: XSync (display, True), what was there before is dropped.
RunXDiscards ==
  /\ pc = "dispatch"
  /\ ready # <<>> /\ Head(ready) = "x"
  /\ ready' = Tail(ready)
  /\ xq' = Read(wire) /\ wire' = <<>>
  /\ pc' = "events"
  /\ UNCHANGED <<timer, iq, asking, sent, handled, exitAsked>>

\* da_xfd_callback: XSync (display, False) reads the socket empty.
RunX ==
  /\ pc = "dispatch"
  /\ ready # <<>> /\ Head(ready) = "x"
  /\ ready' = Tail(ready)
  /\ xq' = xq \o Read(wire) /\ wire' = <<>>
  /\ pc' = "events"
  /\ UNCHANGED <<timer, iq, asking, sent, handled, exitAsked>>

DispatchEnds ==
  /\ pc = "dispatch"
  /\ ready = <<>>
  /\ pc' = "top"
  /\ UNCHANGED <<timer, ready, queues, iq, exitAsked>>

-----------------------------------------------------------------------------
(* da_xfd_callback: while (XPending) *)

\* XPending reads the socket only when the queue is empty.
Pending == IF xq = <<>> THEN Read(wire) ELSE xq

Unread == IF xq = <<>> THEN <<>> ELSE wire

\* XNextEvent returned e; what remains is in the queue.
Take(e) ==
  /\ pc = "events"
  /\ Pending # <<>> /\ Head(Pending) = e
  /\ handled' = Append(handled, e)

NoEvent ==
  /\ pc = "events"
  /\ Pending = <<>>
  /\ wire' = <<>>
  /\ pc' = "dispatch"
  /\ UNCHANGED <<timer, ready, iq, xq, asking, sent, handled, exitAsked>>

\* da_mouse_button_down notes where, for the release.
Press ==
  /\ Take("press")
  /\ xq' = Tail(Pending) /\ wire' = Unread
  /\ UNCHANGED <<pc, timer, ready, iq, asking, sent, exitAsked>>

\* What the handler of the event leaves behind: it asks the X server nothing, or
\* waits for an answer, which Xlib reads after all that is on the socket.
AsksNothing == xq' = Tail(Pending) /\ wire' = Unread
RoundTrip   == xq' = Tail(Pending) \o Read(Unread) /\ wire' = <<>>

\* da_mouse_button_up runs the callbacks of the regions that were hit, and its
\* return leaves da_xfd_callback with the rest of the queue untouched.  A
\* middle click asks for the selection; Xlib may know the atom already.
Release ==
  /\ Take("release")
  /\ \/ AsksNothing /\ asking' \in {asking, "asked"}
     \/ RoundTrip /\ asking' = "asked"
  /\ pc' = "dispatch"
  /\ UNCHANGED <<timer, ready, iq, sent, exitAsked>>

\* da_receive_selection fetches the string and calls back with it, and not when
\* there is none, or one of another type; it too leaves with the rest of the
\* queue untouched.
Selection ==
  /\ \/ Take("string") /\ RoundTrip /\ asking' = "no"
     \/ Take("none") /\ (AsksNothing \/ RoundTrip) /\ UNCHANGED asking
  /\ pc' = "dispatch"
  /\ UNCHANGED <<timer, ready, iq, sent, exitAsked>>

\* da_redraw_icon, on what is left of the queue and the socket.
Expose ==
  /\ Take("expose")
  /\ LET rest == Tail(Pending) \o Read(Unread) IN
       xq' \in {rest, NoExpose(rest)}
  /\ wire' = <<>>
  /\ UNCHANGED <<pc, timer, ready, iq, asking, sent, exitAsked>>

Destroy ==
  /\ Take("destroy")
  /\ xq' = Tail(Pending) /\ wire' = Unread
  /\ exitAsked' = TRUE
  /\ pc' = "done"
  /\ UNCHANGED <<timer, ready, iq, asking, sent>>

-----------------------------------------------------------------------------
Events == NoEvent \/ Press \/ Release \/ Selection \/ Expose \/ Destroy

Loop == \/ TimerDue \/ TimerNotDue \/ SetTimeout
        \/ PollTimesOut \/ PollReturns
        \/ RunIq \/ RunX \/ DispatchEnds
        \/ Events

Environment == \/ \E e \in Event \ {"motion"} : Send(e)
               \/ Move \/ Connect \/ Tick

Next == Loop \/ PollFails \/ Environment

Spec == Init /\ [][Next]_vars

\* The process runs and time passes.
FairSpec == Spec /\ WF_vars(Loop) /\ WF_vars(Tick)

-----------------------------------------------------------------------------
(* Properties *)

\* The timeout of poll, the callbacks collected and the connections counted are
\* what dockapp_run and poll can bear.
TypeOK == /\ pc \in {"top", "looked", "poll", "dispatch", "events", "done"}
          /\ left \in -1 .. Interval /\ wait \in -1 .. Interval
          /\ slip \in 0 .. Slip
          /\ ready \in {<<>>, <<"x">>, <<"iq">>, <<"x", "iq">>}
          /\ {wire, xq, sent, handled} \subseteq Seq(Event)
          /\ clients \in 0 .. MaxClients /\ connects \in 0 .. MaxClients
          /\ asking \in {"no", "asked", "owed"}
          /\ exitAsked \in BOOLEAN

\* Between the socket, the queue of Xlib and the handlers no click, selection or
\* destruction is lost, duplicated or overtaken, whichever of the redraw of the
\* timer, XSync and XPending moves the events and wherever da_xfd_callback
\* returns early.
EventsInOrder == Kept(handled) \o Kept(xq) \o Kept(wire) = Kept(sent)

\* The periodic callback is called again and again until the dockapp exits, as
\* long as hardly any time passes between the loop's two looks at the clock.
TimerFires == <>(pc = "done") \/ []<><<TimerDue>>_vars

\* Every connection is accepted until the dockapp exits.
ClientsServed == clients > 0 ~> (pc = "done" \/ clients = 0)

\* An event that is not mere motion is handled in the end if the pointer keeps
\* coming back to the window; nothing else makes the loop look into the queue of
\* Xlib again.
EventsHandled ==
  []<><<Move>>_vars =>
    \A n \in 1 .. MaxEvents :
      Len(Kept(sent)) >= n ~> (pc = "done" \/ Len(Kept(handled)) >= n)

=============================================================================
