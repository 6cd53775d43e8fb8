-------------------------------- MODULE Listener -------------------------------
(***************************************************************************)
(* The stream of change hints from the database to one consumer: the       *)
(* LISTEN connection and the buffers of listener.go, opened by Changes of  *)
(* changes.go, and the filtered subscription of watch.go.                  *)
(*                                                                         *)
(* A hint is "match" or "other", as the consumer's filter sees it, or the  *)
(* in-band "reset".  The consumer refetches when it receives a hint.       *)
(* stale says that something it watches changed since its last refetch.    *)
(***************************************************************************)
EXTENDS Integers, Sequences

CONSTANTS
  SrcBuffer,    \* changeBuffer
  OutBuffer,    \* the Watcher's buffer
  MaxInFlight   \* bound on notifications on the connection

ASSUME Buffers == SrcBuffer \in Nat \ {0} /\ OutBuffer \in Nat \ {0}

VARIABLES
  loop,      \* listenLoop: "off", "backoff", "listening", "live" or "lost"
  wire,      \* notifications on the connection
  connected, \* the flag
  sub,       \* "none", "open" or "closed"
  src,       \* the subscriber's channel
  overflowed,
  out,       \* the channel Watch returned
  pending,   \* pendingReset of the Watch goroutine
  first,     \* what the consumer received first
  stale

listening == <<loop, wire, connected>>
watching == <<out, pending>>
listenerVars == <<listening, sub, src, overflowed, watching, first, stale>>

ListenerInit ==
  /\ loop = "off" /\ wire = <<>> /\ connected = FALSE
  /\ sub = "none" /\ src = <<>> /\ overflowed = FALSE
  /\ out = <<>> /\ pending = FALSE
  /\ first = "nothing"
  /\ stale = TRUE

\* A transaction commits a change: its trigger notifies who listens.
Change(hint) ==
  /\ Len(wire) < MaxInFlight
  /\ stale' = (stale \/ hint = "match")
  /\ wire' = IF loop \in {"listening", "live"} THEN Append(wire, hint) ELSE wire
  /\ UNCHANGED <<loop, connected, sub, src, overflowed, watching, first>>

\* Mutant: the opening reset is left to the connection, also when it is there.
SubscribeBare ==
  /\ sub = "none"
  /\ sub' = "open"
  /\ loop' = IF loop = "off" THEN "backoff" ELSE loop
  /\ UNCHANGED <<wire, connected, src, overflowed, watching, first, stale>>

\* subscribe, with ensureStartedLocked: the opening reset goes out at once only
\* when the stream is live.
subscribe ==
  /\ sub = "none"
  /\ sub' = "open"
  /\ loop' = IF loop = "off" THEN "backoff" ELSE loop
  /\ src' = IF connected THEN <<"reset">> ELSE <<>>
  /\ UNCHANGED <<wire, connected, overflowed, watching, first, stale>>

\* Another subscriber of the store makes ensureStartedLocked start the loop.
OtherSubscribes ==
  /\ loop = "off"
  /\ loop' = "backoff"
  /\ UNCHANGED <<wire, connected, sub, src, overflowed, watching, first, stale>>

\* deliverLocked: what is in the channel and the flag after v.
deliverLocked(v) ==
  LET opened == IF overflowed THEN Append(src, "reset") ELSE src IN
  IF Len(opened) > SrcBuffer THEN <<src, TRUE>>
  ELSE IF Len(opened) = SrcBuffer THEN <<opened, TRUE>> ELSE <<Append(opened, v), FALSE>>

Deliver(v) ==
  IF sub # "open" THEN UNCHANGED <<src, overflowed>>
  ELSE src' = deliverLocked(v)[1] /\ overflowed' = deliverLocked(v)[2]

\* listenOnce connects and issues LISTEN.
listenOnce ==
  /\ loop = "backoff"
  /\ loop' = "listening" /\ wire' = <<>>
  /\ UNCHANGED <<connected, sub, src, overflowed, watching, first, stale>>

\* Mutant: only the first connection announces itself.
MarkConnected ==
  /\ loop = "listening"
  /\ loop' = "live" /\ connected' = TRUE
  /\ IF first = "nothing" THEN Deliver("reset") ELSE UNCHANGED <<src, overflowed>>
  /\ UNCHANGED <<wire, sub, watching, first, stale>>

markConnectedAndReset ==
  /\ loop = "listening"
  /\ loop' = "live" /\ connected' = TRUE
  /\ Deliver("reset")
  /\ UNCHANGED <<wire, sub, watching, first, stale>>

\* WaitForNotification returns a payload that parses and has the store's schema.
broadcast ==
  /\ loop = "live" /\ wire # <<>>
  /\ Deliver(Head(wire))
  /\ wire' = Tail(wire)
  /\ UNCHANGED <<loop, connected, sub, watching, first, stale>>

\* The connection is lost, with what is on it.
LoseConnection ==
  /\ loop \in {"listening", "live"}
  /\ loop' = "lost" /\ wire' = <<>>
  /\ UNCHANGED <<connected, sub, src, overflowed, watching, first, stale>>

\* listenOnce has returned, and listenLoop goes on after its backoff.
markDisconnected ==
  /\ loop = "lost"
  /\ loop' = "backoff" /\ connected' = FALSE
  /\ UNCHANGED <<wire, sub, src, overflowed, watching, first, stale>>

\* Mutant: a consumer that is behind has to wait for a reset of the connection.
ForwardStuck(c) ==
  IF c = "other" \/ (pending /\ c # "reset") THEN <<out, pending>>
  ELSE IF Len(out) >= OutBuffer THEN <<out, TRUE>> ELSE <<Append(out, c), FALSE>>

\* One round of the Watch goroutine for a hint c: what is in its channel and the
\* flag after it.
Forward(c) ==
  LET opened == IF pending /\ c # "reset" THEN Append(out, "reset") ELSE out IN
  IF c = "other" THEN <<out, pending>>
  ELSE IF Len(opened) >= OutBuffer
  THEN IF Len(opened) > OutBuffer THEN <<out, TRUE>> ELSE <<opened, TRUE>>
  ELSE <<Append(opened, c), FALSE>>

Watch ==
  /\ src # <<>>
  /\ src' = Tail(src)
  /\ out' = Forward(Head(src))[1] /\ pending' = Forward(Head(src))[2]
  /\ UNCHANGED <<listening, sub, overflowed, first, stale>>

\* The consumer receives a hint and refetches.
Consume ==
  /\ out # <<>>
  /\ out' = Tail(out)
  /\ first' = IF first = "nothing" THEN Head(out) ELSE first
  /\ stale' = FALSE
  /\ UNCHANGED <<listening, sub, src, overflowed, pending>>

\* removeSubscriber: its ctx ends, or the store closes.  What is in the channels
\* can still be received.
removeSubscriber ==
  /\ sub = "open"
  /\ sub' = "closed"
  /\ UNCHANGED <<listening, src, overflowed, watching, first, stale>>

Loop == listenOnce \/ markConnectedAndReset \/ broadcast \/ markDisconnected

ListenerNext ==
  \/ \E hint \in {"match", "other"} : Change(hint)
  \/ subscribe \/ removeSubscriber \/ OtherSubscribes
  \/ Loop \/ LoseConnection
  \/ Watch \/ Consume

ListenerSpec == ListenerInit /\ [][ListenerNext]_listenerVars

-------------------------------------------------------------------------------

\* driver.go, "The first delivery on every subscription is a ChangeReset".
FirstIsReset == first \in {"nothing", "reset"}

Tells(channel) == \E k \in DOMAIN channel : channel[k] # "other"

\* driver.go, a change "is observed, or its loss is announced by a further reset":
\* a consumer that is behind has a hint on its way, or one of the flags that turn
\* into a reset is up, or the connection is not live and announces itself when it
\* is.
GapAnnounced ==
  sub = "open" /\ stale =>
    \/ Tells(wire) \/ Tells(src) \/ Tells(out)
    \/ overflowed \/ pending
    \/ loop # "live"

\* Goroutines run, the connection is made again.
ListenerFairness == WF_listenerVars(Loop) /\ WF_listenerVars(Watch) /\ WF_listenerVars(Consume)

\* watch.go, "a slow consumer sees 'refetch' instead of a silent gap": a
\* consumer that is behind refetches.
StaleRefetches ==
  <>[][~LoseConnection]_listenerVars =>
    (sub = "open" /\ stale ~> ~stale \/ sub = "closed")

\* So it does as long as what it watches keeps changing.
GapCloses == []<><<Change("match")>>_listenerVars => StaleRefetches
===============================================================================
