---------------------------- MODULE RealtimeEvents ----------------------------
(***************************************************************************)
(* The events of one user on their way to the user's open pages: Redis'    *)
(* channel "user:<id>:events" (pkg/redis) and the streams that read it     *)
(* (endpoints/realtimeeventssse).                                          *)
(*                                                                         *)
(* A stream is two goroutines: the handler, which writes to the client,    *)
(* and a relay that SubscribeToUser leaves behind, which takes messages    *)
(* from the subscription and hands events over through an unbuffered       *)
(* channel.  They share a context, done when the client leaves or the      *)
(* handler returns, and nothing else tells one of the other's end.         *)
(*                                                                         *)
(* The library reads the subscription into a channel of Buffer messages,   *)
(* and drops one that finds it full for a minute; it connects again when   *)
(* the connection breaks.  Events are numbered in the order Redis got them.*)
(***************************************************************************)
EXTENDS Naturals, Sequences, FiniteSets

CONSTANTS
    Stream,
    Buffer,     \* messages the library's channel holds, 100
    MaxEvents,  \* bound on events published
    Garbage,    \* a message that is no event
    MaxGarbage, \* bound on them
    MaxLosses,  \* bound on broken connections
    None

Event == 1..MaxEvents

ASSUME ConstantsAssumption ==
    /\ Buffer \in Nat
    /\ MaxEvents \in Nat
    /\ MaxGarbage \in Nat
    /\ MaxLosses \in Nat
    /\ {Garbage, None} \cap Event = {}
    /\ Garbage # None

VARIABLES
    published,  \* number of events published
    garbage,    \* number of other messages published
    losses,
    handler,    \* where each stream's handler stands
    relay,      \* ... and its relay
    inHand,     \* the event the handler writes
    taken,      \* the event the relay wants to hand over
    sub,        \* the subscription
    pipe,       \* messages Redis sent that the relay has not taken
    left,       \* the server knows that the client is gone
    written,    \* what the client was sent
    due,        \* history: events published since it subscribed
    missed      \* history: those of them the library or the network lost

counters == <<published, garbage, losses>>
vars == <<counters, handler, relay, inHand, taken, sub, pipe, left, written,
          due, missed>>

TypeOK ==
    /\ published \in 0..MaxEvents
    /\ garbage \in 0..MaxGarbage
    /\ losses \in 0..MaxLosses
    /\ handler \in [Stream -> {"idle", "select", "write", "done"}]
    /\ relay \in [Stream -> {"none", "waiting", "sending", "gone"}]
    /\ inHand \in [Stream -> Event \cup {None}]
    /\ taken \in [Stream -> Event \cup {None}]
    /\ sub \in [Stream -> {"none", "open", "broken", "closed", "abandoned"}]
    /\ pipe \in [Stream -> Seq(Event \cup {Garbage})]
    /\ written \in [Stream -> Seq(Event)]
    /\ due \in [Stream -> SUBSET Event]
    /\ missed \in [Stream -> SUBSET Event]
    /\ left \in [Stream -> BOOLEAN]

Init ==
    /\ published = 0
    /\ garbage = 0
    /\ losses = 0
    /\ handler = [s \in Stream |-> "idle"]
    /\ relay = [s \in Stream |-> "none"]
    /\ inHand = [s \in Stream |-> None]
    /\ taken = inHand
    /\ sub = [s \in Stream |-> "none"]
    /\ pipe = [s \in Stream |-> <<>>]
    /\ left = [s \in Stream |-> FALSE]
    /\ written = pipe
    /\ due = [s \in Stream |-> {}]
    /\ missed = due

-----------------------------------------------------------------------------
(* Publications.                                                           *)

\* Redis sends a message to whoever is subscribed at the moment.
Deliver(m) ==
    pipe' = [s \in Stream |-> IF sub[s] = "open" THEN Append(pipe[s], m) ELSE pipe[s]]

PublishToUser ==
    LET e == published + 1 IN
    /\ published < MaxEvents
    /\ published' = e
    /\ Deliver(e)
    /\ due' = [s \in Stream |-> IF sub[s] \in {"open", "broken"}
                                THEN due[s] \cup {e} ELSE due[s]]
    /\ missed' = [s \in Stream |-> IF sub[s] = "broken"
                                   THEN missed[s] \cup {e} ELSE missed[s]]
    /\ UNCHANGED <<garbage, losses, handler, relay, inHand, taken, sub, left, written>>

\* Another program writes to the channel what is no event.
PublishGarbage ==
    /\ garbage < MaxGarbage
    /\ garbage' = garbage + 1
    /\ Deliver(Garbage)
    /\ UNCHANGED <<published, losses, handler, relay, inHand, taken, sub, left,
                   written, due, missed>>

-----------------------------------------------------------------------------
(* The library.                                                            *)

Without(seq, i) == [k \in 1..(Len(seq) - 1) |-> seq[IF k < i THEN k ELSE k + 1]]

\* Its channel was full for a minute.
Drop(s) ==
    /\ sub[s] \in {"open", "broken"}
    /\ Len(pipe[s]) > Buffer
    /\ pipe' = [pipe EXCEPT ![s] = Without(@, Buffer + 1)]
    /\ missed' = [missed EXCEPT ![s] = @ \cup ({pipe[s][Buffer + 1]} \ {Garbage})]
    /\ UNCHANGED <<counters, handler, relay, inHand, taken, sub, left, written, due>>

\* The connection breaks with some messages still on their way.
Break(s) ==
    /\ sub[s] = "open"
    /\ losses < MaxLosses
    /\ losses' = losses + 1
    /\ sub' = [sub EXCEPT ![s] = "broken"]
    /\ \E n \in 0..Len(pipe[s]) :
           /\ pipe' = [pipe EXCEPT ![s] = SubSeq(@, 1, n)]
           /\ missed' = [missed EXCEPT ![s] =
                  @ \cup ({pipe[s][k] : k \in (n + 1)..Len(pipe[s])} \ {Garbage})]
    /\ UNCHANGED <<published, garbage, handler, relay, inHand, taken, left,
                   written, due>>

Resubscribe(s) ==
    /\ sub[s] = "broken"
    /\ sub' = [sub EXCEPT ![s] = "open"]
    /\ UNCHANGED <<counters, handler, relay, inHand, taken, pipe, left, written,
                   due, missed>>

-----------------------------------------------------------------------------
(* SubscribeToUser and its goroutine.                                      *)

\* Redis has confirmed the subscription; the greeting's errors are ignored.
Subscribe(s) ==
    /\ handler[s] = "idle"
    /\ handler' = [handler EXCEPT ![s] = "select"]
    /\ relay' = [relay EXCEPT ![s] = "waiting"]
    /\ sub' = [sub EXCEPT ![s] = "open"]
    /\ UNCHANGED <<counters, inHand, taken, pipe, left, written, due, missed>>

\* The confirmation fails: 500, and the subscription is not closed.
SubscribeFails(s) ==
    /\ handler[s] = "idle"
    /\ handler' = [handler EXCEPT ![s] = "done"]
    /\ sub' = [sub EXCEPT ![s] = "abandoned"]
    /\ UNCHANGED <<counters, relay, inHand, taken, pipe, left, written, due, missed>>

\* The context of a stream: the request's, cancelled when the handler returns.
ContextDone(s) == left[s] \/ handler[s] = "done"

TakeOrDiscard(s) ==
    /\ relay[s] = "waiting"
    /\ pipe[s] # <<>>
    /\ pipe' = [pipe EXCEPT ![s] = Tail(@)]
    /\ IF Head(pipe[s]) = Garbage \/ handler[s] = "write"
       THEN UNCHANGED <<relay, taken>>
       ELSE /\ relay' = [relay EXCEPT ![s] = "sending"]
            /\ taken' = [taken EXCEPT ![s] = Head(pipe[s])]
    /\ UNCHANGED <<counters, handler, inHand, sub, left, written, due, missed>>

TakeAnything(s) ==
    /\ relay[s] = "waiting"
    /\ pipe[s] # <<>>
    /\ pipe' = [pipe EXCEPT ![s] = Tail(@)]
    /\ relay' = [relay EXCEPT ![s] = "sending"]
    /\ taken' = [taken EXCEPT ![s] = Head(pipe[s])]
    /\ UNCHANGED <<counters, handler, inHand, sub, left, written, due, missed>>

\* The relay receives a message; one that does not parse is logged.
Take(s) ==
    /\ relay[s] = "waiting"
    /\ pipe[s] # <<>>
    /\ pipe' = [pipe EXCEPT ![s] = Tail(@)]
    /\ IF Head(pipe[s]) = Garbage
       THEN UNCHANGED <<relay, taken>>
       ELSE /\ relay' = [relay EXCEPT ![s] = "sending"]
            /\ taken' = [taken EXCEPT ![s] = Head(pipe[s])]
    /\ UNCHANGED <<counters, handler, inHand, sub, left, written, due, missed>>

\* The channel is unbuffered: sender and receiver meet.
HandOver(s) ==
    /\ relay[s] = "sending"
    /\ handler[s] = "select"
    /\ relay' = [relay EXCEPT ![s] = "waiting"]
    /\ handler' = [handler EXCEPT ![s] = "write"]
    /\ inHand' = [inHand EXCEPT ![s] = taken[s]]
    /\ taken' = [taken EXCEPT ![s] = None]
    /\ UNCHANGED <<counters, sub, pipe, left, written, due, missed>>

ListensWaiting == {"waiting"}

\* Where a relay notices that the context is done.
Listens == {"waiting", "sending"}

\* It closes the subscription, then the channel.
RelayStops(s) ==
    /\ relay[s] \in Listens
    /\ ContextDone(s)
    /\ relay' = [relay EXCEPT ![s] = "gone"]
    /\ taken' = [taken EXCEPT ![s] = None]
    /\ sub' = [sub EXCEPT ![s] = "closed"]
    /\ UNCHANGED <<counters, handler, inHand, pipe, left, written, due, missed>>

-----------------------------------------------------------------------------
(* StreamEvents.                                                           *)

ClientLeaves(s) ==
    /\ handler[s] \in {"select", "write"}
    /\ ~left[s]
    /\ left' = [left EXCEPT ![s] = TRUE]
    /\ UNCHANGED <<counters, handler, relay, inHand, taken, sub, pipe, written,
                   due, missed>>

\* The event is written; if the client has left, that may go unnoticed.
Write(s) ==
    /\ handler[s] = "write"
    /\ handler' = [handler EXCEPT ![s] = "select"]
    /\ written' = [written EXCEPT ![s] = Append(@, inHand[s])]
    /\ inHand' = [inHand EXCEPT ![s] = None]
    /\ UNCHANGED <<counters, relay, taken, sub, pipe, left, due, missed>>

\* A write, or a heartbeat, fails: the connection is broken, whether the server
\* has cancelled the request for it yet or not.
WriteFails(s) ==
    /\ handler[s] \in {"select", "write"}
    /\ handler' = [handler EXCEPT ![s] = "done"]
    /\ inHand' = [inHand EXCEPT ![s] = None]
    /\ UNCHANGED <<counters, relay, taken, sub, pipe, left, written, due, missed>>

\* The handler notices that the context is done, or that the relay is gone.
HandlerStops(s) ==
    /\ handler[s] = "select"
    /\ left[s] \/ relay[s] = "gone"
    /\ handler' = [handler EXCEPT ![s] = "done"]
    /\ UNCHANGED <<counters, relay, inHand, taken, sub, pipe, left, written, due,
                   missed>>

-----------------------------------------------------------------------------
Next ==
    \/ PublishToUser \/ PublishGarbage
    \/ \E s \in Stream :
           \/ Drop(s) \/ Break(s) \/ Resubscribe(s)
           \/ Subscribe(s) \/ SubscribeFails(s)
           \/ Take(s) \/ HandOver(s) \/ RelayStops(s)
           \/ ClientLeaves(s) \/ Write(s) \/ WriteFails(s) \/ HandlerStops(s)

Spec == Init /\ [][Next]_vars

\* A select that has several ready cases chooses one at random, so a case that
\* is ready again and again is chosen (strong fairness).  A write ends only
\* if the client reads, which it need not do, or has left.
FairSpec ==
    /\ Spec
    /\ \A s \in Stream : /\ SF_vars(HandlerStops(s))
                         /\ SF_vars(RelayStops(s))
                         /\ WF_vars(left[s] /\ handler[s] = "write"
                                        /\ (Write(s) \/ WriteFails(s)))

-----------------------------------------------------------------------------
(* Properties.                                                             *)

One(e) == IF e = None THEN <<>> ELSE <<e>>

\* What a stream has on its way, the oldest first.
Line(s) == written[s] \o One(inHand[s]) \o One(taken[s]) \o pipe[s]

Events(messages) == {messages[i] : i \in DOMAIN messages} \ {Garbage}

\* No event comes twice, and none after a later one.
InOrder(messages) ==
    \A i, j \in DOMAIN messages :
        i < j /\ Garbage \notin {messages[i], messages[j]}
            => messages[i] < messages[j]

Arriving(s) == due[s] \ missed[s]

Runs(s) == handler[s] \in {"select", "write"} /\ relay[s] \in {"waiting", "sending"}

\* Of what arrives, the first that is there before anything later.
IsFirstOf(events, all) ==
    /\ events \subseteq all
    /\ \A e \in events, d \in all : d < e => d \in events

\* A stream repeats and swaps nothing, and skips nothing as long as it runs:
\* what was written, what the two goroutines hold and what waits in the pipe
\* are together the events published since it subscribed, but for those the
\* library or the network lost; and the client of a stream that has ended got
\* the first of them.
\* (SubscribeToUser, StreamEvents)
EventsArriveInOrder ==
    \A s \in Stream :
        /\ InOrder(Line(s))
        /\ Runs(s) => Events(Line(s)) = Arriving(s)
        /\ IsFirstOf(Events(written[s]), Arriving(s))

\* A stream whose client leaves, or whose handler returns, ends as a whole:
\* handler, relay and subscription, even when the relay is about to hand over
\* an event nobody will receive.
\* (SubscribeToUser: the inner select and the deferred Close; StreamEvents:
\* defer cancel)
StreamsEndAsAWhole ==
    \A s \in Stream :
        (left[s] \/ handler[s] = "done") /\ relay[s] # "none" ~>
            handler[s] = "done" /\ relay[s] = "gone" /\ sub[s] = "closed"

-----------------------------------------------------------------------------
(* The inductive invariant behind them.                                    *)

\* What is published since a stream subscribed, lost or not, is published.
HistoryOf(s) == missed[s] \subseteq due[s] /\ due[s] \subseteq 1..published

\* Where the goroutines stand is what they hold and what Redis sends them.
Holds(s) ==
    /\ handler[s] = "write" <=> inHand[s] # None
    /\ relay[s] = "sending" <=> taken[s] # None
    /\ relay[s] \in Listens <=> sub[s] \in {"open", "broken"}
    /\ handler[s] = "idle" => /\ relay[s] = "none" /\ sub[s] = "none"
                              /\ written[s] = <<>> /\ pipe[s] = <<>>
                              /\ due[s] = {}
    /\ relay[s] = "none" => handler[s] \in {"idle", "done"}

Before(A, B) == \A a \in A, b \in B : a < b

\* The parts of the line are in order, and one is before the next.
PartsInOrder(s) ==
    LET sent == Events(written[s])
        hand == {inHand[s]} \ {None}
        next == {taken[s]} \ {None}
        rest == Events(pipe[s])
    IN /\ InOrder(written[s]) /\ InOrder(pipe[s])
       /\ Before(sent, hand \cup next \cup rest)
       /\ Before(hand, next \cup rest)
       /\ Before(next, rest)

EventsOf(s) ==
    Events(written[s]) \cup ({inHand[s], taken[s]} \ {None}) \cup Events(pipe[s])

\* An ended stream still holds only what arrives, and what was to be written
\* when it ended is the first of it.
Loses(s) ==
    /\ EventsOf(s) \subseteq Arriving(s)
    /\ Runs(s) => EventsOf(s) = Arriving(s)
    /\ IsFirstOf(Events(written[s]), Arriving(s))
    /\ IsFirstOf(Events(written[s]) \cup ({inHand[s]} \ {None}), Arriving(s))

Flows(s) == HistoryOf(s) /\ Holds(s) /\ PartsInOrder(s) /\ Loses(s)

IndInv ==
    /\ TypeOK
    /\ \A s \in Stream : Flows(s)
=============================================================================
