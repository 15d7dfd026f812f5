------------------------------- MODULE TurnFeed -------------------------------
(***************************************************************************)
(* A session's turns as its connections see them: each turn's channel and  *)
(* pump into the feed, the feed's ring and broadcast (session.rs,          *)
(* TurnFeed), the relay each connection holds (daemon.rs, attach_feed and  *)
(* the binding commands of run) and the end of a turn (TurnEnd).           *)
(*                                                                         *)
(* What the feed publishes is one growing log.  The ring is derived from   *)
(* it, and a broadcast receiver is a position in it, so publishing and     *)
(* attaching, which take the ring's lock, are one step each.  A Conn is    *)
(* one socket: a client that reconnects is another Conn.  An event is      *)
(* known by its turn and its kind; "answer" stands for every event that is *)
(* neither a streamed delta nor the first or last of its turn.             *)
(***************************************************************************)
EXTENDS Integers, Sequences, FiniteSets

CONSTANTS
  Turn,      \* the session's Prompt turns
  Conn,      \* the connections bound to the session
  RingCap,   \* FEED_RING: events kept for a later attachment
  LiveCap,   \* capacity of the broadcast channel
  QueueCap,  \* capacity of a turn's channel
  MaxEvents, \* bound: events of all turns besides their first and last
  MaxBinds   \* bound: attachments of one connection

ASSUME CapsAssumption == {RingCap, LiveCap, QueueCap} \subseteq Nat \ {0}
ASSUME BoundsAssumption == MaxEvents \in Nat /\ MaxBinds \in Nat

VARIABLES
  stage,      \* where each turn's handler is
  emitted,    \* events sent besides first and last ones, of MaxEvents
  queue,      \* each turn's channel to its pump
  published,  \* every event the feed published, in order
  mode,       \* what each connection's command loop is doing
  relay,      \* the relay each connection holds
  aborted,    \* relays aborted that have not stopped yet
  backlog,    \* the positions an attachment has still to replay
  attachedAt, \* history: events published before each attachment
  sent        \* history: what each attachment sent its connection, in order

turnVars == <<stage, emitted, queue, published>>
connVars == <<mode, relay, aborted, backlog, attachedAt, sent>>
vars == <<turnVars, connVars>>

-----------------------------------------------------------------------------
Event == [turn : Turn, kind : {"started", "delta", "answer", "complete"}]

Stages == {"unsent", "running", "ended", "closed"}

\* session.turns: registered by the Prompt, removed by TurnEnd.
Registered == {t \in Turn : stage[t] = "running"}

NoRelay == [next |-> 0, bind |-> 0]

\* A relay reads the log from next on, for its connection's bind-th attachment.
Relay == [next : Nat, bind : Nat]

\* What a relay or a replay sends: an event, or that events were missed.
Entry == [from : Nat, to : Nat, missed : BOOLEAN]

NothingSent == [k \in 1..MaxBinds |-> <<>>]

TypeOK ==
  /\ stage \in [Turn -> Stages]
  /\ emitted \in 0..MaxEvents
  /\ queue \in [Turn -> Seq(Event)]
  /\ \A t \in Turn : Len(queue[t]) <= QueueCap
  /\ published \in Seq(Event)
  /\ mode \in [Conn -> {"open", "binding", "replaying", "closed"}]
  /\ relay \in [Conn -> Relay]
  /\ aborted \in [Conn -> SUBSET Relay]
  /\ backlog \in [Conn -> SUBSET Nat]
  /\ attachedAt \in [Conn -> Seq(Nat)]
  /\ sent \in [Conn -> [1..MaxBinds -> Seq(Entry)]]
  /\ \A c \in Conn : backlog[c] # {} => mode[c] = "replaying"

Init ==
  /\ stage = [t \in Turn |-> "unsent"]
  /\ emitted = 0
  /\ queue = [t \in Turn |-> <<>>]
  /\ published = <<>>
  /\ mode = [c \in Conn |-> "open"]
  /\ relay = [c \in Conn |-> NoRelay]
  /\ aborted = [c \in Conn |-> {}]
  /\ backlog = [c \in Conn |-> {}]
  /\ attachedAt = [c \in Conn |-> <<>>]
  /\ sent = [c \in Conn |-> NothingSent]

-----------------------------------------------------------------------------
(* A turn, from its Prompt to its TurnComplete. *)

Send(t, kind) ==
  /\ Len(queue[t]) < QueueCap
  /\ queue' = [queue EXCEPT ![t] = Append(@, [turn |-> t, kind |-> kind])]

\* The turn is registered, then its first event sent; a Prompt runs in a task
\* of its own, so the connection that sent it may close at once.
Prompt(t) ==
  /\ stage[t] = "unsent"
  /\ \E c \in Conn : mode[c] = "open" /\ relay[c] # NoRelay
  /\ stage' = [stage EXCEPT ![t] = "running"]
  /\ Send(t, "started")
  /\ UNCHANGED <<emitted, published, connVars>>

Emit(t, kind) ==
  /\ stage[t] = "running"
  /\ emitted < MaxEvents
  /\ emitted' = emitted + 1
  /\ Send(t, kind)
  /\ UNCHANGED <<stage, published, connVars>>

\* Faulty: TurnComplete is sent before the turn is unregistered.
EndTurnAfterComplete(t) ==
  /\ stage[t] = "running"
  /\ Send(t, "complete")
  /\ UNCHANGED <<stage, emitted, published, connVars>>

\* TurnEnd is dropped: the turn is no longer registered.
EndTurn(t) ==
  /\ stage[t] = "running"
  /\ stage' = [stage EXCEPT ![t] = "ended"]
  /\ UNCHANGED <<emitted, queue, published, connVars>>

\* Faulty: TurnComplete is published by its task, past the turn's channel.
PublishComplete(t) ==
  /\ stage[t] = "ended"
  /\ stage' = [stage EXCEPT ![t] = "closed"]
  /\ published' = Append(published, [turn |-> t, kind |-> "complete"])
  /\ UNCHANGED <<emitted, queue, connVars>>

\* The task TurnEnd spawned sends TurnComplete.
SendComplete(t) ==
  /\ stage[t] = "ended"
  /\ stage' = [stage EXCEPT ![t] = "closed"]
  /\ Send(t, "complete")
  /\ UNCHANGED <<emitted, published, connVars>>

\* The turn's pump publishes the next event of its channel.
Publish(t) ==
  /\ queue[t] # <<>>
  /\ published' = Append(published, Head(queue[t]))
  /\ queue' = [queue EXCEPT ![t] = Tail(@)]
  /\ UNCHANGED <<stage, emitted, connVars>>

-----------------------------------------------------------------------------
(* The feed. *)

\* The positions of the events that go through the ring: all but the deltas.
Kept == {p \in DOMAIN published : published[p].kind # "delta"}

\* Faulty: deltas take up the ring too.
RingOfAll == {p \in Kept : p + RingCap > Len(published)}

\* The ring: the last RingCap of them.
Ring == {p \in Kept : Cardinality({q \in Kept : q >= p}) <= RingCap}

\* Faulty: what was overwritten is passed over.
ReceivedAfterLag(r) ==
  LET p == IF r.next + LiveCap <= Len(published)
             THEN Len(published) - LiveCap + 1 ELSE r.next
  IN  [from |-> p, to |-> p, missed |-> FALSE]

\* broadcast recv: the receiver's next event, or how many were overwritten
\* before it came to them.
Received(r) ==
  IF r.next + LiveCap <= Len(published)
    THEN [from |-> r.next, to |-> Len(published) - LiveCap, missed |-> TRUE]
    ELSE [from |-> r.next, to |-> r.next, missed |-> FALSE]

-----------------------------------------------------------------------------
(* A connection's command loop: run and attach_feed. *)

Bind(c) == Len(attachedAt[c])

\* SelectRepo, or the first repo-scoped command of an unbound connection:
\* bind_session is awaited; a relay the connection has stays.
Select(c) ==
  /\ mode[c] = "open"
  /\ Bind(c) < MaxBinds
  /\ mode' = [mode EXCEPT ![c] = "binding"]
  /\ UNCHANGED <<turnVars, relay, aborted, backlog, attachedAt, sent>>

\* Authenticate on a bound connection: the relay is aborted first, then the
\* same repository bound again.
Authenticate(c) ==
  /\ mode[c] = "open"
  /\ Bind(c) < MaxBinds
  /\ relay[c] # NoRelay
  /\ mode' = [mode EXCEPT ![c] = "binding"]
  /\ aborted' = [aborted EXCEPT ![c] = @ \union {relay[c]}]
  /\ relay' = [relay EXCEPT ![c] = NoRelay]
  /\ UNCHANGED <<turnVars, backlog, attachedAt, sent>>

BindFails(c) ==
  /\ mode[c] = "binding"
  /\ mode' = [mode EXCEPT ![c] = "open"]
  /\ UNCHANGED <<turnVars, relay, aborted, backlog, attachedAt, sent>>

\* attach: the recent events and a receiver for everything after them.
Attach(c) ==
  /\ mode[c] = "binding"
  /\ mode' = [mode EXCEPT ![c] = "replaying"]
  /\ backlog' = [backlog EXCEPT ![c] = Ring]
  /\ attachedAt' = [attachedAt EXCEPT ![c] = Append(@, Len(published))]
  /\ UNCHANGED <<turnVars, relay, aborted, sent>>

\* What was taken from the ring is sent in order.
Replay(c) ==
  \E p \in backlog[c] :
    /\ \A q \in backlog[c] : p <= q
    /\ backlog' = [backlog EXCEPT ![c] = @ \ {p}]
    /\ sent' = [sent EXCEPT ![c][Bind(c)] =
                  Append(@, [from |-> p, to |-> p, missed |-> FALSE])]
    /\ UNCHANGED <<turnVars, mode, relay, aborted, attachedAt>>

\* The new relay starts and the one it replaces, if any, is aborted.
StartRelay(c) ==
  /\ mode[c] = "replaying"
  /\ backlog[c] = {}
  /\ mode' = [mode EXCEPT ![c] = "open"]
  /\ aborted' = [aborted EXCEPT ![c] = @ \union ({relay[c]} \ {NoRelay})]
  /\ relay' = [relay EXCEPT ![c] = [next |-> attachedAt[c][Bind(c)] + 1, bind |-> Bind(c)]]
  /\ UNCHANGED <<turnVars, backlog, attachedAt, sent>>

\* A relay takes what it is given next and sends it to the connection.
Forward(c, r) ==
  /\ r.next <= Len(published)
  /\ sent' = [sent EXCEPT ![c][r.bind] = Append(@, Received(r))]

Past(r) == [r EXCEPT !.next = Received(r).to + 1]

\* Faulty: a relay that lags ends.
RelayUntilLag(c) ==
  /\ relay[c] # NoRelay
  /\ Forward(c, relay[c])
  /\ ~Received(relay[c]).missed
  /\ relay' = [relay EXCEPT ![c] = Past(@)]
  /\ UNCHANGED <<turnVars, mode, aborted, backlog, attachedAt>>

RelayNext(c) ==
  /\ relay[c] # NoRelay
  /\ Forward(c, relay[c])
  /\ relay' = [relay EXCEPT ![c] = Past(@)]
  /\ UNCHANGED <<turnVars, mode, aborted, backlog, attachedAt>>

\* abort only asks: a relay that is being polled runs on to its next await,
\* and it may send once more or more than once before it stops.
AbortedSends(c, r) ==
  /\ Forward(c, r)
  /\ aborted' = [aborted EXCEPT ![c] = (@ \ {r}) \union {Past(r)}]
  /\ UNCHANGED <<turnVars, mode, relay, backlog, attachedAt>>

AbortedStops(c, r) ==
  /\ aborted' = [aborted EXCEPT ![c] = @ \ {r}]
  /\ UNCHANGED <<turnVars, mode, relay, backlog, attachedAt, sent>>

\* Faulty: an attachment under way goes on replaying.
CloseWhileReplaying(c) ==
  /\ mode[c] # "closed"
  /\ mode' = [mode EXCEPT ![c] = "closed"]
  /\ relay' = [relay EXCEPT ![c] = NoRelay]
  /\ aborted' = [aborted EXCEPT ![c] = {}]
  /\ UNCHANGED <<turnVars, backlog, attachedAt, sent>>

\* The socket closes: the command loop ends and aborts its relay, and what
\* anything still sends goes nowhere.  Its history is of no more interest.
Close(c) ==
  /\ mode[c] # "closed"
  /\ mode' = [mode EXCEPT ![c] = "closed"]
  /\ relay' = [relay EXCEPT ![c] = NoRelay]
  /\ aborted' = [aborted EXCEPT ![c] = {}]
  /\ backlog' = [backlog EXCEPT ![c] = {}]
  /\ attachedAt' = [attachedAt EXCEPT ![c] = <<>>]
  /\ sent' = [sent EXCEPT ![c] = NothingSent]
  /\ UNCHANGED <<turnVars>>

-----------------------------------------------------------------------------
TurnStep(t) ==
  \/ Prompt(t)
  \/ \E kind \in {"delta", "answer"} : Emit(t, kind)
  \/ EndTurn(t)
  \/ SendComplete(t)
  \/ Publish(t)

ConnStep(c) ==
  \/ Select(c)
  \/ Authenticate(c)
  \/ BindFails(c)
  \/ Attach(c)
  \/ Replay(c)
  \/ StartRelay(c)
  \/ RelayNext(c)
  \/ \E r \in aborted[c] : AbortedSends(c, r) \/ AbortedStops(c, r)
  \/ Close(c)

Next ==
  \/ \E t \in Turn : TurnStep(t)
  \/ \E c \in Conn : ConnStep(c)

Spec == Init /\ [][Next]_vars

\* A turn's own end is PlanGraph's TurnEnds; the tasks that carry its events
\* are polled.
Fairness ==
  /\ \A t \in Turn :
       /\ WF_vars(EndTurn(t))
       /\ WF_vars(SendComplete(t))
       /\ WF_vars(Publish(t))
  /\ \A c \in Conn : WF_vars(RelayNext(c))

FairSpec == Spec /\ Fairness

-----------------------------------------------------------------------------
(* Properties. *)

Positions(t, kind) ==
  {p \in DOMAIN published : published[p] = [turn |-> t, kind |-> kind]}

\* A turn's TurnStarted is its first event in the feed and its TurnComplete
\* its last, each published at most once: TurnComplete is sent by a task of its
\* own, and clients take it as the turn's terminal signal.
TurnBrackets ==
  \A t \in Turn :
    /\ Cardinality(Positions(t, "started")) <= 1
    /\ Cardinality(Positions(t, "complete")) <= 1
    /\ \A p \in DOMAIN published :
         published[p].turn = t =>
           /\ \A q \in Positions(t, "started") : q <= p
           /\ \A q \in Positions(t, "complete") : p <= q

\* A turn whose TurnComplete was published is no longer registered: CancelTurn
\* and ListTurns never take for running a turn the client saw end.
CompleteIsNotRunning ==
  \A t \in Turn : Positions(t, "complete") # {} => t \notin Registered

\* Two successive entries of one attachment leave out nothing, except that a
\* replay leaves out deltas from before the attachment: what a slow connection
\* lost, it was told of, whatever it binds again meanwhile.
NothingLostUnsaid ==
  \A c \in Conn, k \in 1..MaxBinds : \A i \in 1..Len(sent[c][k]) - 1 :
    LET a == sent[c][k][i]
        b == sent[c][k][i + 1]
    IN  /\ a.to < b.from
        /\ \A p \in a.to + 1..b.from - 1 :
             published[p].kind = "delta" /\ p <= attachedAt[c][k]

\* Every turn that starts completes in the feed, and a connection that stays
\* attached is told so or told that it missed events.
Told(c, k, t) ==
  \E p \in Positions(t, "complete") : \E i \in DOMAIN sent[c][k] :
    sent[c][k][i].from <= p /\ p <= sent[c][k][i].to

TurnSeenToItsEnd ==
  \A c \in Conn, t \in Turn, k \in 1..MaxBinds :
    relay[c].bind = k /\ stage[t] = "running" ~> Told(c, k, t) \/ relay[c].bind # k
=============================================================================
