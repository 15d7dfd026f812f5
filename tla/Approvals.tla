------------------------------ MODULE Approvals -------------------------------
(***************************************************************************)
(* A human's say over what the swarm changes: each session's ApprovalGate  *)
(* (approval.rs), the command loop that hands an ApprovalResponse to the   *)
(* gate of the session its connection is bound to (daemon.rs, run), and    *)
(* the list of requests a web client keeps (webui, ws.rs and app.rs).      *)
(*                                                                         *)
(* A Request is one call of ApprovalGate::request; the gate numbers its    *)
(* own requests from 0.  The feed between gate and client is TurnFeed: here *)
(* a request, open or over, reaches any client bound to its session, for   *)
(* the ring replays both.  The channel a request is sent on belongs to its *)
(* turn and is read by the turn's pump for as long as the turn holds it,   *)
(* so events.closed() never fires.  A press of a button and its arrival    *)
(* are one step: commands of one connection stay in order.                 *)
(***************************************************************************)
EXTENDS Integers

CONSTANTS
  Session,  \* the user's sessions, one for each repository
  Client,   \* web clients of the user
  Request,  \* the calls that ask
  HomeOf,   \* the session whose turn each request belongs to
  Unbound   \* the binding of a client that has none

ASSUME HomeAssumption == HomeOf \in [Request -> Session]
ASSUME UnboundAssumption == Unbound \notin Session

VARIABLES
  auto,     \* CORRODE_AUTO_APPROVE
  nextId,   \* each gate's next_id
  pending,  \* each gate's pending: the request to answer, by id
  state,    \* where each request is
  idOf,     \* the id it was given
  answer,   \* what its oneshot channel holds
  bound,    \* the session each client's connection is bound to
  shown,    \* each client's list of requests to decide, by id
  first,    \* history: the first answer sent to a request's gate under its id
  meant     \* history: the request the human was looking at who sent it

gateVars == <<nextId, pending, state, idOf, answer>>
history == <<first, meant>>
approvalsVars == <<auto, gateVars, bound, shown, history>>

-----------------------------------------------------------------------------
States == {"unasked", "waiting", "approved", "denied", "dropped"}

Nothing == "none"

Verdict == {"yes", "no"}

Answers == Verdict \union {Nothing}

\* Functions from ids to requests, of any finite domain.
IsTable(f) == DOMAIN f \subseteq Nat /\ \A i \in DOMAIN f : f[i] \in Request

NoEntries == [i \in {} |-> Nothing]

Without(f, i) == [j \in DOMAIN f \ {i} |-> f[j]]

With(f, i, r) == [j \in DOMAIN f \union {i} |-> IF j = i THEN r ELSE f[j]]

ApprovalsTypeOK ==
  /\ auto \in BOOLEAN
  /\ nextId \in [Session -> Nat]
  /\ DOMAIN pending = Session /\ \A s \in Session : IsTable(pending[s])
  /\ state \in [Request -> States]
  /\ idOf \in [Request -> Nat]
  /\ answer \in [Request -> Answers]
  /\ bound \in [Client -> Session \union {Unbound}]
  /\ DOMAIN shown = Client /\ \A c \in Client : IsTable(shown[c])
  /\ first \in [Request -> Answers]
  /\ meant \in [Request -> Request \union {Nothing}]
  /\ \A r \in Request : state[r] # "unasked" /\ ~auto => idOf[r] < nextId[HomeOf[r]]

ApprovalsInit ==
  /\ auto \in BOOLEAN
  /\ nextId = [s \in Session |-> 0]
  /\ pending = [s \in Session |-> NoEntries]
  /\ state = [r \in Request |-> "unasked"]
  /\ idOf = [r \in Request |-> 0]
  /\ answer = [r \in Request |-> Nothing]
  /\ bound = [c \in Client |-> Unbound]
  /\ shown = [c \in Client |-> NoEntries]
  /\ first = [r \in Request |-> Nothing]
  /\ meant = [r \in Request |-> Nothing]

-----------------------------------------------------------------------------
(* The gate. *)

\* request, in unattended mode.
AutoApprove(r) ==
  /\ auto
  /\ state[r] = "unasked"
  /\ state' = [state EXCEPT ![r] = "approved"]
  /\ UNCHANGED <<auto, nextId, pending, idOf, answer, bound, shown, history>>

\* Faulty: the counter is not advanced.
AskUnderSameId(r) ==
  /\ ~auto
  /\ state[r] = "unasked"
  /\ idOf' = [idOf EXCEPT ![r] = nextId[HomeOf[r]]]
  /\ pending' = [pending EXCEPT ![HomeOf[r]] = With(@, nextId[HomeOf[r]], r)]
  /\ state' = [state EXCEPT ![r] = "waiting"]
  /\ UNCHANGED <<auto, nextId, answer, bound, shown, history>>

\* request: the sender of a channel of its own is registered under a new id,
\* and the request sent to the turn's feed.
Ask(r) ==
  /\ ~auto
  /\ state[r] = "unasked"
  /\ idOf' = [idOf EXCEPT ![r] = nextId[HomeOf[r]]]
  /\ nextId' = [nextId EXCEPT ![HomeOf[r]] = @ + 1]
  /\ pending' = [pending EXCEPT ![HomeOf[r]] = With(@, nextId[HomeOf[r]], r)]
  /\ state' = [state EXCEPT ![r] = "waiting"]
  /\ UNCHANGED <<auto, answer, bound, shown, history>>

\* Faulty: the entry is left.
SettleLeavingEntry(r, outcome) ==
  /\ state[r] = "waiting"
  /\ state' = [state EXCEPT ![r] = outcome]
  /\ UNCHANGED <<auto, nextId, pending, idOf, answer, bound, shown, history>>

\* The select ends and the entry is removed, if it is still there.
SettleAs(r, outcome) ==
  /\ state[r] = "waiting"
  /\ state' = [state EXCEPT ![r] = outcome]
  /\ pending' = [pending EXCEPT ![HomeOf[r]] = Without(@, idOf[r])]
  /\ UNCHANGED <<auto, nextId, idOf, answer, bound, shown, history>>

TakeAnswer(r) ==
  /\ answer[r] # Nothing
  /\ SettleAs(r, IF answer[r] = "yes" THEN "approved" ELSE "denied")

\* Faulty: the select has no timer.
NeverTimeOut(r) == FALSE /\ SettleAs(r, "denied")

\* CORRODE_APPROVAL_TIMEOUT_S; select may take this branch although an answer
\* has come too.
TimeOut(r) == SettleAs(r, "denied")

\* The task that asked is dropped: its own ceiling or the turn's cut-off.  The
\* line that removes the entry is not reached.
Drop(r) ==
  /\ state[r] = "waiting"
  /\ state' = [state EXCEPT ![r] = "dropped"]
  /\ UNCHANGED <<auto, nextId, pending, idOf, answer, bound, shown, history>>

\* Faulty: the entry stays for a second answer.
ResolveAgain(s, id, verdict) ==
  IF id \in DOMAIN pending[s]
    THEN answer' = [answer EXCEPT ![pending[s][id]] = verdict] /\ UNCHANGED pending
    ELSE UNCHANGED <<pending, answer>>

\* resolve: an unknown id is a no-op; the receiver may be gone.
Resolve(s, id, verdict) ==
  IF id \in DOMAIN pending[s]
    THEN /\ pending' = [pending EXCEPT ![s] = Without(@, id)]
         /\ answer' = [answer EXCEPT ![pending[s][id]] = verdict]
    ELSE UNCHANGED <<pending, answer>>

-----------------------------------------------------------------------------
(* The clients. *)

\* SelectRepo and the binding it resends when it reconnects; the list stays.
BindClient(c, s) ==
  /\ bound' = [bound EXCEPT ![c] = s]
  /\ UNCHANGED <<auto, gateVars, shown, history>>

\* The socket closed: a new one clears the list and binds again.
Reconnect(c) ==
  /\ bound' = [bound EXCEPT ![c] = Unbound]
  /\ shown' = [shown EXCEPT ![c] = NoEntries]
  /\ UNCHANGED <<auto, gateVars, history>>

\* An ApprovalRequest arrives, live or replayed; an id in the list is kept.
Show(c, r) ==
  /\ bound[c] = HomeOf[r]
  /\ state[r] # "unasked" /\ ~auto
  /\ idOf[r] \notin DOMAIN shown[c]
  /\ shown' = [shown EXCEPT ![c] = With(@, idOf[r], r)]
  /\ UNCHANGED <<auto, gateVars, bound, history>>

\* The history of an answer that is the first to come to the gate it is sent to
\* under a waiting request's id.
Note(c, id, verdict) ==
  LET New(r) == /\ state[r] = "waiting" /\ first[r] = Nothing
                /\ HomeOf[r] = bound[c] /\ idOf[r] = id
  IN  /\ first' = [r \in Request |-> IF New(r) THEN verdict ELSE first[r]]
      /\ meant' = [r \in Request |-> IF New(r) THEN shown[c][id] ELSE meant[r]]

\* The human presses a button: the entry leaves the list, and the response goes
\* to the gate of the session the connection is bound to.
Decide(c, id, verdict) ==
  /\ id \in DOMAIN shown[c]
  /\ shown' = [shown EXCEPT ![c] = Without(@, id)]
  /\ IF bound[c] = Unbound
       THEN UNCHANGED <<pending, answer>>
       ELSE Resolve(bound[c], id, verdict)
  /\ Note(c, id, verdict)
  /\ UNCHANGED <<auto, nextId, state, idOf, bound>>

-----------------------------------------------------------------------------
GateStep(r) ==
  \/ AutoApprove(r)
  \/ Ask(r)
  \/ TakeAnswer(r)
  \/ TimeOut(r)
  \/ Drop(r)

ClientStep(c) ==
  \/ \E s \in Session : BindClient(c, s)
  \/ Reconnect(c)
  \/ \E r \in Request : Show(c, r)
  \/ \E id \in DOMAIN shown[c], verdict \in Verdict : Decide(c, id, verdict)

ApprovalsNext ==
  \/ \E r \in Request : GateStep(r)
  \/ \E c \in Client : ClientStep(c)

ApprovalsSpec == ApprovalsInit /\ [][ApprovalsNext]_approvalsVars

\* The request's timer fires.
ApprovalsFairSpec == ApprovalsSpec /\ \A r \in Request : WF_approvalsVars(TimeOut(r))

-----------------------------------------------------------------------------
(* Properties. *)

\* A call is approved only by the first answer that came for its id from a
\* connection bound to its own session: a later answer of another tab, a late
\* one and one for another session's gate change nothing.
ApprovedByFirstAnswer ==
  \A r \in Request : state[r] = "approved" => auto \/ first[r] = "yes"

\* A waiting request that has no answer yet can still be answered, and what a
\* gate holds can be answered by one request at most; entries are left behind
\* only by tasks dropped while they waited.
GateHoldsTheWaiting ==
  /\ \A r \in Request :
       state[r] = "waiting" /\ answer[r] = Nothing =>
         /\ idOf[r] \in DOMAIN pending[HomeOf[r]]
         /\ pending[HomeOf[r]][idOf[r]] = r
  /\ \A s \in Session : \A id \in DOMAIN pending[s] :
       LET r == pending[s][id]
       IN  HomeOf[r] = s /\ idOf[r] = id /\ state[r] \in {"waiting", "dropped"}

\* request's doc: it awaits the matching response.  What is approved is what a
\* human was shown and approved.
ApprovedAsShown ==
  \A r \in Request : state[r] = "approved" => auto \/ meant[r] = r

\* Nobody need answer: every request is settled or its task dropped.
EveryRequestSettles ==
  \A r \in Request : state[r] = "waiting" ~> state[r] # "waiting"
===============================================================================
