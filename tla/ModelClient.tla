----------------------------- MODULE ModelClient -----------------------------
(***************************************************************************)
(* The client of the model servers (hipfire.rs): the permits that bound    *)
(* the generations in flight, the retries of what a server sheds, the      *)
(* request timeout, and the usage a task's scope records.                  *)
(*                                                                         *)
(* There are two backends, hipfire and the remote one, each with permits   *)
(* of its own that are handed out in the order they are asked for.  A      *)
(* request keeps its permit while it waits to be sent again.  What a       *)
(* server answers is external; that an answer or the request timeout comes *)
(* is assumed.                                                             *)
(***************************************************************************)
EXTENDS Integers, Sequences, FiniteSets

CONSTANTS
  Asker,         \* who may have a request out, one at a time
  MaxInflight,   \* the permits of each backend
  MaxRetries     \* bound: the retries that fit the retry window

Backend == {"hipfire", "remote"}

ASSUME PermitsAssumption == MaxInflight \in [Backend -> Nat \ {0}]
ASSUME RetriesAssumption == MaxRetries \in Nat

VARIABLES
  request,    \* the request each asker has out
  line,       \* who waits for a permit of each backend
  recorded    \* CallScope.remote: the remote generations each asker's scope counts

clientVars == <<request, line, recorded>>

NoRequest == [pc |-> "none"]

\* The errors that are not worth a second run of the task: a reply that was cut
\* off, and the request timeout, which a 4xx is treated like.
Final == {"truncated", "timedout"}

is_retryable(result) == result \notin Final

Over(a) == request[a].pc = "over"

Holding(b) == {a \in Asker : request[a].pc \in {"sent", "asleep"} /\ request[a].at = b}

ClientInit ==
  /\ request = [a \in Asker |-> NoRequest]
  /\ line = [b \in Backend |-> <<>>]
  /\ recorded = [a \in Asker |-> 0]

-----------------------------------------------------------------------------
\* respond_turns and chat_turns: the request waits for a permit.
Ask(a, b) ==
  /\ request[a] = NoRequest
  /\ request' = [request EXCEPT ![a] = [pc |-> "queued", at |-> b, tries |-> 0]]
  /\ line' = [line EXCEPT ![b] = Append(@, a)]

\* Permits go to those who wait in order.
Admit(a) ==
  LET b == request[a].at
  IN  /\ request[a].pc = "queued"
      /\ Head(line[b]) = a
      /\ Cardinality(Holding(b)) < MaxInflight[b]
      /\ request' = [request EXCEPT ![a].pc = "sent"]
      /\ line' = [line EXCEPT ![b] = Tail(@)]
      /\ UNCHANGED recorded

Ends(a, result) ==
  request' = [request EXCEPT ![a] = [pc |-> "over", result |-> result]]

\* A reply, cut off or not, is counted once, however often it was asked for.
Answer(a, result) ==
  /\ request[a].pc = "sent"
  /\ result \in {"reply", "truncated"}
  /\ Ends(a, result)
  /\ recorded' = [recorded EXCEPT ![a] = IF request[a].at = "remote" THEN @ + 1 ELSE @]
  /\ UNCHANGED line

\* An error of the server's or the wire's that is not retried here, or the
\* request timeout, or a 4xx.
Fail(a, result) ==
  /\ request[a].pc = "sent"
  /\ result \in {"failed", "timedout"}
  /\ Ends(a, result)
  /\ UNCHANGED <<line, recorded>>

\* Overload, or no connection: the request is sent again after a while, unless
\* that would be past the window.
Shed(a) ==
  /\ request[a].pc = "sent"
  /\ \/ /\ request[a].tries < MaxRetries
        /\ request' = [request EXCEPT ![a].pc = "asleep", ![a].tries = @ + 1]
     \/ Ends(a, "failed")
  /\ UNCHANGED <<line, recorded>>

Resend(a) ==
  /\ request[a].pc = "asleep"
  /\ request' = [request EXCEPT ![a].pc = "sent"]
  /\ UNCHANGED <<line, recorded>>

\* The asker's future is dropped: its request with it, wherever it was.
Abandon(a) ==
  /\ request' = [request EXCEPT ![a] = NoRequest]
  /\ line' = [b \in Backend |-> SelectSeq(line[b], LAMBDA x : x # a)]

\* Permits are handed out, sleeps end, and a request that was sent is answered
\* or runs into its timeout.
ClientFairness(a) ==
  /\ WF_clientVars(Admit(a))
  /\ WF_clientVars(Resend(a))
  /\ WF_clientVars(Fail(a, "timedout"))
=============================================================================
