------------------------------- MODULE WebClient -------------------------------
(***************************************************************************)
(* A browser's client (webui/ws.rs, spawn_agent, with reattach and         *)
(* after_sign_in of corrode-core) and the daemon's end of each socket it   *)
(* opens (daemon.rs, run, as far as it binds a session).                   *)
(*                                                                         *)
(* A socket carries commands one way and events the other, in order.  It   *)
(* may be cut at any moment: the events on it are lost, and of the         *)
(* commands all but those the daemon has taken in, which its loop still    *)
(* handles while the client is already on another socket.  A client that   *)
(* has not noticed the cut sends into the void.                            *)
(***************************************************************************)
EXTENDS Integers, Sequences

CONSTANTS
  Repo,        \* the repositories the user may select
  DefaultRepo, \* CORRODE_REPO
  Elsewhere,   \* paths allowed_repo refuses
  User,        \* the users
  None,        \* nobody, nothing bound
  MaxTyped,    \* bound: what the user does
  MaxSockets   \* bound: sockets opened

ASSUME RepoAssumption ==
  Elsewhere \intersect Repo = {} /\ None \notin Repo \union User \union {DefaultRepo}
ASSUME SocketsAssumption == MaxTyped \in Nat /\ MaxSockets \in Nat

VARIABLES
  authOn,    \* does the daemon have a table of users
  typed,     \* cmd_rx: what the user did that the client has not taken up
  doings,    \* what the user did so far, of MaxTyped
  binding,   \* the commands resent on every new socket
  unsent,    \* the others that could not be sent
  resend,    \* what is left to send first on this socket
  signingIn, \* has the user sent a sign-in whose AuthOk has not come
  link,      \* the client's socket: up, cut without its notice, or down
  socket,    \* its number, 0 before the first
  up,        \* the commands on each socket
  down,      \* the events on the client's socket that mean anything to it
  user,      \* who has signed in on each socket
  session,   \* the session each socket is bound to
  accepted,  \* history: the selections and sign-ins accepted, by when the user did them
  unplaced,  \* history: sockets that refused a selection while bound to nothing
  ran        \* history: where each prompt ran, and where its user had placed it

clientVars == <<typed, doings, binding, unsent, resend, signingIn, link, socket>>
daemonVars == <<authOn, user, session, accepted, unplaced, ran>>
webVars == <<clientVars, up, down, daemonVars>>

-----------------------------------------------------------------------------
(* Commands.  nth is when the user did it, 0 for what the client adds.  Of  *)
(* the commands about a repository only Prompt and ListTurns are told       *)
(* apart; ListTurns stands for all that look.                              *)

Authenticate(n, u, ok) == [kind |-> "Authenticate", nth |-> n, user |-> u, valid |-> ok]
SelectRepo(n, p) == [kind |-> "SelectRepo", nth |-> n, path |-> p]
Prompt(n) == [kind |-> "Prompt", nth |-> n]
ListTurns == [kind |-> "ListTurns", nth |-> 0]

Sockets == 1..MaxSockets

Kinds == {"Authenticate", "SelectRepo", "Prompt", "ListTurns"}
Binding == {"Authenticate", "SelectRepo"}

is_binding(cmd) == cmd.kind \in Binding

\* The commands of some kinds, in their order.
Among(cmds, kinds) ==
  LET kept[i \in 0..Len(cmds)] ==
        IF i = 0 THEN <<>>
        ELSE IF cmds[i].kind \in kinds THEN Append(kept[i - 1], cmds[i])
        ELSE kept[i - 1]
  IN  kept[Len(cmds)]

Selects(cmds) == \E i \in DOMAIN cmds : cmds[i].kind = "SelectRepo"

\* Faulty: nothing is sent after a sign-in.
after_sign_in_nothing(cmds) == <<>>

after_sign_in(cmds) == IF Selects(cmds) THEN <<>> ELSE <<ListTurns>>

reattach(cmds) == cmds \o after_sign_in(cmds)

\* The latest of each kind, the one sent last at the end.
Bound(cmds, cmd) ==
  IF is_binding(cmd) THEN Append(Among(cmds, Kinds \ {cmd.kind}), cmd) ELSE cmds

Nobody == [user |-> None, repo |-> None]

WebInit ==
  /\ authOn \in BOOLEAN
  /\ typed = <<>> /\ doings = 0
  /\ binding = <<>> /\ unsent = <<>> /\ resend = <<>>
  /\ signingIn = FALSE
  /\ link = "down" /\ socket = 0
  /\ up = [s \in Sockets |-> <<>>]
  /\ down = <<>>
  /\ user = [s \in Sockets |-> None]
  /\ session = [s \in Sockets |-> Nobody]
  /\ accepted = {}
  /\ unplaced = {}
  /\ ran = <<>>

-----------------------------------------------------------------------------
(* The user.  Selecting a repository lists it too.                         *)

Do(cmds) ==
  /\ doings < MaxTyped
  /\ doings' = doings + 1
  /\ typed' = typed \o cmds
  /\ UNCHANGED <<binding, unsent, resend, signingIn, link, socket, up, down, daemonVars>>

SignIn(u, ok) == Do(<<Authenticate(doings + 1, u, ok)>>)
Select(p) == Do(<<SelectRepo(doings + 1, p), ListTurns>>)
Ask == Do(<<Prompt(doings + 1)>>)

-----------------------------------------------------------------------------
(* The client. *)

Open ==
  /\ link = "down"
  /\ socket < MaxSockets
  /\ socket' = socket + 1
  /\ link' = "up"
  /\ resend' = reattach(binding) \o unsent
  /\ unsent' = <<>>
  /\ signingIn' = FALSE
  /\ UNCHANGED <<typed, doings, binding, up, down, daemonVars>>

\* Sent over a socket that is cut, a command is gone.
Sent(cmd) ==
  /\ link # "down"
  /\ up' = IF link = "up" THEN [up EXCEPT ![socket] = Append(@, cmd)] ELSE up
  /\ UNCHANGED link

Fails == link = "cut" /\ link' = "down" /\ UNCHANGED up

Resend ==
  /\ resend # <<>>
  /\ \/ Sent(Head(resend)) /\ resend' = Tail(resend) /\ UNCHANGED unsent
     \/ /\ Fails
        /\ resend' = <<>>
        /\ unsent' = unsent \o Among(resend, Kinds \ (Binding \union {"ListTurns"}))
  /\ UNCHANGED <<typed, doings, binding, signingIn, socket, down, daemonVars>>

TakeUp ==
  LET cmd == Head(typed) IN
  /\ link # "down"
  /\ resend = <<>>
  /\ typed # <<>>
  /\ typed' = Tail(typed)
  /\ signingIn' = (signingIn \/ cmd.kind = "Authenticate")
  /\ binding' = Bound(binding, cmd)
  /\ \/ Sent(cmd) /\ UNCHANGED unsent
     \/ Fails /\ unsent' = IF is_binding(cmd) THEN unsent ELSE Append(unsent, cmd)
  /\ UNCHANGED <<doings, resend, socket, down, daemonVars>>

\* An AuthOk comes.
Receive ==
  /\ link = "up"
  /\ resend = <<>>
  /\ down # <<>>
  /\ down' = Tail(down)
  /\ signingIn' = FALSE
  /\ up' = [up EXCEPT ![socket] =
              IF signingIn THEN @ \o after_sign_in(binding) ELSE @]
  /\ UNCHANGED <<typed, doings, binding, unsent, resend, link, socket, daemonVars>>

Cut ==
  /\ link = "up"
  /\ link' = "cut"
  /\ \E n \in 0..Len(up[socket]) : up' = [up EXCEPT ![socket] = SubSeq(@, 1, n)]
  /\ down' = <<>>
  /\ UNCHANGED <<typed, doings, binding, unsent, resend, signingIn, socket, daemonVars>>

\* The stream ends, looked at only once all is resent.
Notice ==
  /\ resend = <<>>
  /\ Fails
  /\ UNCHANGED <<typed, doings, binding, unsent, resend, signingIn, socket, down, daemonVars>>

-----------------------------------------------------------------------------
(* The daemon's loop for socket s. *)

Takes(s, kinds) ==
  /\ up[s] # <<>>
  /\ Head(up[s]).kind \in kinds
  /\ up' = [up EXCEPT ![s] = Tail(@)]
  /\ UNCHANGED <<clientVars, authOn>>

Refused(s) == authOn /\ user[s] = None

\* Faulty: a sign-in gives up the binding.
AuthenticatedAnew(s) ==
  LET cmd == Head(up[s])
      ok == ~authOn \/ cmd.valid
  IN  /\ Takes(s, {"Authenticate"})
      /\ user' = [user EXCEPT ![s] = IF ok THEN cmd.user ELSE @]
      /\ session' = [session EXCEPT ![s] = IF ok THEN Nobody ELSE @]
      /\ accepted' = IF ok THEN accepted \union {cmd} ELSE accepted
      /\ down' = IF ok /\ s = socket /\ link = "up" THEN Append(down, "AuthOk") ELSE down
      /\ UNCHANGED <<unplaced, ran>>

\* A sign-in on a bound socket binds the same repository again.
Authenticated(s) ==
  LET cmd == Head(up[s])
      ok == ~authOn \/ cmd.valid
  IN  /\ Takes(s, {"Authenticate"})
      /\ user' = [user EXCEPT ![s] = IF ok THEN cmd.user ELSE @]
      /\ session' = [session EXCEPT ![s] =
                       IF ok /\ @ # Nobody THEN [@ EXCEPT !.user = cmd.user] ELSE @]
      /\ accepted' = IF ok THEN accepted \union {cmd} ELSE accepted
      /\ down' = IF ok /\ s = socket /\ link = "up" THEN Append(down, "AuthOk") ELSE down
      /\ UNCHANGED <<unplaced, ran>>

Selected(s) ==
  LET cmd == Head(up[s])
      ok == ~Refused(s) /\ cmd.path \in Repo
  IN  /\ Takes(s, {"SelectRepo"})
      /\ session' = [session EXCEPT ![s] =
                       IF ok THEN [user |-> user[s], repo |-> cmd.path] ELSE @]
      /\ accepted' = IF ok THEN accepted \union {cmd} ELSE accepted
      /\ unplaced' = IF ~ok /\ session[s] = Nobody THEN unplaced \union {s} ELSE unplaced
      /\ UNCHANGED <<down, user, ran>>

\* Where the user had placed what they did nth: the repository selected last
\* before it of those accepted, the user signed in last.
Latest(n, kind) ==
  {c \in accepted : c.kind = kind /\ c.nth < n
     /\ \A d \in accepted : d.kind = kind /\ d.nth < n => d.nth <= c.nth}

Placed(n) ==
  LET repos == Latest(n, "SelectRepo")
      users == Latest(n, "Authenticate")
  IN  [repo |-> IF repos = {} THEN DefaultRepo ELSE (CHOOSE c \in repos : TRUE).path,
       user |-> IF users = {} THEN None ELSE (CHOOSE c \in users : TRUE).user]

\* A command about a repository binds the default one where none is bound.
Handled(s) ==
  LET cmd == Head(up[s])
      at == IF session[s] = Nobody THEN [user |-> user[s], repo |-> DefaultRepo] ELSE session[s]
  IN  /\ Takes(s, {"Prompt", "ListTurns"})
      /\ session' = IF Refused(s) THEN session ELSE [session EXCEPT ![s] = at]
      /\ ran' = IF cmd.kind = "Prompt" /\ ~Refused(s)
                  THEN Append(ran, [nth |-> cmd.nth, socket |-> s, at |-> at,
                                    placed |-> Placed(cmd.nth)])
                  ELSE ran
      /\ UNCHANGED <<down, user, accepted, unplaced>>

-----------------------------------------------------------------------------
DaemonStep(s) == Authenticated(s) \/ Selected(s) \/ Handled(s)

WebNext ==
  \/ \E u \in User, ok \in BOOLEAN : SignIn(u, ok)
  \/ \E p \in Repo \union Elsewhere : Select(p)
  \/ Ask
  \/ Open \/ Resend \/ TakeUp \/ Receive \/ Cut \/ Notice
  \/ \E s \in Sockets : DaemonStep(s)

WebSpec == WebInit /\ [][WebNext]_webVars

-----------------------------------------------------------------------------
(* Properties. *)

\* A prompt runs where its user had placed it, the repository they selected and
\* the user they are, however often they signed in again and the socket was
\* replaced under them (daemon.rs, run).
PromptRunsWherePlaced == \A i \in DOMAIN ran : ran[i].at = ran[i].placed

\* That holds unless the socket refused a selection while it was bound to nothing.
PlacedUnlessRefused ==
  \A i \in DOMAIN ran : ran[i].at = ran[i].placed \/ ran[i].socket \in unplaced

\* When all is said, a page whose user is signed in is bound to a session, and so
\* is shown its turns, unless a selection was refused (corrode-core, after_sign_in).
PageIsBound ==
  /\ link = "up" /\ typed = <<>> /\ resend = <<>> /\ up[socket] = <<>> /\ down = <<>>
  /\ ~Refused(socket)
  => session[socket] # Nobody \/ socket \in unplaced
================================================================================
