------------------------------ MODULE WebProofs ------------------------------
(***************************************************************************)
(* Theorems about what a client is told and bound to: WebClient, for every *)
(* set of users and repositories and any number of commands, sockets and   *)
(* cuts; and TurnJournal, for every set of turns and users, any number of  *)
(* listings and deaths of the daemon.                                      *)
(*                                                                         *)
(* A command is about what was placed before it.  So the argument follows, *)
(* for every socket, the commands still to be handled there (Line): they   *)
(* come in the order the user gave them, and whatever may still be         *)
(* accepted on any socket before one of them is either held by the socket  *)
(* or ahead of it in the same line.                                        *)
(***************************************************************************)
EXTENDS ReconcileProofs, WebClient, TurnJournal, SequenceTheorems

-----------------------------------------------------------------------------
(* Sequences of commands.                                                  *)

Elements(q) == {q[i] : i \in DOMAIN q}

\* In the order the user gave them.
InOrder(q) ==
  \A i, j \in DOMAIN q : i < j /\ q[i].nth # 0 /\ q[j].nth # 0 => q[i].nth < q[j].nth

LEMMA ElementsIn ==
  ASSUME NEW S, NEW q \in Seq(S)
  PROVE  Elements(q) \subseteq S /\ DOMAIN q = 1..Len(q) /\ Len(q) \in Nat
BY DEF Elements

LEMMA Appended ==
  ASSUME NEW S, NEW q \in Seq(S), NEW x \in S
  PROVE  /\ Append(q, x) \in Seq(S)
         /\ Elements(Append(q, x)) = Elements(q) \union {x}
         /\ DOMAIN Append(q, x) = 1..Len(q) + 1
         /\ \A i \in DOMAIN q : Append(q, x)[i] = q[i]
         /\ Append(q, x)[Len(q) + 1] = x
<1>1. PICK r : r = Append(q, x)
  OBVIOUS
<1>2. /\ r \in Seq(S) /\ Len(r) = Len(q) + 1 /\ Len(q) \in Nat
      /\ \A i \in 1..Len(q) : r[i] = q[i]
      /\ r[Len(q) + 1] = x
  BY <1>1, AppendProperties
<1>3. DOMAIN r = 1..Len(q) + 1 /\ DOMAIN q = 1..Len(q)
  BY <1>2
<1>4. Elements(r) = Elements(q) \union {x}
  <2>1. Elements(r) \subseteq Elements(q) \union {x}
    <3> SUFFICES ASSUME NEW i \in 1..Len(q) + 1 PROVE r[i] \in Elements(q) \union {x}
      BY <1>3 DEF Elements
    <3>1. i \in 1..Len(q) \/ i = Len(q) + 1
      BY <1>2
    <3> QED BY <3>1, <1>2, <1>3 DEF Elements
  <2>2. Elements(q) \subseteq Elements(r)
    <3> SUFFICES ASSUME NEW i \in 1..Len(q) PROVE q[i] \in Elements(r)
      BY <1>3 DEF Elements
    <3>1. i \in 1..Len(q) + 1
      BY <1>2
    <3> QED BY <3>1, <1>2, <1>3 DEF Elements
  <2>3. x \in Elements(r)
    <3>1. Len(q) + 1 \in 1..Len(q) + 1
      BY <1>2
    <3> QED BY <3>1, <1>2, <1>3 DEF Elements
  <2> QED BY <2>1, <2>2, <2>3
<1> QED BY <1>1, <1>2, <1>3, <1>4

LEMMA Shortened ==
  ASSUME NEW S, NEW q \in Seq(S), q # <<>>
  PROVE  /\ Tail(q) \in Seq(S) /\ Head(q) \in S /\ Head(q) = q[1]
         /\ Elements(q) = Elements(Tail(q)) \union {Head(q)}
         /\ Len(q) \in Nat \ {0} /\ DOMAIN q = 1..Len(q)
         /\ DOMAIN Tail(q) = 1..Len(q) - 1
         /\ \A i \in 1..Len(q) - 1 : Tail(q)[i] = q[i + 1]
<1>1. PICK r : r = Tail(q)
  OBVIOUS
<1>2. PICK n : n = Len(q)
  OBVIOUS
<1>3. n \in Nat \ {0} /\ DOMAIN q = 1..n /\ Head(q) = q[1] /\ Head(q) \in S
  BY <1>2
<1>4. r \in Seq(S) /\ Len(r) = n - 1 /\ \A i \in 1..n - 1 : r[i] = q[i + 1]
  BY <1>1, <1>2
<1>5. DOMAIN r = 1..n - 1
  BY <1>3, <1>4
<1>6. Elements(q) \subseteq Elements(r) \union {q[1]}
  <2> SUFFICES ASSUME NEW i \in 1..n PROVE q[i] \in Elements(r) \union {q[1]}
    BY <1>3 DEF Elements
  <2>1. CASE i = 1
    BY <2>1
  <2>2. CASE i # 1
    <3>1. i - 1 \in 1..n - 1 /\ (i - 1) + 1 = i
      BY <2>2, <1>3
    <3> QED BY <3>1, <1>4, <1>5 DEF Elements
  <2> QED BY <2>1, <2>2
<1>7. Elements(r) \union {q[1]} \subseteq Elements(q)
  <2>1. q[1] \in Elements(q)
    BY <1>3 DEF Elements
  <2>2. ASSUME NEW i \in 1..n - 1 PROVE r[i] \in Elements(q)
    <3>1. i + 1 \in 1..n
      BY <1>3
    <3> QED BY <3>1, <1>3, <1>4 DEF Elements
  <2> QED BY <2>1, <2>2, <1>5 DEF Elements
<1> QED BY <1>1, <1>2, <1>3, <1>4, <1>5, <1>6, <1>7

LEMMA Joined2 ==
  ASSUME NEW S, NEW p \in Seq(S), NEW q \in Seq(S)
  PROVE  /\ p \o q \in Seq(S)
         /\ Elements(p \o q) = Elements(p) \union Elements(q)
         /\ Len(p \o q) = Len(p) + Len(q) /\ DOMAIN (p \o q) = 1..Len(p) + Len(q)
         /\ \A i \in 1..Len(p) + Len(q) : (p \o q)[i] = IF i <= Len(p) THEN p[i] ELSE q[i - Len(p)]
<1>1. PICK r : r = p \o q
  OBVIOUS
<1>2. PICK m \in Nat, n \in Nat : m = Len(p) /\ n = Len(q)
  OBVIOUS
<1>3. /\ r \in Seq(S) /\ Len(r) = m + n
      /\ \A i \in 1..m + n : r[i] = IF i <= m THEN p[i] ELSE q[i - m]
  BY <1>1, <1>2, ConcatProperties
<1>4. DOMAIN r = 1..m + n /\ DOMAIN p = 1..m /\ DOMAIN q = 1..n
  BY <1>2, <1>3
<1>5. Elements(r) \subseteq Elements(p) \union Elements(q)
  <2> SUFFICES ASSUME NEW i \in 1..m + n PROVE r[i] \in Elements(p) \union Elements(q)
    BY <1>4 DEF Elements
  <2>1. CASE i <= m
    <3>1. i \in 1..m
      BY <2>1
    <3> QED BY <3>1, <1>3, <1>4, <2>1 DEF Elements
  <2>2. CASE ~(i <= m)
    <3>1. i - m \in 1..n
      BY <2>2
    <3>2. r[i] = q[i - m]
      BY <2>2, <1>3
    <3> QED BY <3>1, <3>2, <1>4 DEF Elements
  <2> QED BY <2>1, <2>2
<1>6. Elements(p) \subseteq Elements(r)
  <2> SUFFICES ASSUME NEW i \in 1..m PROVE p[i] \in Elements(r)
    BY <1>4 DEF Elements
  <2>1. i \in 1..m + n /\ i <= m
    OBVIOUS
  <2> QED BY <2>1, <1>3, <1>4 DEF Elements
<1>7. Elements(q) \subseteq Elements(r)
  <2> SUFFICES ASSUME NEW i \in 1..n PROVE q[i] \in Elements(r)
    BY <1>4 DEF Elements
  <2>1. m + i \in 1..m + n /\ ~(m + i <= m) /\ (m + i) - m = i
    OBVIOUS
  <2>2. r[m + i] = q[i]
    BY <2>1, <1>3
  <2> QED BY <2>1, <2>2, <1>4 DEF Elements
<1> QED BY <1>1, <1>2, <1>3, <1>4, <1>5, <1>6, <1>7

\* What is sent moves from one sequence to the other.
LEMMA Passed ==
  ASSUME NEW S, NEW p \in Seq(S), NEW q \in Seq(S), q # <<>>
  PROVE  Append(p, Head(q)) \o Tail(q) = p \o q
<1>1. PICK m \in Nat, n \in Nat \ {0} : m = Len(p) /\ n = Len(q)
  BY Shortened
<1>2. PICK a : a = Append(p, Head(q))
  OBVIOUS
<1>3. PICK t : t = Tail(q)
  OBVIOUS
<1>4. /\ a \in Seq(S) /\ Len(a) = m + 1 /\ \A i \in 1..m : a[i] = p[i]
      /\ a[m + 1] = q[1]
  <2>1. Head(q) \in S /\ Head(q) = q[1]
    BY Shortened
  <2>2. PICK h \in S : h = Head(q)
    BY <2>1
  <2>3. /\ Append(p, h) \in Seq(S) /\ Len(Append(p, h)) = Len(p) + 1
        /\ \A i \in 1..Len(p) : Append(p, h)[i] = p[i]
        /\ Append(p, h)[Len(p) + 1] = h
    BY AppendProperties
  <2> QED BY <1>1, <1>2, <2>1, <2>2, <2>3
<1>5. t \in Seq(S) /\ Len(t) = n - 1 /\ \A i \in 1..n - 1 : t[i] = q[i + 1]
  BY <1>1, <1>3
<1>6. /\ a \o t \in Seq(S) /\ Len(a \o t) = m + n
      /\ \A i \in 1..m + n : (a \o t)[i] = IF i <= m + 1 THEN a[i] ELSE t[i - (m + 1)]
  <2>1. PICK k \in Nat, l \in Nat : k = Len(a) /\ l = Len(t) /\ k = m + 1 /\ l = n - 1
    BY <1>4, <1>5
  <2>2. PICK r : r = a \o t
    OBVIOUS
  <2>3. /\ r \in Seq(S) /\ Len(r) = k + l
        /\ \A i \in 1..k + l : r[i] = IF i <= k THEN a[i] ELSE t[i - k]
    <3>1. a \in Seq(S) /\ t \in Seq(S)
      BY <1>4, <1>5
    <3>2. /\ a \o t \in Seq(S) /\ Len(a \o t) = Len(a) + Len(t)
          /\ \A i \in 1..Len(a) + Len(t) : (a \o t)[i] = IF i <= Len(a) THEN a[i] ELSE t[i - Len(a)]
      BY <3>1, Joined2
    <3> QED BY <3>2, <2>1, <2>2
  <2>4. k + l = m + n
    BY <2>1
  <2>5. /\ r \in Seq(S) /\ Len(r) = m + n
        /\ \A i \in 1..m + n : r[i] = IF i <= k THEN a[i] ELSE t[i - k]
    BY <2>3, <2>4
  <2> QED BY <2>1, <2>2, <2>5
<1>7. /\ p \o q \in Seq(S) /\ Len(p \o q) = m + n
      /\ \A i \in 1..m + n : (p \o q)[i] = IF i <= m THEN p[i] ELSE q[i - m]
  BY <1>1, Joined2
<1>9. ASSUME NEW i \in 1..m + n PROVE (a \o t)[i] = (p \o q)[i]
  <2>1. CASE i <= m
    <3>1. i <= m + 1 /\ i \in 1..m
      BY <2>1
    <3>2. (a \o t)[i] = a[i] /\ (p \o q)[i] = p[i]
      BY <3>1, <2>1, <1>6, <1>7
    <3> QED BY <3>1, <3>2, <1>4
  <2>2. CASE i = m + 1
    <3>1. ~(i <= m) /\ i - m = 1 /\ i <= m + 1
      BY <2>2
    <3>2. (a \o t)[i] = a[i] /\ (p \o q)[i] = q[1]
      BY <3>1, <1>6, <1>7
    <3> QED BY <2>2, <3>2, <1>4
  <2>3. CASE i > m + 1
    <3>1. /\ ~(i <= m) /\ ~(i <= m + 1) /\ i - (m + 1) \in 1..n - 1
          /\ (i - (m + 1)) + 1 = i - m
      BY <2>3
    <3>2. (a \o t)[i] = t[i - (m + 1)] /\ (p \o q)[i] = q[i - m]
      BY <3>1, <1>6, <1>7
    <3>3. t[i - (m + 1)] = q[(i - (m + 1)) + 1]
      BY <3>1, <1>5
    <3> QED BY <3>1, <3>2, <3>3
  <2>4. i <= m \/ i = m + 1 \/ i > m + 1
    OBVIOUS
  <2> QED BY <2>1, <2>2, <2>3, <2>4
<1> QED BY <1>2, <1>3, <1>6, <1>7, <1>9, SeqEqual

-----------------------------------------------------------------------------
(* WebClient.                                                              *)

Sels == [kind : {"SelectRepo"}, nth : Nat \ {0}, path : Repo \union Elsewhere]
Auths == [kind : {"Authenticate"}, nth : Nat \ {0}, user : User, valid : BOOLEAN]
Prompts == [kind : {"Prompt"}, nth : Nat \ {0}]
Cmds == Sels \union Auths \union Prompts \union {ListTurns}

\* Does a socket stand for the client's own?
Live(s) == s = socket /\ link = "up"

\* What is still to be handled on a socket, but for what the client has yet to
\* take up.
Line(s) == IF Live(s) THEN up[s] \o resend ELSE up[s]

\* What the client has taken up and can still be accepted, or was.
Out ==
  accepted \union Elements(binding) \union Elements(resend)
    \union UNION {Elements(up[s]) : s \in Sockets}

\* When the next prompt of a socket can be given, but for those in line.
Coming(s) == IF Live(s) THEN {doings + 1} ELSE {}

WebTypeOK ==
  /\ authOn \in BOOLEAN
  /\ typed \in Seq(Cmds) /\ doings \in Nat
  /\ binding \in Seq(Sels \union Auths)
  /\ unsent \in Seq(Prompts \union {ListTurns})
  /\ resend \in Seq(Cmds)
  /\ signingIn \in BOOLEAN
  /\ link \in {"up", "cut", "down"} /\ socket \in 0..MaxSockets
  /\ link # "down" => socket \in Sockets
  /\ up \in [Sockets -> Seq(Cmds)]
  /\ down \in Seq({"AuthOk"})
  /\ user \in [Sockets -> User \union {None}]
  /\ session \in [Sockets -> [user : User \union {None}, repo : Repo \union {DefaultRepo, None}]]
  /\ accepted \subseteq Sels \union Auths
  /\ unplaced \subseteq Sockets
  /\ ran \in Seq(Elements(ran))

\* A socket that is still to be opened is untouched.
Unopened ==
  \A s \in Sockets : s > socket =>
    up[s] = <<>> /\ user[s] = None /\ session[s] = Nobody /\ s \notin unplaced

\* D was given after C, and what is in C at n at the latest.
Follow(C, D) == \A c \in C, d \in D : d.nth # 0 => c.nth < d.nth
Until(C, n) == \A c \in C : c.nth <= n

\* What the client has to send comes in the order the user gave it.
ClientInOrder ==
  /\ InOrder(typed) /\ InOrder(binding) /\ InOrder(unsent) /\ InOrder(resend)
  /\ \A s \in Sockets : InOrder(Line(s))
  /\ Until(Elements(typed) \union Out \union Elements(unsent), doings)
  /\ Follow(Out \union Elements(unsent), Elements(typed))
  /\ Follow(Elements(binding), Elements(unsent))
  /\ Follow(Elements(binding), {c \in Elements(resend) : c.kind = "Prompt"})
  /\ link # "down" => unsent = <<>>
  /\ link = "down" => resend = <<>>
  /\ link # "up" => down = <<>>

\* A command is known by when the user gave it.
Distinct(C) == \A c, d \in C : c.nth # 0 /\ c.nth = d.nth => c = d

OneOfEach == Distinct(Out \union Elements(unsent))

\* The binding B holds the latest of each kind in C, and one of each.
IsLatest(B, C) ==
  /\ \A c \in C : is_binding(c) => \E b \in B : b.kind = c.kind /\ c.nth <= b.nth
  /\ \A b, c \in B : b.kind = c.kind => b = c

BindingIsLatest == IsLatest(Elements(binding), Out)

\* What the daemon accepts, wherever it comes: on tells whether it has users.
Allowed(on, c) ==
  \/ c.kind = "SelectRepo" /\ c.path \in Repo
  \/ c.kind = "Authenticate" /\ (~on \/ c.valid)

AcceptedAllowed == \A c \in accepted : Allowed(authOn, c)

\* When the prompts among C were given, and the commands of a kind that can be
\* accepted.
Asked(C) == {c.nth : c \in {c \in C : c.kind = "Prompt"}}
May(on, kind, C) == {c.nth : c \in {c \in C : c.kind = kind /\ Allowed(on, c)}}

\* Of the waiting commands W, one no older than m comes before each goal after m.
Ahead(m, W, G) == \A n \in G : m < n => \E w \in W : m <= w /\ w < n

\* Placed by the h-th command, 0 for none, and then by the waiting W, all goals
\* find the latest of M before them.
Reaches(h, W, G, M) ==
  /\ \A w \in W : h < w
  /\ \A n \in G : h < n
  /\ \A m \in M : m <= h \/ Ahead(m, W, G)

\* So they do once the first of W is accepted.
Barred(W, G, M) == \A m \in M : Ahead(m, W, G) \/ \A w \in W : m <= w

\* The first command of a line that is about a repository is a selection that will
\* be refused.
Doomed(on, q) ==
  \E i \in DOMAIN q :
    /\ q[i].kind = "SelectRepo" /\ ~Allowed(on, q[i])
    /\ \A j \in 1..i - 1 : q[j].kind = "Authenticate"

RepoBy(h, acc, at) ==
  IF h = 0 THEN at = Nobody \/ at.repo = DefaultRepo
  ELSE \E e \in acc : e.kind = "SelectRepo" /\ e.nth = h /\ at # Nobody /\ at.repo = e.path

UserBy(h, acc, who) ==
  IF h = 0 THEN who = None
  ELSE \E e \in acc : e.kind = "Authenticate" /\ e.nth = h /\ who = e.user

\* The repository of a socket is the one selected last, as far as a prompt can tell.
\* q is its line, D what is coming, C what is out.
RepoIn(on, q, D, C, acc, at) ==
  LET W == May(on, "SelectRepo", Elements(q))
      G == Asked(Elements(q)) \union D
  IN  \/ \E h \in Nat : RepoBy(h, acc, at) /\ Reaches(h, W, G, May(on, "SelectRepo", C))
      \/ at = Nobody /\ Doomed(on, q)

\* And its user the one signed in last.
UserIn(on, q, D, C, acc, who) ==
  LET W == May(on, "Authenticate", Elements(q))
      G == Asked(Elements(q)) \union D
      M == May(on, "Authenticate", C)
  IN  \/ \E h \in Nat : UserBy(h, acc, who) /\ Reaches(h, W, G, M)
      \/ on /\ who = None /\ Barred(W, G, M)

PlacedIn(on, q, D, C, acc, at, who, un) ==
  UserIn(on, q, D, C, acc, who) /\ (un \/ RepoIn(on, q, D, C, acc, at))

InPlace ==
  \A s \in Sockets :
    PlacedIn(authOn, Line(s), Coming(s), Out, accepted, session[s], user[s], s \in unplaced)

\* A session is its socket's user's.
Sessions ==
  \A s \in Sockets : session[s] # Nobody =>
    session[s].repo # None /\ session[s].user = user[s] /\ ~Refused(s)

\* Something in line will bind the page: a selection, or another command about a
\* repository that is not refused when it comes; or nothing will until a sign-in,
\* which is followed by one.
Binds(on, q, refused, selects, hears, signing) ==
  \/ \E c \in Elements(q) : c.kind = "SelectRepo"
  \/ \E i \in DOMAIN q :
       /\ q[i].kind \in {"Prompt", "ListTurns"}
       /\ refused => \E j \in 1..i - 1 : q[j].kind = "Authenticate" /\ Allowed(on, q[j])
  \/ /\ ~selects
     /\ IF refused
        THEN (\E c \in Elements(q) : c.kind = "Authenticate" /\ Allowed(on, c)) => signing
        ELSE hears /\ signing

PageWillBe ==
  link = "up" =>
    /\ down # <<>> => ~Refused(socket)
    /\ \/ session[socket] # Nobody \/ socket \in unplaced
       \/ Binds(authOn, Line(socket), Refused(socket), Selects(binding), down # <<>>, signingIn)

WebInv ==
  /\ WebTypeOK /\ Unopened /\ ClientInOrder /\ OneOfEach /\ BindingIsLatest
  /\ AcceptedAllowed /\ Sessions /\ InPlace /\ PageWillBe /\ PlacedUnlessRefused
-----------------------------------------------------------------------------
(* What is placed, as the lines change.                                    *)

LEMMA CmdFields ==
  /\ \A c \in Cmds : c.nth \in Nat /\ c.kind \in Kinds
  /\ \A c \in Cmds : c.kind # "ListTurns" => c.nth # 0
  /\ \A c \in Cmds : c.kind = "ListTurns" => c = ListTurns
  /\ \A c \in Cmds : c.kind = "SelectRepo" => c \in Sels /\ c.path \in Repo \union Elsewhere
  /\ \A c \in Cmds : c.kind = "Authenticate" => c \in Auths /\ c.user \in User /\ c.valid \in BOOLEAN
  /\ \A c \in Cmds : c.kind = "Prompt" => c \in Prompts
BY DEF Cmds, Sels, Auths, Prompts, ListTurns, Kinds

\* Numbers of commands.
LEMMA MayIn ==
  ASSUME NEW on, NEW kind, kind \in Binding, NEW C, C \subseteq Cmds
  PROVE  May(on, kind, C) \in SUBSET (Nat \ {0})
BY CmdFields DEF May, Binding

LEMMA AskedIn ==
  ASSUME NEW C, C \subseteq Cmds
  PROVE  Asked(C) \in SUBSET (Nat \ {0})
BY CmdFields DEF Asked

\* The waiting, the goals and what may be accepted change from W, G and M to W2, G2
\* and M2, as X is given.
Changed(W, G, M, W2, G2, M2, X) ==
  /\ W2 \subseteq W \union X /\ M2 \subseteq M \union X
  /\ \A x \in X : \A v \in W \union M : v < x
  /\ \A n \in G2 : \E g \in G :
       (\A m \in M : m < n <=> m < g) /\ (\A w \in W : w < g => w \in W2 /\ w < n)
  /\ \A x \in X, n \in G2 : x < n => x \in W2

LEMMA AheadOn ==
  ASSUME NEW W \in SUBSET Nat, NEW G \in SUBSET Nat, NEW M \in SUBSET Nat,
         NEW W2 \in SUBSET Nat, NEW G2 \in SUBSET Nat, NEW M2 \in SUBSET Nat, NEW X \in SUBSET Nat,
         Changed(W, G, M, W2, G2, M2, X)
  PROVE  /\ \A m \in M : Ahead(m, W, G) => Ahead(m, W2, G2)
         /\ \A m \in X : Ahead(m, W2, G2)
<1>1. ASSUME NEW m \in M, Ahead(m, W, G), NEW n \in G2, m < n
      PROVE  \E w \in W2 : m <= w /\ w < n
  <2>1. PICK g \in G : (\A k \in M : k < n <=> k < g) /\ (\A w \in W : w < g => w \in W2 /\ w < n)
    BY DEF Changed
  <2>2. PICK w \in W : m <= w /\ w < g
    BY <1>1, <2>1 DEF Ahead
  <2> QED BY <2>1, <2>2
<1>2. ASSUME NEW x \in X, NEW n \in G2, x < n
      PROVE  \E w \in W2 : x <= w /\ w < n
  BY <1>2 DEF Changed
<1> QED BY <1>1, <1>2 DEF Ahead

LEMMA ReachesOn ==
  ASSUME NEW W \in SUBSET Nat, NEW G \in SUBSET Nat, NEW M \in SUBSET Nat,
         NEW W2 \in SUBSET Nat, NEW G2 \in SUBSET (Nat \ {0}), NEW M2 \in SUBSET Nat,
         NEW X \in SUBSET (Nat \ {0}), Changed(W, G, M, W2, G2, M2, X),
         NEW h, h \in M \union {0}, Reaches(h, W, G, M)
  PROVE  Reaches(h, W2, G2, M2)
<1>1. ASSUME NEW w \in W2 PROVE h < w
  BY DEF Changed, Reaches
<1>2. ASSUME NEW n \in G2 PROVE h < n
  BY DEF Changed, Reaches
<1>3. ASSUME NEW m \in M2 PROVE m <= h \/ Ahead(m, W2, G2)
  <2>1. m \in M \/ m \in X
    BY DEF Changed
  <2> QED BY <2>1, AheadOn DEF Reaches
<1> QED BY <1>1, <1>2, <1>3 DEF Reaches

LEMMA BarredOn ==
  ASSUME NEW W \in SUBSET Nat, NEW G \in SUBSET Nat, NEW M \in SUBSET Nat,
         NEW W2 \in SUBSET Nat, NEW G2 \in SUBSET (Nat \ {0}), NEW M2 \in SUBSET Nat,
         NEW X \in SUBSET (Nat \ {0}), Changed(W, G, M, W2, G2, M2, X),
         Barred(W, G, M)
  PROVE  Barred(W2, G2, M2)
<1> SUFFICES ASSUME NEW m \in M2
             PROVE  Ahead(m, W2, G2) \/ \A w \in W2 : m <= w
  BY DEF Barred
<1>1. CASE m \in X
  BY <1>1, AheadOn
<1>2. CASE m \in M /\ Ahead(m, W, G)
  BY <1>2, AheadOn
<1>3. CASE m \in M /\ \A w \in W : m <= w
  BY <1>3 DEF Changed
<1>4. m \in M \/ m \in X
  BY DEF Changed
<1> QED BY <1>1, <1>2, <1>3, <1>4 DEF Barred

\* x, the first of W, is accepted.
TakenOff(x, W, G, M, W2, G2, M2) ==
  /\ x \in W /\ W \subseteq W2 \union {x} /\ W2 \subseteq W /\ G2 \subseteq G /\ M2 \subseteq M
  /\ (\A w \in W2 : x < w) /\ (\A n \in G2 : x < n)

InReach(W, G, M) == (\E h \in Nat : Reaches(h, W, G, M)) \/ Barred(W, G, M)

LEMMA ReachesNext ==
  ASSUME NEW W \in SUBSET Nat, NEW G \in SUBSET Nat, NEW M \in SUBSET Nat,
         NEW W2 \in SUBSET Nat, NEW G2 \in SUBSET Nat, NEW M2 \in SUBSET Nat, NEW x \in Nat,
         TakenOff(x, W, G, M, W2, G2, M2), InReach(W, G, M)
  PROVE  Reaches(x, W2, G2, M2)
<1> SUFFICES ASSUME NEW m \in M2, ~(m <= x)
             PROVE  Ahead(m, W2, G2)
  BY DEF Reaches, TakenOff
<1>1. Ahead(m, W, G)
  <2>1. CASE Barred(W, G, M)
    BY <2>1 DEF Barred, TakenOff
  <2>2. ASSUME NEW h \in Nat, Reaches(h, W, G, M)
        PROVE  Ahead(m, W, G)
    BY <2>2 DEF Reaches, TakenOff
  <2> QED BY <2>1, <2>2 DEF InReach
<1> QED BY <1>1 DEF Ahead, TakenOff

Goals(Q, D) == Asked(Q) \union D

ChangedFor(on, kind, Q, D, C, Q2, D2, C2, X) ==
  Changed(May(on, kind, Q), Goals(Q, D), May(on, kind, C),
          May(on, kind, Q2), Goals(Q2, D2), May(on, kind, C2), X)

LEMMA RepoOn ==
  ASSUME NEW on, NEW q, NEW q2, Elements(q) \subseteq Cmds, Elements(q2) \subseteq Cmds,
         NEW D \in SUBSET (Nat \ {0}), NEW D2 \in SUBSET (Nat \ {0}),
         NEW C \in SUBSET Cmds, NEW C2 \in SUBSET Cmds, NEW X \in SUBSET (Nat \ {0}),
         ChangedFor(on, "SelectRepo", Elements(q), D, C, Elements(q2), D2, C2, X),
         NEW acc \in SUBSET C, NEW acc2, \A c \in acc : Allowed(on, c), NEW at, NEW at2,
         \A h \in Nat : RepoBy(h, acc, at) => RepoBy(h, acc2, at2),
         at = Nobody /\ Doomed(on, q) => RepoIn(on, q2, D2, C2, acc2, at2),
         RepoIn(on, q, D, C, acc, at)
  PROVE  RepoIn(on, q2, D2, C2, acc2, at2)
<1> SUFFICES ASSUME NEW h \in Nat, RepoBy(h, acc, at),
                    Reaches(h, May(on, "SelectRepo", Elements(q)), Goals(Elements(q), D), May(on, "SelectRepo", C))
             PROVE  Reaches(h, May(on, "SelectRepo", Elements(q2)), Goals(Elements(q2), D2), May(on, "SelectRepo", C2))
  BY DEF RepoIn, Goals
<1>1. h \in May(on, "SelectRepo", C) \union {0}
  BY DEF RepoBy, May
<1>2. /\ May(on, "SelectRepo", Elements(q)) \in SUBSET Nat /\ May(on, "SelectRepo", Elements(q2)) \in SUBSET Nat
      /\ May(on, "SelectRepo", C) \in SUBSET Nat /\ May(on, "SelectRepo", C2) \in SUBSET Nat
  <2>1. "SelectRepo" \in Binding
    BY DEF Binding
  <2> QED BY <2>1, MayIn
<1>3. Goals(Elements(q), D) \in SUBSET Nat /\ Goals(Elements(q2), D2) \in SUBSET (Nat \ {0})
  BY AskedIn DEF Goals
<1> QED BY <1>1, <1>2, <1>3, ReachesOn DEF ChangedFor

LEMMA UserOn ==
  ASSUME NEW on, NEW q, NEW q2, Elements(q) \subseteq Cmds, Elements(q2) \subseteq Cmds,
         NEW D \in SUBSET (Nat \ {0}), NEW D2 \in SUBSET (Nat \ {0}),
         NEW C \in SUBSET Cmds, NEW C2 \in SUBSET Cmds, NEW X \in SUBSET (Nat \ {0}),
         ChangedFor(on, "Authenticate", Elements(q), D, C, Elements(q2), D2, C2, X),
         NEW acc \in SUBSET C, NEW acc2, acc \subseteq acc2, \A c \in acc : Allowed(on, c), NEW who,
         UserIn(on, q, D, C, acc, who)
  PROVE  UserIn(on, q2, D2, C2, acc2, who)
<1>1. /\ May(on, "Authenticate", Elements(q)) \in SUBSET Nat /\ May(on, "Authenticate", Elements(q2)) \in SUBSET Nat
      /\ May(on, "Authenticate", C) \in SUBSET Nat /\ May(on, "Authenticate", C2) \in SUBSET Nat
  <2>1. "Authenticate" \in Binding
    BY DEF Binding
  <2> QED BY <2>1, MayIn
<1>2. Goals(Elements(q), D) \in SUBSET Nat /\ Goals(Elements(q2), D2) \in SUBSET (Nat \ {0})
  BY AskedIn DEF Goals
<1>3. ASSUME NEW h \in Nat, UserBy(h, acc, who),
             Reaches(h, May(on, "Authenticate", Elements(q)), Goals(Elements(q), D), May(on, "Authenticate", C))
      PROVE  UserIn(on, q2, D2, C2, acc2, who)
  <2>1. h \in May(on, "Authenticate", C) \union {0}
    BY <1>3 DEF UserBy, May
  <2>2. Reaches(h, May(on, "Authenticate", Elements(q2)), Goals(Elements(q2), D2), May(on, "Authenticate", C2))
    BY <2>1, <1>1, <1>2, <1>3, ReachesOn DEF ChangedFor
  <2>3. UserBy(h, acc2, who)
    BY <1>3 DEF UserBy
  <2> QED BY <2>2, <2>3 DEF UserIn, Goals
<1>4. ASSUME Barred(May(on, "Authenticate", Elements(q)), Goals(Elements(q), D), May(on, "Authenticate", C))
      PROVE  Barred(May(on, "Authenticate", Elements(q2)), Goals(Elements(q2), D2), May(on, "Authenticate", C2))
  BY <1>1, <1>2, <1>4, BarredOn DEF ChangedFor
<1> QED BY <1>3, <1>4 DEF UserIn, Goals

\* What may be accepted of C2 is of C.
Only(C2, C) == \A c \in C2 : is_binding(c) => c \in C

\* Of a kind Q2 keeps what matters: all of it, if there is more to come.
Keeps(on, kind, Q, Q2, D2) ==
  \A c \in Q : c.kind = kind /\ Allowed(on, c) =>
    c \in Q2 \/ (D2 = {} /\ \A p \in Q2 : p.kind = "Prompt" => p.nth <= c.nth)

LEMMA Lessened ==
  ASSUME NEW on, NEW kind, kind \in Binding, NEW Q \in SUBSET Cmds, NEW Q2 \in SUBSET Q,
         NEW D \in SUBSET (Nat \ {0}), NEW D2 \in SUBSET D,
         NEW C \in SUBSET Cmds, NEW C2 \in SUBSET Cmds, Only(C2, C),
         Keeps(on, kind, Q, Q2, D2)
  PROVE  ChangedFor(on, kind, Q, D, C, Q2, D2, C2, {})
<1>1. May(on, kind, Q2) \subseteq May(on, kind, Q) /\ May(on, kind, C2) \subseteq May(on, kind, C)
  BY DEF May, Only, is_binding
<1>2. Goals(Q2, D2) \subseteq Goals(Q, D)
  BY DEF Goals, Asked
<1>3. ASSUME NEW n \in Goals(Q2, D2), NEW w \in May(on, kind, Q), w < n
      PROVE  w \in May(on, kind, Q2)
  <2>1. PICK c \in Q : c.kind = kind /\ Allowed(on, c) /\ w = c.nth
    BY DEF May
  <2>2. CASE c \in Q2
    BY <2>1, <2>2 DEF May
  <2>3. CASE D2 = {} /\ \A p \in Q2 : p.kind = "Prompt" => p.nth <= c.nth
    <3>1. PICK p \in Q2 : p.kind = "Prompt" /\ n = p.nth
      BY <2>3 DEF Goals, Asked
    <3>2. c \in Cmds /\ p \in Cmds
      OBVIOUS
    <3> QED BY <3>1, <3>2, <2>1, <2>3, <1>3, CmdFields
  <2> QED BY <2>1, <2>2, <2>3 DEF Keeps
<1> QED BY <1>1, <1>2, <1>3 DEF ChangedFor, Changed

\* The user is about to do something.
LEMMA Awaited ==
  ASSUME NEW on, NEW kind, kind \in Binding, NEW Q \in SUBSET Cmds, NEW C \in SUBSET Cmds, Q \subseteq C,
         NEW d \in Nat, Until(C, d)
  PROVE  ChangedFor(on, kind, Q, {d + 1}, C, Q, {d + 2}, C, {})
<1>1. \A m \in May(on, kind, C) : m <= d
  BY DEF May, Until
<1>2. May(on, kind, Q) \subseteq May(on, kind, C) /\ May(on, kind, C) \subseteq Nat
  BY MayIn DEF May
<1>3. ASSUME NEW n \in Goals(Q, {d + 2})
      PROVE  \E g \in Goals(Q, {d + 1}) :
               (\A m \in May(on, kind, C) : m < n <=> m < g) /\ (\A w \in May(on, kind, Q) : w < g => w < n)
  <2>1. CASE n \in Asked(Q)
    BY <2>1 DEF Goals
  <2>2. CASE n = d + 2
    <3>1. d + 1 \in Goals(Q, {d + 1})
      BY DEF Goals
    <3>2. \A m \in May(on, kind, C) : m < d + 2 /\ m < d + 1
      BY <1>1, <1>2
    <3> QED BY <3>1, <3>2, <2>2, <1>2
  <2> QED BY <2>1, <2>2 DEF Goals
<1> QED BY <1>3 DEF ChangedFor, Changed

\* A command is taken up, and sent on the socket with more to come.
LEMMA Added ==
  ASSUME NEW on, NEW kind, kind \in Binding, NEW C \in SUBSET Cmds, NEW Q \in SUBSET C,
         NEW d \in Nat, Until(C, d), NEW c \in Cmds, c.nth <= d, Follow(C, {c}),
         NEW C2 \in SUBSET Cmds, Only(C2, C \union {c})
  PROVE  \E X \in SUBSET (Nat \ {0}) : ChangedFor(on, kind, Q, {d + 1}, C, Q \union {c}, {d + 1}, C2, X)
<1> DEFINE W == May(on, kind, Q)
           M == May(on, kind, C)
           W2 == May(on, kind, Q \union {c})
           M2 == May(on, kind, C2)
<1>1. W \subseteq M /\ M \subseteq Nat
  BY MayIn DEF May
<1>2. \A m \in M : m <= d /\ (c.nth # 0 => m < c.nth)
  BY DEF May, Until, Follow
<1>3. CASE c.kind = kind /\ Allowed(on, c)
  <2>1. c.nth \in Nat \ {0} /\ c.kind # "Prompt"
    BY <1>3, CmdFields DEF Binding
  <2>2. W2 = W \union {c.nth} /\ M2 \subseteq M \union {c.nth}
    BY <1>3 DEF May, Only, is_binding
  <2>3. Goals(Q \union {c}, {d + 1}) = Goals(Q, {d + 1})
    BY <2>1 DEF Goals, Asked
  <2>4. \A n \in Goals(Q, {d + 1}), w \in W : w < n => w \in W2 /\ w < n
    BY <2>2
  <2> HIDE DEF W, M, W2, M2
  <2>5. Changed(W, Goals(Q, {d + 1}), M, W2, Goals(Q, {d + 1}), M2, {c.nth})
    BY <1>1, <1>2, <2>1, <2>2, <2>4 DEF Changed
  <2> QED BY <2>1, <2>3, <2>5 DEF ChangedFor, W, M, W2, M2
<1>4. CASE ~(c.kind = kind /\ Allowed(on, c))
  <2>1. W2 = W /\ M2 \subseteq M
    BY <1>4 DEF May, Only, is_binding
  <2>2. ASSUME NEW n \in Goals(Q \union {c}, {d + 1})
        PROVE  \E g \in Goals(Q, {d + 1}) :
                 (\A m \in M : m < n <=> m < g) /\ (\A w \in W : w < g => w \in W2 /\ w < n)
    <3>1. CASE n \in Goals(Q, {d + 1})
      BY <3>1, <2>1
    <3>2. CASE c.kind = "Prompt" /\ n = c.nth
      <4>1. n \in Nat \ {0}
        BY <3>2, CmdFields
      <4>2. \A m \in M : m < n /\ m < d + 1
        BY <4>1, <3>2, <1>1, <1>2
      <4>3. d + 1 \in Goals(Q, {d + 1})
        BY DEF Goals
      <4> QED BY <4>2, <4>3, <2>1, <1>1
    <3> QED BY <3>1, <3>2 DEF Goals, Asked
  <2> HIDE DEF W, M, W2, M2
  <2>3. Changed(W, Goals(Q, {d + 1}), M, W2, Goals(Q \union {c}, {d + 1}), M2, {})
    BY <2>1, <2>2 DEF Changed
  <2> QED BY <2>3 DEF ChangedFor, W, M, W2, M2
<1> QED BY <1>3, <1>4

\* A command is taken up, where a socket has no more to come.
LEMMA Passing ==
  ASSUME NEW on, NEW kind, kind \in Binding, NEW C \in SUBSET Cmds, NEW Q \in SUBSET C,
         NEW c \in Cmds, Follow(C, {c}), NEW C2 \in SUBSET Cmds, Only(C2, C \union {c})
  PROVE  \E X \in SUBSET (Nat \ {0}) : ChangedFor(on, kind, Q, {}, C, Q, {}, C2, X)
<1> DEFINE W == May(on, kind, Q)
           M == May(on, kind, C)
           M2 == May(on, kind, C2)
           G == Goals(Q, {})
<1>1. W \subseteq M /\ M \subseteq Nat /\ G \subseteq Nat
  BY MayIn, AskedIn DEF May, Goals
<1>3. CASE c.kind = kind /\ Allowed(on, c)
  <2>1. c.nth \in Nat \ {0}
    BY <1>3, CmdFields DEF Binding
  <2>2. M2 \subseteq M \union {c.nth}
    BY <1>3 DEF May, Only, is_binding
  <2>3. \A m \in M : m < c.nth
    BY <2>1 DEF May, Follow
  <2>4. \A n \in G : n < c.nth
    BY <2>1 DEF Goals, Asked, Follow
  <2> HIDE DEF W, M, M2, G
  <2>5. Changed(W, G, M, W, G, M2, {c.nth})
    BY <1>1, <2>1, <2>2, <2>3, <2>4 DEF Changed
  <2> QED BY <2>1, <2>5 DEF ChangedFor, W, M, M2, G
<1>4. CASE ~(c.kind = kind /\ Allowed(on, c))
  <2>1. M2 \subseteq M
    BY <1>4 DEF May, Only, is_binding
  <2> HIDE DEF W, M, M2, G
  <2>3. Changed(W, G, M, W, G, M2, {})
    BY <2>1 DEF Changed
  <2> QED BY <2>3 DEF ChangedFor, W, M, M2, G
<1> QED BY <1>3, <1>4

-----------------------------------------------------------------------------
(* Lines.                                                                  *)

LEMMA TailInOrder ==
  ASSUME NEW S, NEW q \in Seq(S), q # <<>>, InOrder(q)
  PROVE  /\ InOrder(Tail(q))
         /\ \A c \in Elements(Tail(q)) : c.nth # 0 /\ Head(q).nth # 0 => Head(q).nth < c.nth
<1>1. PICK t : t = Tail(q)
  OBVIOUS
<1>2. PICK n \in Nat : n = Len(q)
  OBVIOUS
<1>3. /\ n \in Nat \ {0} /\ DOMAIN q = 1..n /\ DOMAIN t = 1..n - 1 /\ Head(q) = q[1]
      /\ \A i \in 1..n - 1 : t[i] = q[i + 1]
  BY <1>1, <1>2, Shortened
<1>4. ASSUME NEW i \in 1..n - 1, NEW j \in 1..n - 1, i < j, t[i].nth # 0, t[j].nth # 0
      PROVE  t[i].nth < t[j].nth
  <2>1. i + 1 \in 1..n /\ j + 1 \in 1..n /\ i + 1 < j + 1
    BY <1>3, <1>4
  <2> QED BY <2>1, <1>3, <1>4 DEF InOrder
<1>5. ASSUME NEW i \in 1..n - 1, t[i].nth # 0, q[1].nth # 0
      PROVE  q[1].nth < t[i].nth
  <2>1. i + 1 \in 1..n /\ 1 \in 1..n /\ 1 < i + 1
    BY <1>3
  <2> QED BY <2>1, <1>3, <1>5 DEF InOrder
<1>6. InOrder(t)
  BY <1>3, <1>4 DEF InOrder
<1>7. \A c \in Elements(t) : c.nth # 0 /\ q[1].nth # 0 => q[1].nth < c.nth
  BY <1>3, <1>5 DEF Elements
<1> QED BY <1>1, <1>3, <1>6, <1>7

LEMMA AppendInOrder ==
  ASSUME NEW S, NEW q \in Seq(S), NEW c \in S, InOrder(q), Follow(Elements(q), {c})
  PROVE  InOrder(Append(q, c))
<1>1. PICK r : r = Append(q, c)
  OBVIOUS
<1>2. PICK n \in Nat : n = Len(q)
  OBVIOUS
<1>3. DOMAIN r = 1..n + 1 /\ DOMAIN q = 1..n /\ (\A i \in 1..n : r[i] = q[i]) /\ r[n + 1] = c
  BY <1>1, <1>2, Appended
<1>4. ASSUME NEW i \in 1..n + 1, NEW j \in 1..n + 1, i < j, r[i].nth # 0, r[j].nth # 0
      PROVE  r[i].nth < r[j].nth
  <2>1. i \in 1..n
    BY <1>4
  <2>2. CASE j \in 1..n
    BY <2>1, <2>2, <1>3, <1>4 DEF InOrder
  <2>3. CASE j = n + 1
    <3>1. r[i] \in Elements(q) /\ r[j] = c
      BY <2>1, <2>3, <1>3 DEF Elements
    <3> QED BY <3>1, <1>4 DEF Follow
  <2>4. j \in 1..n \/ j = n + 1
    OBVIOUS
  <2> QED BY <2>2, <2>3, <2>4
<1> QED BY <1>1, <1>3, <1>4 DEF InOrder

LEMMA JoinedInOrder ==
  ASSUME NEW S, NEW p \in Seq(S), NEW q \in Seq(S), InOrder(p), InOrder(q),
         Follow(Elements(p), Elements(q))
  PROVE  InOrder(p \o q)
<1>1. PICK r : r = p \o q
  OBVIOUS
<1>2. PICK m \in Nat, n \in Nat : m = Len(p) /\ n = Len(q)
  OBVIOUS
<1>3. /\ DOMAIN r = 1..m + n /\ DOMAIN p = 1..m /\ DOMAIN q = 1..n
      /\ \A i \in 1..m + n : r[i] = IF i <= m THEN p[i] ELSE q[i - m]
  BY <1>1, <1>2, Joined2
<1>4. ASSUME NEW i \in 1..m + n, NEW j \in 1..m + n, i < j, r[i].nth # 0, r[j].nth # 0
      PROVE  r[i].nth < r[j].nth
  <2>1. CASE j <= m
    <3>1. i \in 1..m /\ j \in 1..m /\ r[i] = p[i] /\ r[j] = p[j]
      BY <2>1, <1>3, <1>4
    <3> QED BY <3>1, <1>3, <1>4 DEF InOrder
  <2>2. CASE i <= m /\ ~(j <= m)
    <3>1. i \in 1..m /\ j - m \in 1..n /\ r[i] = p[i] /\ r[j] = q[j - m]
      BY <2>2, <1>3, <1>4
    <3>2. r[i] \in Elements(p) /\ r[j] \in Elements(q)
      BY <3>1, <1>3 DEF Elements
    <3> QED BY <3>2, <1>4 DEF Follow
  <2>3. CASE ~(i <= m)
    <3>1. i - m \in 1..n /\ j - m \in 1..n /\ i - m < j - m /\ ~(j <= m)
      BY <2>3, <1>4
    <3>2. r[i] = q[i - m] /\ r[j] = q[j - m]
      BY <3>1, <2>3, <1>3
    <3> QED BY <3>1, <3>2, <1>3, <1>4 DEF InOrder
  <2> QED BY <2>1, <2>2, <2>3
<1> QED BY <1>1, <1>3, <1>4 DEF InOrder

\* p is the first n of q.
FirstOf(p, q, n) == DOMAIN p = 1..n /\ \A i \in 1..n : p[i] = q[i]

LEMMA CutShort ==
  ASSUME NEW S, NEW q \in Seq(S), NEW n \in 0..Len(q)
  PROVE  /\ SubSeq(q, 1, n) \in Seq(S) /\ FirstOf(SubSeq(q, 1, n), q, n)
         /\ DOMAIN q = 1..Len(q) /\ n <= Len(q) /\ Len(q) \in Nat
<1>1. Len(q) \in Nat /\ n \in Nat /\ n <= Len(q)
  OBVIOUS
<1>2. Len(SubSeq(q, 1, n)) = n
  BY <1>1, SubSeqProperties
<1>3. SubSeq(q, 1, n) \in Seq(S) /\ \A i \in 1..n : SubSeq(q, 1, n)[i] = q[i]
  BY <1>1
<1> QED BY <1>1, <1>2, <1>3 DEF FirstOf

LEMMA FirstInOrder ==
  ASSUME NEW p, NEW q, NEW m \in Nat, NEW n \in 0..m, DOMAIN q = 1..m, FirstOf(p, q, n), InOrder(q)
  PROVE  InOrder(p) /\ Elements(p) \subseteq Elements(q)
<1>1. \A i \in 1..n : i \in 1..m /\ p[i] = q[i]
  BY DEF FirstOf
<1>2. Elements(p) \subseteq Elements(q)
  BY <1>1 DEF FirstOf, Elements
<1>3. InOrder(p)
  BY <1>1 DEF FirstOf, InOrder
<1> QED BY <1>2, <1>3

LEMMA DoomedAppend ==
  ASSUME NEW S, NEW q \in Seq(S), NEW c \in S, NEW on, Doomed(on, q)
  PROVE  Doomed(on, Append(q, c))
<1>1. PICK r : r = Append(q, c)
  OBVIOUS
<1>2. PICK n \in Nat : n = Len(q)
  OBVIOUS
<1>3. DOMAIN r = 1..n + 1 /\ DOMAIN q = 1..n /\ (\A i \in 1..n : r[i] = q[i])
  BY <1>1, <1>2, Appended
<1>4. PICK i \in 1..n : /\ q[i].kind = "SelectRepo" /\ ~Allowed(on, q[i])
                        /\ \A j \in 1..i - 1 : q[j].kind = "Authenticate"
  BY <1>3 DEF Doomed
<1>5. i \in 1..n + 1 /\ r[i] = q[i] /\ \A j \in 1..i - 1 : j \in 1..n /\ r[j] = q[j]
  BY <1>3
<1>6. Doomed(on, r)
  BY <1>3, <1>4, <1>5 DEF Doomed
<1> QED BY <1>1, <1>6

LEMMA DoomedTail ==
  ASSUME NEW S, NEW q \in Seq(S), q # <<>>, NEW on, Doomed(on, q)
  PROVE  \/ Head(q).kind = "SelectRepo" /\ ~Allowed(on, Head(q))
         \/ Head(q).kind = "Authenticate" /\ Doomed(on, Tail(q))
<1>1. PICK t : t = Tail(q)
  OBVIOUS
<1>2. PICK n \in Nat : n = Len(q)
  OBVIOUS
<1>3. /\ n \in Nat \ {0} /\ DOMAIN q = 1..n /\ DOMAIN t = 1..n - 1 /\ Head(q) = q[1]
      /\ \A i \in 1..n - 1 : t[i] = q[i + 1]
  BY <1>1, <1>2, Shortened
<1>4. PICK i \in 1..n : /\ q[i].kind = "SelectRepo" /\ ~Allowed(on, q[i])
                        /\ \A j \in 1..i - 1 : q[j].kind = "Authenticate"
  BY <1>3 DEF Doomed
<1>5. CASE i = 1
  BY <1>3, <1>4, <1>5
<1>6. CASE i # 1
  <2>1. 1 \in 1..i - 1 /\ i - 1 \in 1..n - 1 /\ (i - 1) + 1 = i
    BY <1>6, <1>3
  <2>2. t[i - 1] = q[i]
    BY <2>1, <1>3
  <2>3. ASSUME NEW j \in 1..(i - 1) - 1 PROVE t[j].kind = "Authenticate"
    <3>1. j \in 1..n - 1 /\ j + 1 \in 1..i - 1
      BY <2>1
    <3> QED BY <3>1, <1>3, <1>4
  <2>4. Doomed(on, t)
    BY <2>1, <2>2, <2>3, <1>3, <1>4 DEF Doomed
  <2> QED BY <2>1, <2>4, <1>1, <1>3, <1>4
<1> QED BY <1>5, <1>6

LEMMA DoomedFirst ==
  ASSUME NEW p, NEW q, NEW m \in Nat, NEW n \in 0..m, DOMAIN q = 1..m, FirstOf(p, q, n), NEW on,
         Doomed(on, q)
  PROVE  Doomed(on, p) \/ \A c \in Elements(p) : c.kind = "Authenticate"
<1>1. \A i \in 1..n : i \in 1..m /\ p[i] = q[i]
  BY DEF FirstOf
<1>2. PICK i \in 1..m : /\ q[i].kind = "SelectRepo" /\ ~Allowed(on, q[i])
                        /\ \A j \in 1..i - 1 : q[j].kind = "Authenticate"
  BY DEF Doomed
<1>3. CASE i <= n
  <2>1. i \in 1..n /\ \A j \in 1..i - 1 : j \in 1..n
    BY <1>3
  <2> QED BY <2>1, <1>1, <1>2 DEF Doomed, FirstOf
<1>4. CASE ~(i <= n)
  <2>1. \A j \in 1..n : j \in 1..i - 1
    BY <1>4
  <2> QED BY <2>1, <1>1, <1>2 DEF Elements, FirstOf
<1> QED BY <1>3, <1>4

-----------------------------------------------------------------------------
(* What is placed on a socket, while the daemon does nothing there.        *)

Sound(on, q, C, acc) ==
  /\ Elements(q) \subseteq C /\ C \subseteq Cmds /\ acc \subseteq C
  /\ \A c \in acc : Allowed(on, c)

LEMMA PlacedOn ==
  ASSUME NEW on, NEW q, NEW C, NEW acc, Sound(on, q, C, acc), NEW q2, Elements(q2) \subseteq Cmds,
         NEW D \in SUBSET (Nat \ {0}), NEW D2 \in SUBSET (Nat \ {0}), NEW C2 \in SUBSET Cmds,
         \A kind \in Binding : \E X \in SUBSET (Nat \ {0}) :
           ChangedFor(on, kind, Elements(q), D, C, Elements(q2), D2, C2, X),
         NEW at, NEW who, NEW un,
         at = Nobody /\ Doomed(on, q) => RepoIn(on, q2, D2, C2, acc, at),
         PlacedIn(on, q, D, C, acc, at, who, un)
  PROVE  PlacedIn(on, q2, D2, C2, acc, at, who, un)
<1>1. "SelectRepo" \in Binding /\ "Authenticate" \in Binding
  BY DEF Binding
<1>2. PICK X \in SUBSET (Nat \ {0}) :
        ChangedFor(on, "SelectRepo", Elements(q), D, C, Elements(q2), D2, C2, X)
  BY <1>1
<1>3. PICK Y \in SUBSET (Nat \ {0}) :
        ChangedFor(on, "Authenticate", Elements(q), D, C, Elements(q2), D2, C2, Y)
  BY <1>1
<1>4. /\ Elements(q) \subseteq Cmds /\ C \in SUBSET Cmds /\ acc \in SUBSET C
      /\ \A c \in acc : Allowed(on, c)
  BY DEF Sound
<1>5. RepoIn(on, q, D, C, acc, at) => RepoIn(on, q2, D2, C2, acc, at)
  BY <1>2, <1>4, RepoOn
<1>6. UserIn(on, q, D, C, acc, who) => UserIn(on, q2, D2, C2, acc, who)
  BY <1>3, <1>4, UserOn
<1> QED BY <1>5, <1>6 DEF PlacedIn

LEMMA PlacedSame ==
  ASSUME NEW on, NEW q, NEW C, NEW acc, Sound(on, q, C, acc),
         NEW D \in SUBSET (Nat \ {0}), NEW D2 \in SUBSET D, NEW C2 \in SUBSET Cmds, Only(C2, C),
         NEW at, NEW who, NEW un, PlacedIn(on, q, D, C, acc, at, who, un)
  PROVE  PlacedIn(on, q, D2, C2, acc, at, who, un)
<1>1. Elements(q) \in SUBSET Cmds /\ C \in SUBSET Cmds
  BY DEF Sound
<1>2. ASSUME NEW kind \in Binding
      PROVE  ChangedFor(on, kind, Elements(q), D, C, Elements(q), D2, C2, {})
  <2>1. Keeps(on, kind, Elements(q), Elements(q), D2)
    BY DEF Keeps
  <2> QED BY <2>1, <1>1, Lessened
<1>3. at = Nobody /\ Doomed(on, q) => RepoIn(on, q, D2, C2, acc, at)
  BY DEF RepoIn
<1>4. \A kind \in Binding : \E X \in SUBSET (Nat \ {0}) :
        ChangedFor(on, kind, Elements(q), D, C, Elements(q), D2, C2, X)
  BY <1>2
<1> QED BY <1>1, <1>3, <1>4, PlacedOn

LEMMA PlacedAwaiting ==
  ASSUME NEW on, NEW q, NEW C, NEW acc, Sound(on, q, C, acc), NEW d \in Nat, Until(C, d),
         NEW at, NEW who, NEW un, PlacedIn(on, q, {d + 1}, C, acc, at, who, un)
  PROVE  PlacedIn(on, q, {d + 2}, C, acc, at, who, un)
<1>1. Elements(q) \in SUBSET Cmds /\ C \in SUBSET Cmds /\ Elements(q) \in SUBSET C
  BY DEF Sound
<1>2. PICK D \in SUBSET (Nat \ {0}) : D = {d + 1}
  <2>1. {d + 1} \subseteq Nat \ {0}
    OBVIOUS
  <2> QED BY <2>1
<1>3. PICK D2 \in SUBSET (Nat \ {0}) : D2 = {d + 2}
  <2>1. {d + 2} \subseteq Nat \ {0}
    OBVIOUS
  <2> QED BY <2>1
<1>4. \A kind \in Binding : \E X \in SUBSET (Nat \ {0}) :
        ChangedFor(on, kind, Elements(q), D, C, Elements(q), D2, C, X)
  <2> SUFFICES ASSUME NEW kind \in Binding
               PROVE  ChangedFor(on, kind, Elements(q), D, C, Elements(q), D2, C, {})
    OBVIOUS
  <2> QED BY <1>1, <1>2, <1>3, Awaited
<1>5. at = Nobody /\ Doomed(on, q) => RepoIn(on, q, D2, C, acc, at)
  BY DEF RepoIn
<1>6. PlacedIn(on, q, D, C, acc, at, who, un)
  BY <1>2
<1>7. PlacedIn(on, q, D2, C, acc, at, who, un)
  BY <1>1, <1>4, <1>5, <1>6, PlacedOn
<1> QED BY <1>3, <1>7

LEMMA PlacedAdded ==
  ASSUME NEW on, NEW q \in Seq(Cmds), NEW C, NEW acc, Sound(on, q, C, acc), NEW d \in Nat, Until(C, d),
         NEW c \in Cmds, c.nth <= d, Follow(C, {c}), NEW C2 \in SUBSET Cmds, Only(C2, C \union {c}),
         NEW at, NEW who, NEW un, PlacedIn(on, q, {d + 1}, C, acc, at, who, un)
  PROVE  PlacedIn(on, Append(q, c), {d + 1}, C2, acc, at, who, un)
<1>1. Elements(q) \in SUBSET Cmds /\ C \in SUBSET Cmds /\ Elements(q) \in SUBSET C
  BY DEF Sound
<1>2. PICK r : r = Append(q, c)
  OBVIOUS
<1>3. Elements(r) = Elements(q) \union {c} /\ (Doomed(on, q) => Doomed(on, r))
  BY <1>2, Appended, DoomedAppend
<1>4. PICK D \in SUBSET (Nat \ {0}) : D = {d + 1}
  <2>1. {d + 1} \subseteq Nat \ {0}
    OBVIOUS
  <2> QED BY <2>1
<1>5. \A kind \in Binding : \E X \in SUBSET (Nat \ {0}) :
        ChangedFor(on, kind, Elements(q), D, C, Elements(r), D, C2, X)
  <2>1. \A kind \in Binding : \E X \in SUBSET (Nat \ {0}) :
          ChangedFor(on, kind, Elements(q), {d + 1}, C, Elements(q) \union {c}, {d + 1}, C2, X)
    BY <1>1, Added
  <2> QED BY <2>1, <1>3, <1>4
<1>6. at = Nobody /\ Doomed(on, q) => RepoIn(on, r, D, C2, acc, at)
  BY <1>3 DEF RepoIn
<1>7. Elements(r) \subseteq Cmds
  BY <1>1, <1>3
<1>8. PlacedIn(on, q, D, C, acc, at, who, un)
  BY <1>4
<1>9. PlacedIn(on, r, D, C2, acc, at, who, un)
  BY <1>5, <1>6, <1>7, <1>8, PlacedOn
<1> QED BY <1>2, <1>4, <1>9

LEMMA PlacedPassing ==
  ASSUME NEW on, NEW q, NEW C, NEW acc, Sound(on, q, C, acc),
         NEW c \in Cmds, Follow(C, {c}), NEW C2 \in SUBSET Cmds, Only(C2, C \union {c}),
         NEW at, NEW who, NEW un, PlacedIn(on, q, {}, C, acc, at, who, un)
  PROVE  PlacedIn(on, q, {}, C2, acc, at, who, un)
<1>1. Elements(q) \in SUBSET C /\ Elements(q) \subseteq Cmds /\ C \in SUBSET Cmds
  BY DEF Sound
<1>2. \A kind \in Binding : \E X \in SUBSET (Nat \ {0}) :
        ChangedFor(on, kind, Elements(q), {}, C, Elements(q), {}, C2, X)
  BY <1>1, Passing
<1>3. at = Nobody /\ Doomed(on, q) => RepoIn(on, q, {}, C2, acc, at)
  BY DEF RepoIn
<1> QED BY <1>1, <1>2, <1>3, PlacedOn

LEMMA PlacedCut ==
  ASSUME NEW on, NEW q, NEW C, NEW acc, Sound(on, q, C, acc), InOrder(q),
         NEW p, NEW m \in Nat, NEW n \in 0..m, DOMAIN q = 1..m, FirstOf(p, q, n),
         NEW D \in SUBSET (Nat \ {0}), NEW C2 \in SUBSET Cmds, Only(C2, C),
         NEW at, NEW who, NEW un, PlacedIn(on, q, D, C, acc, at, who, un)
  PROVE  PlacedIn(on, p, {}, C2, acc, at, who, un)
<1>1. Elements(q) \in SUBSET Cmds /\ C \in SUBSET Cmds /\ Elements(p) \in SUBSET Elements(q)
  BY FirstInOrder DEF Sound
<1>2. ASSUME NEW kind \in Binding
      PROVE  ChangedFor(on, kind, Elements(q), D, C, Elements(p), {}, C2, {})
  <2>1. ASSUME NEW c \in Elements(q), c.kind = kind, c \notin Elements(p),
               NEW b \in Elements(p), b.kind = "Prompt"
        PROVE  b.nth <= c.nth
    <3>1. PICK j \in 1..m : c = q[j]
      BY DEF Elements
    <3>2. PICK i \in 1..n : b = p[i]
      BY DEF Elements, FirstOf
    <3>3. ~(j \in 1..n) /\ p[i] = q[i]
      BY <2>1, <3>1, <3>2 DEF Elements, FirstOf
    <3>4. i < j /\ i \in 1..m
      BY <3>3
    <3>5. c \in Cmds /\ b \in Cmds
      BY <1>1
    <3>6. c.nth \in Nat \ {0} /\ b.nth \in Nat \ {0}
      BY <3>5, <2>1, CmdFields DEF Binding
    <3>7. b.nth < c.nth
      BY <3>1, <3>2, <3>3, <3>4, <3>6 DEF InOrder
    <3> QED BY <3>6, <3>7
  <2>2. Keeps(on, kind, Elements(q), Elements(p), {})
    BY <2>1 DEF Keeps
  <2> QED BY <2>2, <1>1, Lessened
<1>3. ASSUME at = Nobody, Doomed(on, q)
      PROVE  RepoIn(on, p, {}, C2, acc, at)
  <2>1. CASE Doomed(on, p)
    BY <2>1, <1>3 DEF RepoIn
  <2>2. CASE \A c \in Elements(p) : c.kind = "Authenticate"
    <3>1. May(on, "SelectRepo", Elements(p)) = {} /\ Asked(Elements(p)) = {}
      BY <2>2 DEF May, Asked
    <3>2. Reaches(0, {}, {}, May(on, "SelectRepo", C2))
      BY DEF Reaches, Ahead
    <3>3. RepoBy(0, acc, at) /\ 0 \in Nat
      BY <1>3 DEF RepoBy
    <3> QED BY <3>1, <3>2, <3>3 DEF RepoIn
  <2> QED BY <2>1, <2>2, <1>3, DoomedFirst
<1>4. \A kind \in Binding : \E X \in SUBSET (Nat \ {0}) :
        ChangedFor(on, kind, Elements(q), D, C, Elements(p), {}, C2, X)
  BY <1>2
<1>5. Elements(p) \subseteq Cmds /\ {} \in SUBSET (Nat \ {0})
  BY <1>1
<1> QED BY <1>3, <1>4, <1>5, PlacedOn

-----------------------------------------------------------------------------
(* What is placed on a socket, when the daemon takes the first in line.     *)

\* c comes before t, the rest of the line q, and before what is coming.
FirstIn(c, q, t, D, C) ==
  /\ c \in Elements(q) /\ Elements(q) = Elements(t) \union {c}
  /\ \A e \in Elements(t) : e.nth # 0 /\ c.nth # 0 => c.nth < e.nth
  /\ \A n \in D, e \in C : e.nth < n

LEMMA FirstTaken ==
  ASSUME NEW q \in Seq(Cmds), q # <<>>, InOrder(q), NEW D, NEW C, \A n \in D, e \in C : e.nth < n
  PROVE  FirstIn(Head(q), q, Tail(q), D, C)
<1>1. Elements(q) = Elements(Tail(q)) \union {Head(q)}
  BY Shortened
<1>2. \A e \in Elements(Tail(q)) : e.nth # 0 /\ Head(q).nth # 0 => Head(q).nth < e.nth
  BY TailInOrder
<1>3. Head(q) \in Elements(q)
  BY <1>1
<1> QED BY <1>1, <1>2, <1>3 DEF FirstIn

LEMMA Passes ==
  ASSUME NEW on, NEW kind, kind \in Binding, NEW q, NEW t, NEW c, NEW D \in SUBSET (Nat \ {0}),
         NEW C \in SUBSET Cmds, Elements(q) \subseteq C, FirstIn(c, q, t, D, C),
         ~(c.kind = kind /\ Allowed(on, c)), NEW C2 \in SUBSET Cmds, Only(C2, C)
  PROVE  ChangedFor(on, kind, Elements(q), D, C, Elements(t), D, C2, {})
<1>1. Keeps(on, kind, Elements(q), Elements(t), D)
  BY DEF Keeps, FirstIn
<1>2. Elements(q) \in SUBSET Cmds /\ Elements(t) \in SUBSET Elements(q)
  BY DEF FirstIn
<1> QED BY <1>1, <1>2, Lessened

LEMMA UserPasses ==
  ASSUME NEW on, NEW q, NEW C, NEW acc, Sound(on, q, C, acc), NEW t, NEW c,
         NEW D \in SUBSET (Nat \ {0}), FirstIn(c, q, t, D, C),
         ~(c.kind = "Authenticate" /\ Allowed(on, c)),
         NEW C2 \in SUBSET Cmds, Only(C2, C), NEW acc2, acc \subseteq acc2, NEW who,
         UserIn(on, q, D, C, acc, who)
  PROVE  UserIn(on, t, D, C2, acc2, who)
<1>1. /\ C \in SUBSET Cmds /\ Elements(q) \subseteq C /\ Elements(q) \subseteq Cmds /\ Elements(t) \subseteq Cmds
      /\ acc \in SUBSET C /\ \A e \in acc : Allowed(on, e)
  BY DEF Sound, FirstIn
<1>2. ChangedFor(on, "Authenticate", Elements(q), D, C, Elements(t), D, C2, {})
  <2>1. "Authenticate" \in Binding
    BY DEF Binding
  <2> QED BY <2>1, <1>1, Passes
<1>3. PICK X \in SUBSET (Nat \ {0}) : X = {}
  OBVIOUS
<1>4. ChangedFor(on, "Authenticate", Elements(q), D, C, Elements(t), D, C2, X)
  BY <1>2, <1>3
<1> QED BY <1>1, <1>4, UserOn

LEMMA RepoPasses ==
  ASSUME NEW on, NEW q, NEW C, NEW acc, Sound(on, q, C, acc), NEW t, NEW c,
         NEW D \in SUBSET (Nat \ {0}), FirstIn(c, q, t, D, C),
         ~(c.kind = "SelectRepo" /\ Allowed(on, c)),
         NEW C2 \in SUBSET Cmds, Only(C2, C), NEW acc2, NEW at, NEW at2,
         \A h \in Nat : RepoBy(h, acc, at) => RepoBy(h, acc2, at2),
         at = Nobody /\ Doomed(on, q) => at2 = Nobody /\ Doomed(on, t),
         RepoIn(on, q, D, C, acc, at)
  PROVE  RepoIn(on, t, D, C2, acc2, at2)
<1>1. /\ C \in SUBSET Cmds /\ Elements(q) \subseteq C /\ Elements(q) \subseteq Cmds /\ Elements(t) \subseteq Cmds
      /\ acc \in SUBSET C /\ \A e \in acc : Allowed(on, e)
  BY DEF Sound, FirstIn
<1>2. ChangedFor(on, "SelectRepo", Elements(q), D, C, Elements(t), D, C2, {})
  <2>1. "SelectRepo" \in Binding
    BY DEF Binding
  <2> QED BY <2>1, <1>1, Passes
<1>3. PICK X \in SUBSET (Nat \ {0}) : X = {}
  OBVIOUS
<1>4. ChangedFor(on, "SelectRepo", Elements(q), D, C, Elements(t), D, C2, X)
  BY <1>2, <1>3
<1>5. at = Nobody /\ Doomed(on, q) => RepoIn(on, t, D, C2, acc2, at2)
  BY DEF RepoIn
<1> QED BY <1>1, <1>4, <1>5, RepoOn

LEMMA Takeover ==
  ASSUME NEW on, NEW kind, kind \in Binding, NEW q, NEW t, NEW c, NEW D \in SUBSET (Nat \ {0}),
         NEW C \in SUBSET Cmds, Elements(q) \subseteq C, FirstIn(c, q, t, D, C),
         c.kind = kind, Allowed(on, c), NEW C2 \in SUBSET Cmds, Only(C2, C),
         InReach(May(on, kind, Elements(q)), Goals(Elements(q), D), May(on, kind, C))
  PROVE  /\ c.nth \in Nat \ {0}
         /\ Reaches(c.nth, May(on, kind, Elements(t)), Goals(Elements(t), D), May(on, kind, C2))
<1> DEFINE W == May(on, kind, Elements(q))
           G == Goals(Elements(q), D)
           M == May(on, kind, C)
           W2 == May(on, kind, Elements(t))
           G2 == Goals(Elements(t), D)
           M2 == May(on, kind, C2)
<1>1. Elements(t) \subseteq Elements(q) /\ Elements(q) \subseteq Cmds /\ c \in Elements(q)
  BY DEF FirstIn
<1>2. c.nth \in Nat \ {0}
  BY <1>1, CmdFields DEF Binding
<1>3. W \in SUBSET Nat /\ M \in SUBSET Nat /\ M2 \in SUBSET Nat /\ W2 \in SUBSET Nat
  BY <1>1, MayIn
<1>4. G \in SUBSET Nat /\ G2 \in SUBSET G
  BY <1>1, AskedIn DEF Goals, Asked
<1>5. c.nth \in W /\ W \subseteq W2 \union {c.nth} /\ W2 \subseteq W /\ M2 \subseteq M
  BY <1>1 DEF May, FirstIn, Only, is_binding
<1>6. \A e \in Elements(t) : e.nth # 0 => c.nth < e.nth
  BY <1>2 DEF FirstIn
<1>7. \A w \in W2 : c.nth < w
  BY <1>1, <1>6, MayIn DEF May
<1>8. ASSUME NEW n \in G2
      PROVE  c.nth < n
  <2>1. CASE n \in D
    <3>1. c \in C
      BY <1>1
    <3> QED BY <3>1, <2>1 DEF FirstIn
  <2>2. ASSUME NEW e \in Elements(t), e.kind = "Prompt", n = e.nth
        PROVE  c.nth < n
    <3>1. e.nth # 0
      BY <2>2, <1>1, CmdFields
    <3> QED BY <3>1, <2>2, <1>6
  <2> QED BY <2>1, <2>2 DEF Goals, Asked
<1>9. InReach(W, G, M)
  OBVIOUS
<1>10. G2 \in SUBSET Nat
  BY <1>4
<1> HIDE DEF W, G, M, W2, G2, M2
<1>11. Reaches(c.nth, W2, G2, M2)
  <2>1. PICK x \in Nat : x = c.nth
    BY <1>2
  <2>2. TakenOff(x, W, G, M, W2, G2, M2)
    BY <2>1, <1>4, <1>5, <1>7, <1>8 DEF TakenOff
  <2>3. Reaches(x, W2, G2, M2)
    BY <2>2, <1>3, <1>4, <1>9, <1>10, ReachesNext
  <2> QED BY <2>1, <2>3
<1> QED BY <1>2, <1>11 DEF W2, G2, M2

LEMMA UserTaken ==
  ASSUME NEW on, NEW q, NEW C, NEW acc, Sound(on, q, C, acc), NEW t, NEW c,
         NEW D \in SUBSET (Nat \ {0}), FirstIn(c, q, t, D, C),
         c.kind = "Authenticate", Allowed(on, c), NEW C2 \in SUBSET Cmds, Only(C2, C), NEW who,
         UserIn(on, q, D, C, acc, who)
  PROVE  UserIn(on, t, D, C2, acc \union {c}, c.user)
<1>1. C \in SUBSET Cmds /\ Elements(q) \subseteq C /\ "Authenticate" \in Binding
  BY DEF Sound, Binding
<1>2. /\ c.nth \in Nat \ {0}
      /\ Reaches(c.nth, May(on, "Authenticate", Elements(t)), Goals(Elements(t), D), May(on, "Authenticate", C2))
  <2>1. InReach(May(on, "Authenticate", Elements(q)), Goals(Elements(q), D), May(on, "Authenticate", C))
    BY DEF UserIn, Goals, InReach
  <2> QED BY <1>1, <2>1, Takeover
<1>3. UserBy(c.nth, acc \union {c}, c.user)
  BY <1>2 DEF UserBy
<1> QED BY <1>2, <1>3 DEF UserIn, Goals

LEMMA RepoTaken ==
  ASSUME NEW on, NEW q, NEW C, NEW acc, Sound(on, q, C, acc), NEW t, NEW c,
         NEW D \in SUBSET (Nat \ {0}), FirstIn(c, q, t, D, C),
         c.kind = "SelectRepo", Allowed(on, c), NEW C2 \in SUBSET Cmds, Only(C2, C),
         NEW at, ~Doomed(on, q), RepoIn(on, q, D, C, acc, at), NEW who
  PROVE  RepoIn(on, t, D, C2, acc \union {c}, [user |-> who, repo |-> c.path])
<1>1. C \in SUBSET Cmds /\ Elements(q) \subseteq C /\ "SelectRepo" \in Binding
  BY DEF Sound, Binding
<1>2. /\ c.nth \in Nat \ {0}
      /\ Reaches(c.nth, May(on, "SelectRepo", Elements(t)), Goals(Elements(t), D), May(on, "SelectRepo", C2))
  <2>1. InReach(May(on, "SelectRepo", Elements(q)), Goals(Elements(q), D), May(on, "SelectRepo", C))
    BY DEF RepoIn, Goals, InReach
  <2> QED BY <1>1, <2>1, Takeover
<1>3. [user |-> who, repo |-> c.path] # Nobody
  <2>1. c.path \in Repo
    BY DEF Allowed
  <2>2. c.path # None
    BY <2>1, RepoAssumption
  <2> QED BY <2>2 DEF Nobody
<1>4. RepoBy(c.nth, acc \union {c}, [user |-> who, repo |-> c.path])
  BY <1>2, <1>3 DEF RepoBy
<1> QED BY <1>2, <1>4 DEF RepoIn, Goals

-----------------------------------------------------------------------------
(* What will bind the page.                                                *)

LEMMA BindsAppend ==
  ASSUME NEW S, NEW q \in Seq(S), NEW c \in S, NEW on, NEW refused \in BOOLEAN,
         NEW sel \in BOOLEAN, NEW sel2 \in BOOLEAN, NEW hears \in BOOLEAN,
         NEW signing \in BOOLEAN, NEW signing2 \in BOOLEAN,
         sel2 => sel \/ c.kind = "SelectRepo", c.kind = "Authenticate" => signing2, signing => signing2,
         Binds(on, q, refused, sel, hears, signing)
  PROVE  Binds(on, Append(q, c), refused, sel2, hears, signing2)
<1>1. PICK r : r = Append(q, c)
  OBVIOUS
<1>2. PICK n \in Nat : n = Len(q)
  OBVIOUS
<1>3. /\ DOMAIN r = 1..n + 1 /\ DOMAIN q = 1..n /\ (\A i \in 1..n : r[i] = q[i])
      /\ Elements(r) = Elements(q) \union {c}
  BY <1>1, <1>2, Appended
<1>4. CASE \E d \in Elements(q) : d.kind = "SelectRepo"
  BY <1>1, <1>3, <1>4 DEF Binds
<1>5. ASSUME NEW i \in 1..n, q[i].kind \in {"Prompt", "ListTurns"},
             refused => \E j \in 1..i - 1 : q[j].kind = "Authenticate" /\ Allowed(on, q[j])
      PROVE  Binds(on, r, refused, sel2, hears, signing2)
  <2>1. i \in 1..n + 1 /\ r[i] = q[i] /\ \A j \in 1..i - 1 : r[j] = q[j]
    BY <1>3
  <2> QED BY <2>1, <1>3, <1>5 DEF Binds
<1>6. CASE c.kind = "SelectRepo"
  BY <1>1, <1>3, <1>6 DEF Binds
<1>7. CASE /\ ~(c.kind = "SelectRepo") /\ ~sel
           /\ IF refused THEN (\E d \in Elements(q) : d.kind = "Authenticate" /\ Allowed(on, d)) => signing
              ELSE hears /\ signing
  <2>1. /\ ~sel2
        /\ IF refused THEN (\E d \in Elements(r) : d.kind = "Authenticate" /\ Allowed(on, d)) => signing2
           ELSE hears /\ signing2
    BY <1>3, <1>7
  <2> QED BY <2>1, <1>1 DEF Binds
<1> QED BY <1>1, <1>3, <1>4, <1>5, <1>6, <1>7 DEF Binds

LEMMA BindsSignedIn ==
  ASSUME NEW S, NEW q \in Seq(S), q # <<>>, NEW on, NEW refused \in BOOLEAN,
         NEW sel \in BOOLEAN, NEW hears \in BOOLEAN, NEW signing \in BOOLEAN,
         Head(q).kind = "Authenticate", Allowed(on, Head(q)),
         Binds(on, q, refused, sel, hears, signing)
  PROVE  Binds(on, Tail(q), FALSE, sel, TRUE, signing)
<1>1. PICK t : t = Tail(q)
  OBVIOUS
<1>2. PICK n \in Nat : n = Len(q)
  OBVIOUS
<1>3. /\ n \in Nat \ {0} /\ DOMAIN q = 1..n /\ DOMAIN t = 1..n - 1 /\ Head(q) = q[1]
      /\ \A i \in 1..n - 1 : t[i] = q[i + 1]
      /\ Elements(q) = Elements(t) \union {Head(q)}
  BY <1>1, <1>2, Shortened
<1>4. CASE \E d \in Elements(q) : d.kind = "SelectRepo"
  BY <1>1, <1>3, <1>4 DEF Binds
<1>5. ASSUME NEW i \in 1..n, q[i].kind \in {"Prompt", "ListTurns"}
      PROVE  Binds(on, t, FALSE, sel, TRUE, signing)
  <2>1. i # 1
    BY <1>3, <1>5
  <2>2. i - 1 \in 1..n - 1 /\ (i - 1) + 1 = i
    BY <2>1, <1>3
  <2>3. t[i - 1] = q[i]
    BY <2>2, <1>3
  <2> QED BY <2>2, <2>3, <1>3, <1>5 DEF Binds
<1>6. CASE /\ ~sel
           /\ IF refused THEN (\E d \in Elements(q) : d.kind = "Authenticate" /\ Allowed(on, d)) => signing
              ELSE hears /\ signing
  <2>1. ~sel /\ signing
    BY <1>3, <1>6
  <2> QED BY <2>1, <1>1 DEF Binds
<1> QED BY <1>1, <1>3, <1>4, <1>5, <1>6 DEF Binds

LEMMA BindsPassed ==
  ASSUME NEW S, NEW q \in Seq(S), q # <<>>, NEW on, NEW refused \in BOOLEAN,
         NEW sel \in BOOLEAN, NEW hears \in BOOLEAN, NEW signing \in BOOLEAN,
         Head(q).kind # "SelectRepo", ~(Head(q).kind = "Authenticate" /\ Allowed(on, Head(q))),
         refused \/ Head(q).kind = "Authenticate",
         Binds(on, q, refused, sel, hears, signing)
  PROVE  Binds(on, Tail(q), refused, sel, hears, signing)
<1>1. PICK t : t = Tail(q)
  OBVIOUS
<1>2. PICK n \in Nat : n = Len(q)
  OBVIOUS
<1>3. /\ n \in Nat \ {0} /\ DOMAIN q = 1..n /\ DOMAIN t = 1..n - 1 /\ Head(q) = q[1]
      /\ \A i \in 1..n - 1 : t[i] = q[i + 1]
      /\ Elements(q) = Elements(t) \union {Head(q)}
  BY <1>1, <1>2, Shortened
<1>4. CASE \E d \in Elements(q) : d.kind = "SelectRepo"
  BY <1>1, <1>3, <1>4 DEF Binds
<1>5. ASSUME NEW i \in 1..n, q[i].kind \in {"Prompt", "ListTurns"},
             refused => \E j \in 1..i - 1 : q[j].kind = "Authenticate" /\ Allowed(on, q[j])
      PROVE  Binds(on, t, refused, sel, hears, signing)
  <2>1. i # 1
    BY <1>3, <1>5
  <2>2. i - 1 \in 1..n - 1 /\ (i - 1) + 1 = i
    BY <2>1, <1>3
  <2>3. t[i - 1] = q[i]
    BY <2>2, <1>3
  <2>4. ASSUME refused
        PROVE  \E j \in 1..(i - 1) - 1 : t[j].kind = "Authenticate" /\ Allowed(on, t[j])
    <3>1. PICK j \in 1..i - 1 : q[j].kind = "Authenticate" /\ Allowed(on, q[j])
      BY <2>4, <1>5
    <3>2. j # 1
      BY <3>1, <1>3
    <3>3. j - 1 \in 1..(i - 1) - 1 /\ j - 1 \in 1..n - 1 /\ (j - 1) + 1 = j
      BY <3>2, <2>2
    <3>4. t[j - 1] = q[j]
      BY <3>3, <1>3
    <3> QED BY <3>1, <3>3, <3>4
  <2> QED BY <2>2, <2>3, <2>4, <1>3, <1>5 DEF Binds
<1>6. CASE /\ ~sel
           /\ IF refused THEN (\E d \in Elements(q) : d.kind = "Authenticate" /\ Allowed(on, d)) => signing
              ELSE hears /\ signing
  <2>1. /\ ~sel
        /\ IF refused THEN (\E d \in Elements(t) : d.kind = "Authenticate" /\ Allowed(on, d)) => signing
           ELSE hears /\ signing
    BY <1>3, <1>6
  <2> QED BY <2>1, <1>1 DEF Binds
<1> QED BY <1>1, <1>3, <1>4, <1>5, <1>6 DEF Binds

\* The client hears that it is signed in.
LEMMA BindsHeard ==
  ASSUME NEW S, NEW q \in Seq(S), ListTurns \in S, NEW on,
         NEW sel \in BOOLEAN, NEW hears \in BOOLEAN, NEW hears2 \in BOOLEAN, NEW signing \in BOOLEAN,
         Binds(on, q, FALSE, sel, hears, signing)
  PROVE  IF signing /\ ~sel THEN Binds(on, Append(q, ListTurns), FALSE, sel, hears2, FALSE)
         ELSE Binds(on, q, FALSE, sel, hears2, FALSE)
<1>1. CASE signing /\ ~sel
  <2> DEFINE r == Append(q, ListTurns)
  <2>1. PICK n \in Nat : n = Len(q)
    OBVIOUS
  <2>2. DOMAIN r = 1..n + 1 /\ r[n + 1] = ListTurns
    BY <2>1, Appended
  <2> HIDE DEF r
  <2>3. n + 1 \in DOMAIN r /\ r[n + 1].kind \in {"Prompt", "ListTurns"}
    BY <2>2 DEF ListTurns
  <2>4. Binds(on, r, FALSE, sel, hears2, FALSE)
    BY <2>3 DEF Binds
  <2> QED BY <2>4, <1>1 DEF r
<1>2. CASE ~(signing /\ ~sel)
  BY <1>2 DEF Binds
<1> QED BY <1>1, <1>2

\* The client opens a socket.
LEMMA BindsAnew ==
  ASSUME NEW b \in Seq(Cmds), NEW u \in Seq(Cmds), NEW on \in BOOLEAN,
         \A c \in Elements(u) : c.kind # "Authenticate"
  PROVE  Binds(on, reattach(b) \o u, on, Selects(b), FALSE, FALSE)
<1>1. PICK q : q = reattach(b) \o u
  OBVIOUS
<1>2. CASE Selects(b)
  <2>1. PICK i \in DOMAIN b : b[i].kind = "SelectRepo"
    BY <1>2 DEF Selects
  <2>2. reattach(b) = b \o <<>> /\ <<>> \in Seq(Cmds)
    BY <1>2 DEF reattach, after_sign_in
  <2>3. b[i] \in Elements(reattach(b)) /\ reattach(b) \in Seq(Cmds)
    BY <2>2, Joined2 DEF Elements
  <2>4. b[i] \in Elements(q)
    BY <2>3, <1>1, Joined2
  <2> QED BY <2>1, <2>4, <1>1 DEF Binds
<1>3. CASE ~Selects(b)
  <2>1. PICK n \in Nat : n = Len(b)
    OBVIOUS
  <2>2. ListTurns \in Cmds /\ DOMAIN b = 1..n
    BY <2>1 DEF Cmds
  <2>3. PICK a \in Seq(Cmds) : a = reattach(b) /\ a = Append(b, ListTurns)
    <3>1. reattach(b) = b \o <<ListTurns>>
      BY <1>3 DEF reattach, after_sign_in
    <3>2. reattach(b) = Append(b, ListTurns)
      BY <3>1, <2>2, AppendIsConcat
    <3> QED BY <3>2, <2>2, Appended
  <2>4. /\ DOMAIN a = 1..n + 1 /\ Len(a) = n + 1 /\ Elements(a) = Elements(b) \union {ListTurns}
        /\ (\A i \in 1..n : a[i] = b[i]) /\ a[n + 1] = ListTurns
    BY <2>1, <2>2, <2>3, Appended
  <2>5. PICK m \in Nat : m = Len(u)
    OBVIOUS
  <2>6. /\ DOMAIN q = 1..(n + 1) + m /\ Elements(q) = Elements(a) \union Elements(u)
        /\ \A i \in 1..n + 1 : q[i] = a[i]
    <3>1. q = a \o u
      BY <1>1, <2>3
    <3>2. /\ DOMAIN q = 1..Len(a) + Len(u) /\ Elements(q) = Elements(a) \union Elements(u)
          /\ \A i \in 1..Len(a) + Len(u) : q[i] = IF i <= Len(a) THEN a[i] ELSE u[i - Len(a)]
      BY <3>1, Joined2
    <3>3. PICK k \in Nat : k = Len(a) /\ k = n + 1
      BY <2>4
    <3>4. \A i \in 1..k : i \in 1..k + m /\ i <= k
      BY <2>5
    <3> QED BY <3>2, <3>3, <3>4, <2>5
  <2>7. \A i \in 1..n : i \in 1..n + 1
    OBVIOUS
  <2>8. \A i \in 1..n : q[i] = b[i]
    BY <2>4, <2>6, <2>7
  <2>9. n + 1 \in 1..(n + 1) + m /\ q[n + 1] = ListTurns
    <3>1. n + 1 \in 1..n + 1 /\ n + 1 \in 1..(n + 1) + m
      OBVIOUS
    <3> QED BY <3>1, <2>4, <2>6
  <2>10. n + 1 \in DOMAIN q /\ q[n + 1].kind = "ListTurns" /\ (n + 1) - 1 = n
    BY <2>6, <2>9 DEF ListTurns
  <2>11. CASE on => \E j \in 1..n : b[j].kind = "Authenticate" /\ Allowed(on, b[j])
    <3>1. on => \E j \in 1..(n + 1) - 1 : q[j].kind = "Authenticate" /\ Allowed(on, q[j])
      BY <2>8, <2>10, <2>11
    <3> QED BY <3>1, <2>10, <1>1 DEF Binds
  <2>12. CASE on /\ ~\E j \in 1..n : b[j].kind = "Authenticate" /\ Allowed(on, b[j])
    <3>1. ~\E c \in Elements(b) : c.kind = "Authenticate" /\ Allowed(on, c)
      BY <2>2, <2>12 DEF Elements
    <3>2. ListTurns.kind # "Authenticate"
      BY DEF ListTurns
    <3>3. ~\E c \in Elements(q) : c.kind = "Authenticate" /\ Allowed(on, c)
      BY <3>1, <3>2, <2>4, <2>6
    <3> QED BY <3>3, <1>1, <1>3, <2>12 DEF Binds
  <2> QED BY <2>11, <2>12
<1> QED BY <1>2, <1>3

-----------------------------------------------------------------------------
(* The commands of some kinds.                                             *)

\* f is what is gathered of the first of q.
Keeping(S, f, q, kinds) ==
  /\ f \in [0..Len(q) -> Seq(S)] /\ f[0] = <<>> /\ Among(q, kinds) = f[Len(q)]
  /\ \A k \in 1..Len(q) :
       f[k] = IF q[k].kind \in kinds THEN Append(f[k - 1], q[k]) ELSE f[k - 1]

\* Among's equation.
LEMMA AmongBy ==
  ASSUME NEW S, NEW q \in Seq(S), NEW kinds
  PROVE  \E f : Keeping(S, f, q, kinds)
<1> DEFINE n == Len(q)
           Q == Seq(S)
           Rhs(f, i) == IF i = 0 THEN <<>>
                        ELSE IF q[i].kind \in kinds THEN Append(f[i - 1], q[i])
                        ELSE f[i - 1]
           gathered == CHOOSE f : f = [i \in 0..n |-> Rhs(f, i)]
           G == [k \in 1..n |-> [x \in Q |-> IF q[k].kind \in kinds THEN Append(x, q[k]) ELSE x]]
<1>1. Among(q, kinds) = gathered[n]
  BY DEF Among
<1>2. n \in Nat /\ \A k \in 1..n : q[k] \in S
  OBVIOUS
<1> HIDE DEF n
<1>3. ASSUME NEW k \in 1..n, NEW x \in Q
      PROVE  /\ G[k][x] = IF q[k].kind \in kinds THEN Append(x, q[k]) ELSE x
             /\ G[k][x] \in Q
  <2>1. Append(x, q[k]) \in Q
    BY <1>2
  <2> QED BY <2>1
<1>4. <<>> \in Q
  OBVIOUS
<1> HIDE DEF G, Q
<1>5. PICK f \in [0..n -> Q] : f[0] = <<>> /\ \A k \in 1..n : f[k] = G[k][f[k - 1]]
  <2>1. PICK first \in Q : first = <<>>
    BY <1>4
  <2>2. StaysIn(Q, 1..n, G)
    BY <1>3 DEF StaysIn
  <2>3. \E f \in [0..n -> Q] : FollowsOn(f, first, n, G)
    BY <1>2, <2>1, <2>2, Forward
  <2> QED BY <2>1, <2>3 DEF FollowsOn
<1>6. ASSUME NEW k \in 1..n
      PROVE  k - 1 \in 0..n /\ f[k] = IF q[k].kind \in kinds THEN Append(f[k - 1], q[k]) ELSE f[k - 1]
  <2>1. k - 1 \in 0..n
    BY <1>2
  <2>2. f[k - 1] \in Q
    BY <2>1, <1>5
  <2> QED BY <2>1, <2>2, <1>3, <1>5
<1>7. f = [i \in 0..n |-> Rhs(f, i)]
  <2>1. ASSUME NEW i \in 0..n
        PROVE  f[i] = Rhs(f, i)
    <3>1. CASE i = 0
      BY <3>1, <1>5
    <3>2. CASE i # 0
      <4>1. i \in 1..n
        BY <3>2, <1>2
      <4> QED BY <4>1, <3>2, <1>6
    <3> QED BY <3>1, <3>2
  <2> QED BY <2>1
<1> HIDE DEF gathered
<1>8. gathered = [i \in 0..n |-> Rhs(gathered, i)]
  BY <1>7 DEF gathered
<1>9. gathered[0] = <<>> /\ \A k \in 1..n : gathered[k] = IF q[k].kind \in kinds THEN Append(gathered[k - 1], q[k]) ELSE gathered[k - 1]
  <2>1. \A k \in 0..n : gathered[k] = Rhs(gathered, k)
    BY <1>8
  <2>2. 0 \in 0..n /\ \A k \in 1..n : k \in 0..n /\ k # 0
    BY <1>2
  <2>3. gathered[0] = Rhs(gathered, 0)
    BY <2>1, <2>2
  <2>4. ASSUME NEW k \in 1..n
        PROVE  gathered[k] = IF q[k].kind \in kinds THEN Append(gathered[k - 1], q[k]) ELSE gathered[k - 1]
    <3>1. gathered[k] = Rhs(gathered, k) /\ k # 0
      BY <2>1, <2>2
    <3> QED BY <3>1
  <2> QED BY <2>3, <2>4
<1>10. \A k \in Nat : k \in 0..n => gathered[k] = f[k]
  <2> DEFINE T == {k \in Nat : k \in 0..n => gathered[k] = f[k]}
  <2>1. 0 \in T
    BY <1>5, <1>9
  <2>2. ASSUME NEW k \in T
        PROVE  k + 1 \in T
    <3>1. k \in Nat /\ k + 1 \in Nat
      OBVIOUS
    <3>2. CASE k + 1 \in 0..n
      <4>1. k + 1 \in 1..n /\ k \in 0..n /\ (k + 1) - 1 = k
        BY <3>1, <3>2, <1>2
      <4>2. gathered[k] = f[k]
        BY <4>1
      <4> QED BY <3>1, <4>1, <4>2, <1>6, <1>9
    <3> QED BY <3>1, <3>2
  <2>3. Nat \subseteq T
    <3> HIDE DEF T
    <3> QED BY <2>1, <2>2, NatAll
  <2> QED BY <2>3
<1>11. gathered[n] = f[n]
  BY <1>2, <1>10
<1>12. f \in [0..Len(q) -> Seq(S)] /\ f[0] = <<>>
  BY <1>5 DEF n, Q
<1>13. Among(q, kinds) = f[Len(q)]
  BY <1>1, <1>11 DEF n
<1>14. \A k \in 1..Len(q) : f[k] = IF q[k].kind \in kinds THEN Append(f[k - 1], q[k]) ELSE f[k - 1]
  BY <1>6 DEF n
<1> QED BY <1>12, <1>13, <1>14 DEF Keeping

LEMMA AmongIs ==
  ASSUME NEW S, \A x \in S : x.nth \in Nat, NEW q \in Seq(S), NEW kinds
  PROVE  /\ Among(q, kinds) \in Seq(S)
         /\ Elements(Among(q, kinds)) = {c \in Elements(q) : c.kind \in kinds}
         /\ InOrder(q) => InOrder(Among(q, kinds))
<1>1. PICK n \in Nat : n = Len(q) /\ DOMAIN q = 1..n /\ \A k \in 1..n : q[k] \in S
  OBVIOUS
<1>2. PICK f \in [0..n -> Seq(S)] :
        /\ f[0] = <<>> /\ Among(q, kinds) = f[n]
        /\ \A k \in 1..n : f[k] = IF q[k].kind \in kinds THEN Append(f[k - 1], q[k]) ELSE f[k - 1]
  <2>1. PICK f : Keeping(S, f, q, kinds)
    BY AmongBy
  <2> QED BY <1>1, <2>1 DEF Keeping
<1> DEFINE Firsts(k) == {q[i] : i \in {i \in 1..k : q[i].kind \in kinds}}
           T == {k \in Nat : k \in 0..n =>
                   Elements(f[k]) = Firsts(k) /\ (InOrder(q) => InOrder(f[k]))}
<1>3. 0 \in T
  <2>1. Firsts(0) = {}
    OBVIOUS
  <2>2. Elements(<<>>) = {} /\ InOrder(<<>>)
    BY DEF Elements, InOrder
  <2>3. Elements(f[0]) = Firsts(0) /\ InOrder(f[0])
    BY <2>1, <2>2, <1>2
  <2> QED BY <2>3
<1>4. ASSUME NEW k \in T
      PROVE  k + 1 \in T
  <2>1. k \in Nat /\ k + 1 \in Nat
    OBVIOUS
  <2> SUFFICES ASSUME k + 1 \in 0..n
               PROVE  Elements(f[k + 1]) = Firsts(k + 1) /\ (InOrder(q) => InOrder(f[k + 1]))
    BY <2>1
  <2>2. k + 1 \in 1..n /\ k \in 0..n /\ (k + 1) - 1 = k
    BY <2>1
  <2>3. Elements(f[k]) = Firsts(k) /\ (InOrder(q) => InOrder(f[k])) /\ f[k] \in Seq(S)
    BY <2>2
  <2>4. PICK x \in S : x = q[k + 1]
    BY <2>2, <1>1
  <2>5. f[k + 1] = IF x.kind \in kinds THEN Append(f[k], x) ELSE f[k]
    BY <2>2, <2>4, <1>2
  <2>6. \A i \in 1..k + 1 : i \in 1..k \/ i = k + 1
    BY <2>1
  <2>7. CASE x.kind \in kinds
    <3>1. Firsts(k + 1) = Firsts(k) \union {x}
      <4>1. Firsts(k + 1) \subseteq Firsts(k) \union {x}
        BY <2>4, <2>6
      <4>2. Firsts(k) \subseteq Firsts(k + 1)
        BY <2>1
      <4>3. x \in Firsts(k + 1)
        <5>1. k + 1 \in {i \in 1..k + 1 : q[i].kind \in kinds}
          BY <2>1, <2>4, <2>7
        <5> QED BY <5>1, <2>4
      <4> QED BY <4>1, <4>2, <4>3
    <3>2. Elements(Append(f[k], x)) = Elements(f[k]) \union {x}
      BY <2>3, Appended
    <3>3. ASSUME InOrder(q) PROVE InOrder(Append(f[k], x))
      <4>1. Follow(Elements(f[k]), {x})
        <5> SUFFICES ASSUME NEW i \in 1..k, x.nth # 0, q[i].kind \in kinds
                     PROVE  q[i].nth < x.nth
          BY <2>3 DEF Follow
        <5>1. i \in 1..n /\ i < k + 1 /\ q[i].nth \in Nat /\ x.nth \in Nat
          BY <2>1, <2>2, <1>1
        <5>2. q[i].nth # 0 => q[i].nth < x.nth
          BY <5>1, <2>2, <2>4, <3>3, <1>1 DEF InOrder
        <5> QED BY <5>1, <5>2
      <4> QED BY <4>1, <3>3, <2>3, AppendInOrder
    <3> HIDE DEF Firsts
    <3> QED BY <3>1, <3>2, <3>3, <2>3, <2>5, <2>7
  <2>8. CASE x.kind \notin kinds
    <3>1. Firsts(k + 1) = Firsts(k)
      <4>1. \A i \in 1..k + 1 : q[i].kind \in kinds => i \in 1..k
        BY <2>4, <2>6, <2>8
      <4>2. \A i \in 1..k : i \in 1..k + 1
        BY <2>1
      <4> QED BY <4>1, <4>2
    <3> HIDE DEF Firsts
    <3> QED BY <3>1, <2>3, <2>5, <2>8
  <2> QED BY <2>7, <2>8
<1>5. n \in T
  <2> HIDE DEF T
  <2> QED BY <1>3, <1>4, <1>1, NatAll
<1>6. Elements(f[n]) = Firsts(n) /\ (InOrder(q) => InOrder(f[n])) /\ f[n] \in Seq(S)
  BY <1>5, <1>1, <1>2
<1>7. Firsts(n) = {c \in Elements(q) : c.kind \in kinds}
  BY <1>1 DEF Elements
<1> QED BY <1>2, <1>6, <1>7

LEMMA SelectsIn ==
  ASSUME NEW q
  PROVE  Selects(q) <=> \E c \in Elements(q) : c.kind = "SelectRepo"
BY DEF Selects, Elements

LEMMA BoundIs ==
  ASSUME NEW b \in Seq(Sels \union Auths), NEW c \in Cmds
  PROVE  /\ Bound(b, c) \in Seq(Sels \union Auths)
         /\ ~is_binding(c) => Bound(b, c) = b
         /\ is_binding(c) => Elements(Bound(b, c)) = {e \in Elements(b) : e.kind # c.kind} \union {c}
         /\ InOrder(b) /\ Follow(Elements(b), {c}) => InOrder(Bound(b, c))
         /\ Selects(Bound(b, c)) => Selects(b) \/ c.kind = "SelectRepo"
<1>1. CASE ~is_binding(c)
  BY <1>1 DEF Bound
<1>2. CASE is_binding(c)
  <2>1. PICK S : S = Sels \union Auths
    OBVIOUS
  <2>2. /\ S \subseteq Cmds /\ (\A x \in S : x.nth \in Nat) /\ c \in S /\ b \in Seq(S)
        /\ \A x \in S : x.kind \in Kinds
    BY <1>2, <2>1, CmdFields DEF is_binding, Binding, Cmds
  <2>3. PICK a : a = Among(b, Kinds \ {c.kind})
    OBVIOUS
  <2>4. /\ a \in Seq(S) /\ Elements(a) = {e \in Elements(b) : e.kind \in Kinds \ {c.kind}}
        /\ InOrder(b) => InOrder(a)
    BY <2>2, <2>3, AmongIs
  <2>5. Elements(b) \subseteq S
    BY <2>2, ElementsIn
  <2>6. Elements(a) = {e \in Elements(b) : e.kind # c.kind}
    BY <2>2, <2>4, <2>5
  <2>7. Bound(b, c) = Append(a, c)
    BY <1>2, <2>3 DEF Bound
  <2>8. Append(a, c) \in Seq(S) /\ Elements(Append(a, c)) = Elements(a) \union {c}
    BY <2>2, <2>4, Appended
  <2>9. InOrder(b) /\ Follow(Elements(b), {c}) => InOrder(Append(a, c))
    <3>1. Follow(Elements(b), {c}) => Follow(Elements(a), {c})
      BY <2>6 DEF Follow
    <3> QED BY <3>1, <2>2, <2>4, AppendInOrder
  <2>10. Selects(Append(a, c)) => Selects(b) \/ c.kind = "SelectRepo"
    BY <2>6, <2>8, SelectsIn
  <2> QED BY <1>2, <2>1, <2>6, <2>7, <2>8, <2>9, <2>10
<1> QED BY <1>1, <1>2

-----------------------------------------------------------------------------
(* The client's steps.                                                     *)

\* What is in line is out, and comes before what is coming.
LEMMA LinesSound ==
  ASSUME WebInv
  PROVE  /\ Out \in SUBSET Cmds /\ accepted \subseteq Out
         /\ \A s \in Sockets :
              /\ Line(s) \in Seq(Cmds) /\ Sound(authOn, Line(s), Out, accepted)
              /\ Elements(Line(s)) \subseteq Out /\ Elements(up[s]) \subseteq Out
              /\ Coming(s) \in SUBSET (Nat \ {0}) /\ \A n \in Coming(s), e \in Out : e.nth < n
         /\ Until(Out, doings) /\ doings \in Nat
<1> USE DEF WebInv
<1>1. Sels \union Auths \subseteq Cmds
  BY DEF Cmds
<1>2. Elements(resend) \subseteq Cmds /\ Elements(binding) \subseteq Cmds
  BY <1>1, ElementsIn DEF WebTypeOK
<1>3. \A s \in Sockets : up[s] \in Seq(Cmds) /\ Elements(up[s]) \subseteq Cmds
  BY ElementsIn DEF WebTypeOK
<1>4. Out \in SUBSET Cmds /\ accepted \subseteq Out
  BY <1>1, <1>2, <1>3 DEF Out, WebTypeOK
<1>5. Until(Out, doings) /\ doings \in Nat
  BY DEF ClientInOrder, Until, WebTypeOK
<1>6. ASSUME NEW s \in Sockets
      PROVE  /\ Line(s) \in Seq(Cmds) /\ Sound(authOn, Line(s), Out, accepted)
             /\ Elements(Line(s)) \subseteq Out /\ Elements(up[s]) \subseteq Out
             /\ Coming(s) \in SUBSET (Nat \ {0}) /\ \A n \in Coming(s), e \in Out : e.nth < n
  <2>1. Elements(up[s]) \subseteq Out /\ Elements(resend) \subseteq Out
    BY DEF Out
  <2>2. Line(s) \in Seq(Cmds) /\ Elements(Line(s)) \subseteq Out
    <3>1. CASE Live(s)
      <4>1. resend \in Seq(Cmds) /\ up[s] \in Seq(Cmds)
        BY <1>3 DEF WebTypeOK
      <4>2. up[s] \o resend \in Seq(Cmds) /\ Elements(up[s] \o resend) = Elements(up[s]) \union Elements(resend)
        BY <4>1, Joined2
      <4> QED BY <4>2, <3>1, <2>1 DEF Line
    <3>2. CASE ~Live(s)
      BY <3>2, <2>1, <1>3 DEF Line
    <3> QED BY <3>1, <3>2
  <2>3. Sound(authOn, Line(s), Out, accepted)
    BY <2>2, <1>4 DEF Sound, AcceptedAllowed
  <2>4. \A e \in Out : e.nth \in Nat /\ e.nth <= doings
    BY <1>4, <1>5, CmdFields DEF Until
  <2>5. Coming(s) \in SUBSET (Nat \ {0}) /\ \A n \in Coming(s), e \in Out : e.nth < n
    <3>1. Coming(s) \subseteq {doings + 1}
      BY DEF Coming
    <3>2. doings + 1 \in Nat \ {0} /\ \A e \in Out : e.nth < doings + 1
      BY <2>4, <1>5
    <3> QED BY <3>1, <3>2
  <2> QED BY <2>1, <2>2, <2>3, <2>5
<1> QED BY <1>4, <1>5, <1>6

\* Nothing is accepted, and nobody is placed anew.
LEMMA DaemonRests ==
  ASSUME WebInv, UNCHANGED daemonVars
  PROVE  AcceptedAllowed' /\ Sessions' /\ PlacedUnlessRefused'
<1>1. /\ authOn' = authOn /\ user' = user /\ session' = session /\ accepted' = accepted
      /\ unplaced' = unplaced /\ ran' = ran
  BY DEF daemonVars
<1>2. AcceptedAllowed'
  BY <1>1 DEF WebInv, AcceptedAllowed
<1>3. Sessions'
  BY <1>1 DEF WebInv, Sessions, Refused
<1>4. PlacedUnlessRefused'
  BY <1>1 DEF WebInv, PlacedUnlessRefused
<1> QED BY <1>2, <1>3, <1>4

LEMMA DoStep ==
  ASSUME WebInv, NEW cmds \in Seq(Cmds), InOrder(cmds), \A c \in Elements(cmds) : c.nth \in {0, doings + 1},
         Do(cmds)
  PROVE  WebInv'
<1>1. /\ doings' = doings + 1 /\ typed' = typed \o cmds /\ UNCHANGED daemonVars
      /\ UNCHANGED <<binding, unsent, resend, signingIn, link, socket, up, down>>
  BY DEF Do
<1>2. /\ authOn' = authOn /\ user' = user /\ session' = session /\ accepted' = accepted
      /\ unplaced' = unplaced /\ ran' = ran
  BY <1>1 DEF daemonVars
<1>3. Out' = Out /\ \A s \in Sockets : Line(s)' = Line(s) /\ Live(s)' = Live(s)
  BY <1>1, <1>2 DEF Out, Line, Live
<1>4. typed \in Seq(Cmds) /\ doings \in Nat
  BY DEF WebInv, WebTypeOK
<1>5. typed' \in Seq(Cmds) /\ Elements(typed') = Elements(typed) \union Elements(cmds)
  BY <1>1, <1>4, Joined2
<1>6. WebTypeOK'
  BY <1>1, <1>2, <1>4, <1>5 DEF WebInv, WebTypeOK
<1>7. Unopened' /\ OneOfEach' /\ BindingIsLatest'
  BY <1>1, <1>2, <1>3 DEF WebInv, Unopened, OneOfEach, BindingIsLatest
<1>8. ClientInOrder'
  <2>1. Until(Elements(typed) \union Out \union Elements(unsent), doings)
    BY DEF WebInv, ClientInOrder
  <2>2. Elements(typed) \subseteq Cmds /\ Out \subseteq Cmds /\ Elements(unsent) \subseteq Cmds
    <3>1. Prompts \union {ListTurns} \subseteq Cmds
      BY DEF Cmds
    <3>2. unsent \in Seq(Prompts \union {ListTurns})
      BY DEF WebInv, WebTypeOK
    <3> QED BY <3>1, <3>2, <1>4, ElementsIn, LinesSound
  <2>3. \A c \in Elements(typed) \union Out \union Elements(unsent) : c.nth \in Nat /\ c.nth <= doings
    BY <2>1, <2>2, CmdFields DEF Until
  <2>4. Follow(Elements(typed) \union Out \union Elements(unsent), Elements(cmds))
    BY <2>3, <1>4 DEF Follow
  <2>5. Until(Elements(typed') \union Out \union Elements(unsent), doings + 1)
    BY <2>3, <1>4, <1>5 DEF Until
  <2>6. InOrder(typed')
    <3>1. Follow(Elements(typed), Elements(cmds)) /\ InOrder(typed)
      BY <2>4 DEF Follow, WebInv, ClientInOrder
    <3> QED BY <3>1, <1>1, <1>4, JoinedInOrder
  <2>7. Follow(Out \union Elements(unsent), Elements(typed'))
    BY <2>4, <1>5 DEF Follow, WebInv, ClientInOrder
  <2> QED BY <2>5, <2>6, <2>7, <1>1, <1>3 DEF WebInv, ClientInOrder
<1>9. InPlace'
  <2> SUFFICES ASSUME NEW s \in Sockets
               PROVE  PlacedIn(authOn, Line(s), Coming(s)', Out, accepted, session[s], user[s], s \in unplaced)
    BY <1>2, <1>3 DEF InPlace
  <2>1. PlacedIn(authOn, Line(s), Coming(s), Out, accepted, session[s], user[s], s \in unplaced)
    BY DEF WebInv, InPlace
  <2>2. CASE Live(s)
    <3>1. Coming(s) = {doings + 1} /\ Coming(s)' = {doings + 2}
      <4>1. (doings + 1) + 1 = doings + 2
        BY <1>4
      <4> QED BY <4>1, <2>2, <1>1, <1>3 DEF Coming
    <3>2. PlacedIn(authOn, Line(s), {doings + 1}, Out, accepted, session[s], user[s], s \in unplaced)
      BY <2>1, <3>1
    <3>3. PlacedIn(authOn, Line(s), {doings + 2}, Out, accepted, session[s], user[s], s \in unplaced)
      BY <3>2, LinesSound, PlacedAwaiting
    <3> QED BY <3>1, <3>3
  <2>3. CASE ~Live(s)
    BY <2>1, <2>3, <1>3 DEF Coming
  <2> QED BY <2>2, <2>3
<1>10. PageWillBe'
  <2>1. link = "up" => socket \in Sockets
    BY DEF WebInv, WebTypeOK
  <2> QED BY <2>1, <1>1, <1>2, <1>3 DEF WebInv, PageWillBe, Refused
<1> QED BY <1>1, <1>6, <1>7, <1>8, <1>9, <1>10, DaemonRests DEF WebInv

\* A socket that is opened is placed by the binding.
LEMMA PlacedAnew ==
  ASSUME NEW on \in BOOLEAN, NEW b \in Seq(Sels \union Auths), NEW u \in Seq(Prompts \union {ListTurns}),
         NEW d \in Nat, NEW C \in SUBSET Cmds, Until(C, d), Elements(b) \subseteq C, Elements(u) \subseteq C,
         InOrder(b), Follow(Elements(b), Elements(u)), IsLatest(Elements(b), C), NEW acc
  PROVE  PlacedIn(on, reattach(b) \o u, {d + 1}, C, acc, Nobody, None, FALSE)
<1>1. PICK q : q = reattach(b) \o u
  OBVIOUS
<1>2. PICK l \in Seq(Cmds) : l = after_sign_in(b) /\ Elements(l) \subseteq {ListTurns}
  <2>1. CASE Selects(b)
    <3>1. <<>> \in Seq(Cmds) /\ Elements(<<>>) = {}
      BY DEF Elements
    <3> QED BY <3>1, <2>1 DEF after_sign_in
  <2>2. CASE ~Selects(b)
    <3>1. ListTurns \in Cmds
      BY DEF Cmds
    <3>2. <<ListTurns>> \in Seq(Cmds) /\ Elements(<<ListTurns>>) \subseteq {ListTurns}
      BY <3>1 DEF Elements
    <3> QED BY <3>2, <2>2 DEF after_sign_in
  <2> QED BY <2>1, <2>2
<1>3. b \in Seq(Cmds) /\ u \in Seq(Cmds)
  <2>1. Sels \union Auths \subseteq Cmds /\ Prompts \union {ListTurns} \subseteq Cmds
    BY DEF Cmds
  <2> QED BY <2>1
<1>4. /\ Elements(q) = Elements(b) \union Elements(l) \union Elements(u)
      /\ \A i \in DOMAIN b : i \in DOMAIN q /\ q[i] = b[i]
  <2>1. PICK a \in Seq(Cmds) : a = b \o l
    BY <1>2, <1>3, Joined2
  <2>2. q = a \o u
    BY <1>1, <1>2, <2>1 DEF reattach
  <2>3. PICK k \in Nat, m \in Nat, n \in Nat : k = Len(b) /\ m = Len(l) /\ n = Len(u) /\ DOMAIN b = 1..k
    BY <1>2, <1>3
  <2>4. Len(a) = k + m /\ Elements(a) = Elements(b) \union Elements(l) /\ \A i \in 1..k : a[i] = b[i]
    <3>1. /\ Len(a) = Len(b) + Len(l) /\ Elements(a) = Elements(b) \union Elements(l)
          /\ \A i \in 1..Len(b) + Len(l) : a[i] = IF i <= Len(b) THEN b[i] ELSE l[i - Len(b)]
      BY <1>2, <1>3, <2>1, Joined2
    <3>2. \A i \in 1..k : i \in 1..k + m /\ i <= k
      OBVIOUS
    <3> QED BY <3>1, <3>2, <2>3
  <2>5. /\ Elements(q) = Elements(a) \union Elements(u) /\ DOMAIN q = 1..(k + m) + n
        /\ \A i \in 1..(k + m) + n : i <= k + m => q[i] = a[i]
    <3>1. /\ Elements(q) = Elements(a) \union Elements(u) /\ DOMAIN q = 1..Len(a) + Len(u)
          /\ \A i \in 1..Len(a) + Len(u) : q[i] = IF i <= Len(a) THEN a[i] ELSE u[i - Len(a)]
      <4>1. a \in Seq(Cmds) /\ u \in Seq(Cmds)
        BY <1>3
      <4>2. PICK r : r = a \o u
        OBVIOUS
      <4>3. /\ Elements(r) = Elements(a) \union Elements(u) /\ DOMAIN r = 1..Len(a) + Len(u)
            /\ \A i \in 1..Len(a) + Len(u) : r[i] = IF i <= Len(a) THEN a[i] ELSE u[i - Len(a)]
        BY <4>1, <4>2, Joined2
      <4> QED BY <4>2, <4>3, <2>2
    <3> QED BY <3>1, <2>3, <2>4
  <2>6. \A i \in 1..k : i \in 1..(k + m) + n /\ i <= k + m
    OBVIOUS
  <2> QED BY <2>3, <2>4, <2>5, <2>6
<1>5. Elements(b) \subseteq Sels \union Auths /\ Elements(u) \subseteq Prompts \union {ListTurns}
  BY ElementsIn
<1>6. \A c \in Elements(l) \union Elements(u) : ~is_binding(c)
  BY <1>2, <1>5 DEF is_binding, Binding, Prompts, ListTurns
<1>7. ASSUME NEW c \in Elements(q), is_binding(c)
      PROVE  c \in Elements(b)
  BY <1>4, <1>6, <1>7
<1>8. PICK D : D = {d + 1}
  OBVIOUS
<1>9. \A e \in Elements(b), n \in Goals(Elements(q), D) : e.nth < n
  <2>1. \A e \in Elements(b) : e \in Cmds /\ e.nth \in Nat /\ e.nth <= d /\ e.kind # "Prompt"
    <3>1. \A e \in Elements(b) : e.kind # "Prompt"
      BY <1>5 DEF Sels, Auths
    <3> QED BY <3>1, CmdFields DEF Until
  <2>2. ASSUME NEW e \in Elements(b), NEW c \in Elements(q), c.kind = "Prompt"
        PROVE  e.nth < c.nth
    <3>1. c \in Elements(u)
      BY <2>1, <2>2, <1>2, <1>4 DEF ListTurns
    <3>2. c.nth # 0
      BY <3>1, <2>2, CmdFields
    <3> QED BY <3>1, <3>2 DEF Follow
  <2> QED BY <2>1, <2>2, <1>8 DEF Goals, Asked
<1>10. ASSUME NEW kind \in Binding, \A e \in Elements(b) : e.kind = kind => Allowed(on, e)
       PROVE  Reaches(0, May(on, kind, Elements(q)), Goals(Elements(q), D), May(on, kind, C))
  <2>1. May(on, kind, Elements(q)) \in SUBSET (Nat \ {0})
    <3>1. Elements(q) \subseteq Cmds
      BY <1>3, <1>2, <1>4, ElementsIn
    <3> QED BY <3>1, MayIn
  <2>2. Goals(Elements(q), D) \in SUBSET (Nat \ {0})
    <3>1. Elements(q) \subseteq Cmds
      BY <1>3, <1>2, <1>4, ElementsIn
    <3>2. d + 1 \in Nat \ {0}
      OBVIOUS
    <3> QED BY <3>1, <3>2, <1>8, AskedIn DEF Goals
  <2>3. ASSUME NEW m \in May(on, kind, C)
        PROVE  Ahead(m, May(on, kind, Elements(q)), Goals(Elements(q), D))
    <3>1. PICK c \in C : c.kind = kind /\ m = c.nth
      BY DEF May
    <3>2. PICK e \in Elements(b) : e.kind = kind /\ m <= e.nth
      BY <3>1 DEF IsLatest, is_binding
    <3>3. e.nth \in May(on, kind, Elements(q))
      BY <3>2, <1>4, <1>10 DEF May
    <3> QED BY <3>2, <3>3, <1>9 DEF Ahead
  <2> QED BY <2>1, <2>2, <2>3 DEF Reaches
<1>11. ASSUME NEW kind \in Binding, NEW e \in Elements(b), e.kind = kind, ~Allowed(on, e)
       PROVE  May(on, kind, Elements(q)) = {}
  <2>1. ASSUME NEW c \in Elements(q), c.kind = kind, Allowed(on, c)
        PROVE  FALSE
    <3>1. c \in Elements(b)
      BY <2>1, <1>7 DEF is_binding
    <3> QED BY <3>1, <2>1, <1>11 DEF IsLatest
  <2> QED BY <2>1 DEF May
<1>12. UserIn(on, q, D, C, acc, None)
  <2>1. "Authenticate" \in Binding /\ 0 \in Nat /\ UserBy(0, acc, None)
    BY DEF Binding, UserBy
  <2>2. CASE \A e \in Elements(b) : e.kind = "Authenticate" => Allowed(on, e)
    BY <2>1, <2>2, <1>10 DEF UserIn, Goals
  <2>3. ASSUME NEW e \in Elements(b), e.kind = "Authenticate", ~Allowed(on, e)
        PROVE  UserIn(on, q, D, C, acc, None)
    <3>1. on
      BY <2>3 DEF Allowed
    <3>2. May(on, "Authenticate", Elements(q)) = {}
      BY <2>1, <2>3, <1>11
    <3>3. Barred({}, Goals(Elements(q), D), May(on, "Authenticate", C))
      BY DEF Barred
    <3> QED BY <3>1, <3>2, <3>3 DEF UserIn, Goals
  <2> QED BY <2>2, <2>3
<1>13. RepoIn(on, q, D, C, acc, Nobody)
  <2>1. "SelectRepo" \in Binding /\ 0 \in Nat /\ RepoBy(0, acc, Nobody)
    BY DEF Binding, RepoBy
  <2>2. CASE \A e \in Elements(b) : e.kind = "SelectRepo" => Allowed(on, e)
    BY <2>1, <2>2, <1>10 DEF RepoIn, Goals
  <2>3. ASSUME NEW e \in Elements(b), e.kind = "SelectRepo", ~Allowed(on, e)
        PROVE  Doomed(on, q)
    <3>1. PICK k \in Nat : DOMAIN b = 1..k
      OBVIOUS
    <3>2. PICK i \in 1..k : e = b[i]
      BY <3>1 DEF Elements
    <3>3. ASSUME NEW j \in 1..i - 1
          PROVE  q[j].kind = "Authenticate"
      <4>1. j \in 1..k /\ j < i
        BY <3>2
      <4>2. b[j] \in Elements(b) /\ b[i] \in Elements(b)
        BY <3>1, <3>2, <4>1 DEF Elements
      <4>3. b[j].nth \in Nat \ {0} /\ b[i].nth \in Nat \ {0}
        BY <4>2, <1>5 DEF Sels, Auths
      <4>4. b[j].nth < b[i].nth
        BY <3>1, <3>2, <4>1, <4>3 DEF InOrder
      <4>5. b[j] # b[i]
        BY <4>3, <4>4
      <4>6. b[j].kind # "SelectRepo"
        BY <4>2, <4>5, <3>2, <2>3 DEF IsLatest
      <4>7. b[j].kind = "Authenticate"
        BY <4>2, <4>6, <1>5 DEF Sels, Auths
      <4> QED BY <4>1, <4>7, <3>1, <1>4
    <3>4. i \in DOMAIN q /\ q[i] = e
      BY <3>1, <3>2, <1>4
    <3> QED BY <3>3, <3>4, <2>3 DEF Doomed
  <2> QED BY <2>2, <2>3 DEF RepoIn
<1> QED BY <1>1, <1>8, <1>12, <1>13 DEF PlacedIn

LEMMA OpenStep ==
  ASSUME WebInv, Open
  PROVE  WebInv'
<1>1. /\ link = "down" /\ socket < MaxSockets /\ socket' = socket + 1 /\ link' = "up"
      /\ resend' = reattach(binding) \o unsent /\ unsent' = <<>> /\ signingIn' = FALSE
      /\ typed' = typed /\ doings' = doings /\ binding' = binding /\ up' = up /\ down' = down
      /\ UNCHANGED daemonVars
  BY DEF Open
<1>2. /\ authOn' = authOn /\ user' = user /\ session' = session /\ accepted' = accepted
      /\ unplaced' = unplaced /\ ran' = ran
  BY <1>1 DEF daemonVars
<1>3. /\ binding \in Seq(Sels \union Auths) /\ unsent \in Seq(Prompts \union {ListTurns})
      /\ binding \in Seq(Cmds) /\ unsent \in Seq(Cmds)
  <2>1. Sels \union Auths \subseteq Cmds /\ Prompts \union {ListTurns} \subseteq Cmds
    BY DEF Cmds
  <2>2. binding \in Seq(Sels \union Auths) /\ unsent \in Seq(Prompts \union {ListTurns})
    BY DEF WebInv, WebTypeOK
  <2> QED BY <2>1, <2>2
<1>4. PICK l \in Seq(Cmds) : l = after_sign_in(binding) /\ Elements(l) \subseteq {ListTurns} /\ InOrder(l)
  <2>1. CASE Selects(binding)
    <3>1. <<>> \in Seq(Cmds) /\ Elements(<<>>) = {} /\ InOrder(<<>>)
      BY DEF Elements, InOrder
    <3> QED BY <3>1, <2>1 DEF after_sign_in
  <2>2. CASE ~Selects(binding)
    <3>1. ListTurns \in Cmds /\ ListTurns.nth = 0
      BY DEF Cmds, ListTurns
    <3>2. <<ListTurns>> \in Seq(Cmds) /\ Elements(<<ListTurns>>) \subseteq {ListTurns} /\ InOrder(<<ListTurns>>)
      BY <3>1 DEF Elements, InOrder
    <3> QED BY <3>2, <2>2 DEF after_sign_in
  <2> QED BY <2>1, <2>2
<1>5. PICK a : /\ a = reattach(binding) /\ a \in Seq(Cmds) /\ Elements(a) = Elements(binding) \union Elements(l)
               /\ InOrder(a)
  <2>1. Follow(Elements(binding), Elements(l)) /\ InOrder(binding)
    BY <1>4 DEF Follow, ListTurns, WebInv, ClientInOrder
  <2>2. binding \o l \in Seq(Cmds) /\ Elements(binding \o l) = Elements(binding) \union Elements(l)
    BY <1>3, Joined2
  <2>3. InOrder(binding \o l)
    BY <2>1, <1>3, <1>4, JoinedInOrder
  <2>4. reattach(binding) = binding \o l
    BY <1>4 DEF reattach
  <2> QED BY <2>2, <2>3, <2>4
<1>6. PICK q : /\ q = resend' /\ q \in Seq(Cmds) /\ InOrder(q)
               /\ Elements(q) = Elements(binding) \union Elements(l) \union Elements(unsent)
  <2>1. \A c \in Elements(unsent) : c \in Cmds /\ c.nth \in Nat
    BY <1>3, ElementsIn, CmdFields
  <2>2. Follow(Elements(a), Elements(unsent))
    BY <2>1, <1>4, <1>5 DEF Follow, ListTurns, WebInv, ClientInOrder
  <2>3. InOrder(unsent)
    BY DEF WebInv, ClientInOrder
  <2>4. a \o unsent \in Seq(Cmds) /\ Elements(a \o unsent) = Elements(a) \union Elements(unsent)
    BY <1>3, <1>5, Joined2
  <2>5. InOrder(a \o unsent)
    BY <2>2, <2>3, <1>3, <1>5, JoinedInOrder
  <2>6. resend' = a \o unsent
    BY <1>1, <1>5
  <2> QED BY <2>4, <2>5, <2>6, <1>5
<1>7. resend = <<>> /\ down = <<>> /\ Elements(resend) = {}
  BY <1>1 DEF WebInv, ClientInOrder, Elements
<1>8. /\ Out' = Out \union Elements(l) \union Elements(unsent)
      /\ Only(Out', Out)
  <2>1. Out' = Out \union Elements(l) \union Elements(unsent)
    BY <1>1, <1>2, <1>6, <1>7 DEF Out
  <2>2. \A c \in Elements(l) \union Elements(unsent) : ~is_binding(c)
    <3>1. Elements(unsent) \subseteq Prompts \union {ListTurns}
      BY <1>3, ElementsIn
    <3> QED BY <3>1, <1>4 DEF is_binding, Binding, Prompts, ListTurns
  <2> QED BY <2>1, <2>2 DEF Only
<1>9. socket + 1 \in Sockets /\ socket + 1 > socket /\ socket \in Nat
  BY <1>1, SocketsAssumption DEF WebInv, WebTypeOK, Sockets
<1>10. up[socket + 1] = <<>> /\ user[socket + 1] = None /\ session[socket + 1] = Nobody /\ socket + 1 \notin unplaced
  BY <1>9 DEF WebInv, Unopened
<1>11. \A s \in Sockets : /\ Line(s)' = IF s = socket + 1 THEN q ELSE Line(s)
                          /\ Coming(s) = {} /\ Coming(s)' = IF s = socket + 1 THEN {doings + 1} ELSE {}
  <2>1. up[socket + 1] \o q = q
    BY <1>6, <1>10, ConcatEmptySeq
  <2> QED BY <2>1, <1>1, <1>6 DEF Line, Live, Coming
<1>12. WebTypeOK'
  <2>1. resend' \in Seq(Cmds) /\ unsent' \in Seq(Prompts \union {ListTurns}) /\ socket' \in 0..MaxSockets /\ socket' \in Sockets
    BY <1>1, <1>6, <1>9 DEF Sockets
  <2> QED BY <2>1, <1>1, <1>2 DEF WebInv, WebTypeOK
<1>13. Unopened'
  <2> SUFFICES ASSUME NEW s \in Sockets, s > socket + 1
               PROVE  up[s] = <<>> /\ user[s] = None /\ session[s] = Nobody /\ s \notin unplaced
    BY <1>1, <1>2 DEF Unopened
  <2>1. s > socket
    BY <1>9 DEF Sockets
  <2> QED BY <2>1 DEF WebInv, Unopened
<1>14. Elements(unsent') = {} /\ InOrder(unsent')
  BY <1>1 DEF Elements, InOrder
<1>15. \A c \in Elements(l) : c.nth = 0
  BY <1>4 DEF ListTurns
<1>16. Elements(typed) \subseteq Cmds /\ Out' \in SUBSET Cmds
  <2>1. typed \in Seq(Cmds)
    BY DEF WebInv, WebTypeOK
  <2> QED BY <2>1, <1>3, <1>4, <1>8, LinesSound, ElementsIn
<1>17. ClientInOrder'
  <2>1. Until(Elements(typed) \union Out', doings)
    <3>1. Until(Elements(typed) \union Out \union Elements(unsent), doings) /\ doings \in Nat
      BY DEF WebInv, ClientInOrder, WebTypeOK
    <3> QED BY <3>1, <1>8, <1>15 DEF Until
  <2>2. Follow(Out', Elements(typed))
    <3>1. \A c \in Elements(typed) : c.nth \in Nat
      BY <1>16, CmdFields
    <3> QED BY <3>1, <1>8, <1>15 DEF Follow, WebInv, ClientInOrder
  <2>3. \A s \in Sockets : InOrder(Line(s)')
    BY <1>6, <1>11 DEF WebInv, ClientInOrder
  <2>4. Follow(Elements(binding), {})
    BY DEF Follow
  <2>5. Follow(Elements(binding), {c \in Elements(q) : c.kind = "Prompt"})
    <3>1. Elements(binding) \subseteq Sels \union Auths
      BY <1>3, ElementsIn
    <3>2. \A c \in Elements(binding) \union Elements(l) : c.kind # "Prompt"
      BY <3>1, <1>4 DEF Sels, Auths, ListTurns
    <3>3. {c \in Elements(q) : c.kind = "Prompt"} \subseteq Elements(unsent)
      BY <3>2, <1>6
    <3> QED BY <3>3 DEF Follow, WebInv, ClientInOrder
  <2>6. InOrder(resend') /\ Follow(Elements(binding), {c \in Elements(resend') : c.kind = "Prompt"})
    BY <2>5, <1>6
  <2> QED BY <2>1, <2>2, <2>3, <2>4, <2>6, <1>1, <1>14 DEF WebInv, ClientInOrder
<1>18. OneOfEach'
  BY <1>8, <1>14, <1>15 DEF WebInv, OneOfEach, Distinct
<1>19. BindingIsLatest'
  BY <1>1, <1>8 DEF WebInv, BindingIsLatest, IsLatest, Only
<1>20. InPlace'
  <2> SUFFICES ASSUME NEW s \in Sockets
               PROVE  PlacedIn(authOn, Line(s)', Coming(s)', Out', accepted, session[s], user[s], s \in unplaced)
    BY <1>2 DEF InPlace
  <2>1. CASE s # socket + 1
    <3>1. PlacedIn(authOn, Line(s), {}, Out, accepted, session[s], user[s], s \in unplaced)
      BY <1>11 DEF WebInv, InPlace
    <3>2. {} \in SUBSET (Nat \ {0}) /\ {} \in SUBSET {}
      OBVIOUS
    <3>3. PlacedIn(authOn, Line(s), {}, Out', accepted, session[s], user[s], s \in unplaced)
      BY <3>1, <3>2, <1>8, <1>16, LinesSound, PlacedSame
    <3> QED BY <3>3, <2>1, <1>11
  <2>2. CASE s = socket + 1
    <3>1. /\ authOn \in BOOLEAN /\ doings \in Nat /\ Until(Out', doings) /\ InOrder(binding)
          /\ Follow(Elements(binding), Elements(unsent)) /\ IsLatest(Elements(binding), Out')
      BY <1>1, <1>17, <1>19 DEF WebInv, WebTypeOK, ClientInOrder, Until, BindingIsLatest
    <3>2. Elements(binding) \subseteq Out' /\ Elements(unsent) \subseteq Out'
      BY <1>8 DEF Out
    <3>3. PlacedIn(authOn, q, {doings + 1}, Out', accepted, Nobody, None, FALSE)
      BY <3>1, <3>2, <1>1, <1>3, <1>6, <1>16, PlacedAnew
    <3>4. (s \in unplaced) = FALSE /\ session[s] = Nobody /\ user[s] = None
      BY <2>2, <1>10
    <3>5. Line(s)' = q /\ Coming(s)' = {doings + 1}
      BY <2>2, <1>11
    <3> QED BY <3>3, <3>4, <3>5
  <2> QED BY <2>1, <2>2
<1>21. PageWillBe'
  <2>1. Refused(socket)' = authOn
    <3>1. authOn \in BOOLEAN /\ user'[socket'] = None
      BY <1>1, <1>2, <1>10 DEF WebInv, WebTypeOK
    <3> QED BY <3>1, <1>2 DEF Refused
  <2>2. Binds(authOn, q, authOn, Selects(binding), FALSE, FALSE)
    <3>1. Elements(unsent) \subseteq Prompts \union {ListTurns} /\ authOn \in BOOLEAN
      BY <1>3, ElementsIn DEF WebInv, WebTypeOK
    <3>2. \A c \in Elements(unsent) : c.kind # "Authenticate"
      BY <3>1 DEF Prompts, ListTurns
    <3> QED BY <3>1, <3>2, <1>1, <1>3, <1>6, BindsAnew
  <2>3. Line(socket)' = q
    BY <1>1, <1>9, <1>11 DEF Line, Live
  <2>4. down' = <<>> /\ (down' # <<>>) = FALSE
    BY <1>1, <1>7
  <2> QED BY <2>1, <2>2, <2>3, <2>4, <1>1, <1>2 DEF PageWillBe
<1> QED BY <1>1, <1>12, <1>13, <1>17, <1>18, <1>19, <1>20, <1>21, DaemonRests DEF WebInv

LEMMA Widened ==
  ASSUME NEW S, NEW T, NEW q \in Seq(S), Elements(q) \subseteq T
  PROVE  q \in Seq(T)
<1>1. \A i \in 1..Len(q) : q[i] \in T
  BY DEF Elements
<1> QED BY <1>1

LEMMA InPlaceSame ==
  ASSUME WebInv, UNCHANGED daemonVars, Out' \in SUBSET Cmds, Only(Out', Out),
         \A s \in Sockets : Line(s)' = Line(s) /\ Coming(s)' \in SUBSET Coming(s)
  PROVE  InPlace'
<1>1. /\ authOn' = authOn /\ user' = user /\ session' = session /\ accepted' = accepted
      /\ unplaced' = unplaced
  BY DEF daemonVars
<1> SUFFICES ASSUME NEW s \in Sockets
             PROVE  PlacedIn(authOn, Line(s), Coming(s)', Out', accepted, session[s], user[s], s \in unplaced)
  BY <1>1 DEF InPlace
<1>2. PlacedIn(authOn, Line(s), Coming(s), Out, accepted, session[s], user[s], s \in unplaced)
  BY DEF WebInv, InPlace
<1> QED BY <1>2, LinesSound, PlacedSame

LEMMA NoticeStep ==
  ASSUME WebInv, Notice
  PROVE  WebInv'
<1>1. /\ resend = <<>> /\ link = "cut" /\ link' = "down" /\ up' = up
      /\ typed' = typed /\ doings' = doings /\ binding' = binding /\ unsent' = unsent /\ resend' = resend
      /\ signingIn' = signingIn /\ socket' = socket /\ down' = down /\ UNCHANGED daemonVars
  BY DEF Notice, Fails
<1>2. /\ authOn' = authOn /\ user' = user /\ session' = session /\ accepted' = accepted
      /\ unplaced' = unplaced /\ ran' = ran
  BY <1>1 DEF daemonVars
<1>3. Out' = Out /\ \A s \in Sockets : Line(s)' = Line(s) /\ Coming(s) = {} /\ Coming(s)' = {}
  BY <1>1, <1>2 DEF Out, Line, Live, Coming
<1>4. WebTypeOK' /\ Unopened' /\ ClientInOrder' /\ OneOfEach' /\ BindingIsLatest' /\ PageWillBe'
  <2>1. WebTypeOK'
    BY <1>1, <1>2 DEF WebInv, WebTypeOK
  <2>2. Unopened' /\ OneOfEach' /\ BindingIsLatest'
    BY <1>1, <1>2, <1>3 DEF WebInv, Unopened, OneOfEach, BindingIsLatest
  <2>3. ClientInOrder'
    BY <1>1, <1>3 DEF WebInv, ClientInOrder
  <2>4. PageWillBe'
    BY <1>1 DEF PageWillBe
  <2> QED BY <2>1, <2>2, <2>3, <2>4
<1>5. InPlace'
  <2>1. Only(Out', Out) /\ Out' \in SUBSET Cmds
    BY <1>3, LinesSound DEF Only
  <2>2. \A s \in Sockets : Line(s)' = Line(s) /\ Coming(s)' \in SUBSET Coming(s)
    BY <1>3
  <2> QED BY <2>1, <2>2, <1>1, InPlaceSame
<1> QED BY <1>1, <1>4, <1>5, DaemonRests DEF WebInv

LEMMA CutStep ==
  ASSUME WebInv, Cut
  PROVE  WebInv'
<1>1. PICK n \in 0..Len(up[socket]) : up' = [up EXCEPT ![socket] = SubSeq(@, 1, n)]
  BY DEF Cut
<1>2. /\ link = "up" /\ link' = "cut" /\ down' = <<>>
      /\ typed' = typed /\ doings' = doings /\ binding' = binding /\ unsent' = unsent /\ resend' = resend
      /\ signingIn' = signingIn /\ socket' = socket /\ UNCHANGED daemonVars
  BY DEF Cut
<1>3. /\ authOn' = authOn /\ user' = user /\ session' = session /\ accepted' = accepted
      /\ unplaced' = unplaced /\ ran' = ran
  BY <1>2 DEF daemonVars
<1>4. socket \in Sockets /\ up \in [Sockets -> Seq(Cmds)] /\ resend \in Seq(Cmds)
  BY <1>2 DEF WebInv, WebTypeOK
<1>5. PICK p \in Seq(Cmds) : p = SubSeq(up[socket], 1, n) /\ FirstOf(p, up[socket], n)
  BY <1>4, CutShort
<1>6. PICK m \in Nat : DOMAIN Line(socket) = 1..m /\ n \in 0..m /\ FirstOf(p, Line(socket), n)
  <2>1. PICK k \in Nat, r \in Nat : k = Len(up[socket]) /\ r = Len(resend)
    BY <1>4
  <2>2. Line(socket) = up[socket] \o resend
    BY <1>2 DEF Line, Live
  <2>3. /\ DOMAIN Line(socket) = 1..k + r
        /\ \A i \in 1..k + r : Line(socket)[i] = IF i <= k THEN up[socket][i] ELSE resend[i - k]
    <3>1. PICK q \in Seq(Cmds) : q = up[socket]
      BY <1>4
    <3>2. /\ DOMAIN (q \o resend) = 1..Len(q) + Len(resend)
          /\ \A i \in 1..Len(q) + Len(resend) :
               (q \o resend)[i] = IF i <= Len(q) THEN q[i] ELSE resend[i - Len(q)]
      BY <1>4, <3>1, Joined2
    <3> QED BY <2>1, <2>2, <3>1, <3>2
  <2>4. n \in 0..k /\ \A i \in 1..n : i \in 1..k + r /\ i <= k
    BY <2>1
  <2>5. n \in 0..k + r /\ k + r \in Nat
    BY <2>4
  <2>6. FirstOf(p, Line(socket), n)
    BY <2>3, <2>4, <1>5 DEF FirstOf
  <2> QED BY <2>3, <2>5, <2>6
<1>7. InOrder(p) /\ Elements(p) \subseteq Elements(Line(socket)) /\ Elements(p) \subseteq Elements(up[socket])
  <2>1. InOrder(Line(socket))
    BY <1>4 DEF WebInv, ClientInOrder
  <2>2. \A i \in 1..n : i \in DOMAIN up[socket]
    BY <1>4, CutShort
  <2>3. Elements(p) \subseteq Elements(up[socket])
    BY <2>2, <1>5 DEF FirstOf, Elements
  <2> QED BY <2>1, <2>3, <1>6, FirstInOrder
<1>8. \A s \in Sockets : /\ up'[s] = IF s = socket THEN p ELSE up[s]
                         /\ Line(s)' = IF s = socket THEN p ELSE Line(s)
                         /\ Coming(s)' = {}
  BY <1>1, <1>2, <1>4, <1>5 DEF Line, Live, Coming
<1>9. Out' \subseteq Out
  BY <1>2, <1>3, <1>4, <1>7, <1>8 DEF Out
<1>10. WebTypeOK'
  <2>1. up' \in [Sockets -> Seq(Cmds)]
    BY <1>1, <1>4, <1>5
  <2>2. <<>> \in Seq({"AuthOk"})
    OBVIOUS
  <2> QED BY <2>1, <2>2, <1>2, <1>3 DEF WebInv, WebTypeOK
<1>11. Unopened'
  <2>1. \A s \in Sockets : s > socket => s # socket
    BY <1>4 DEF Sockets
  <2> QED BY <2>1, <1>2, <1>3, <1>8 DEF WebInv, Unopened
<1>12. ClientInOrder'
  <2>1. Until(Elements(typed) \union Out' \union Elements(unsent), doings)
    BY <1>9 DEF Until, WebInv, ClientInOrder
  <2>2. Follow(Out' \union Elements(unsent), Elements(typed))
    BY <1>9 DEF Follow, WebInv, ClientInOrder
  <2>3. \A s \in Sockets : InOrder(Line(s)')
    BY <1>7, <1>8 DEF WebInv, ClientInOrder
  <2> QED BY <2>1, <2>2, <2>3, <1>2 DEF WebInv, ClientInOrder
<1>13. OneOfEach' /\ BindingIsLatest'
  BY <1>2, <1>9 DEF WebInv, OneOfEach, Distinct, BindingIsLatest, IsLatest
<1>14. InPlace'
  <2> SUFFICES ASSUME NEW s \in Sockets
               PROVE  PlacedIn(authOn, Line(s)', {}, Out', accepted, session[s], user[s], s \in unplaced)
    BY <1>3, <1>8 DEF InPlace
  <2>1. PlacedIn(authOn, Line(s), Coming(s), Out, accepted, session[s], user[s], s \in unplaced)
    BY DEF WebInv, InPlace
  <2>2. Only(Out', Out) /\ Out' \in SUBSET Cmds
    BY <1>9, LinesSound DEF Only
  <2>3. CASE s # socket
    <3>1. {} \in SUBSET Coming(s)
      OBVIOUS
    <3>2. PlacedIn(authOn, Line(s), {}, Out', accepted, session[s], user[s], s \in unplaced)
      BY <2>1, <2>2, <3>1, LinesSound, PlacedSame
    <3> QED BY <3>2, <2>3, <1>8
  <2>4. CASE s = socket
    <3>1. /\ Sound(authOn, Line(s), Out, accepted) /\ InOrder(Line(s)) /\ Coming(s) \in SUBSET (Nat \ {0})
          /\ DOMAIN Line(s) = 1..m /\ n \in 0..m /\ FirstOf(p, Line(s), n)
      BY <2>4, <1>6, LinesSound DEF WebInv, ClientInOrder
    <3>2. PlacedIn(authOn, p, {}, Out', accepted, session[s], user[s], s \in unplaced)
      BY <2>1, <2>2, <3>1, PlacedCut
    <3> QED BY <3>2, <2>4, <1>8
  <2> QED BY <2>3, <2>4
<1>15. PageWillBe'
  BY <1>2 DEF PageWillBe
<1> QED BY <1>2, <1>10, <1>11, <1>12, <1>13, <1>14, <1>15, DaemonRests DEF WebInv

\* The lines stay, and nothing new is out.
LEMMA LinesKept ==
  ASSUME WebInv, UNCHANGED daemonVars, UNCHANGED <<typed, doings, binding, socket>>,
         Out' \subseteq Out, Elements(unsent') \subseteq Out \union Elements(unsent),
         \A s \in Sockets : Line(s)' = Line(s) /\ Coming(s)' \in SUBSET Coming(s)
  PROVE  /\ OneOfEach' /\ BindingIsLatest' /\ InPlace'
         /\ Until(Elements(typed) \union Out' \union Elements(unsent'), doings)
         /\ Follow(Out' \union Elements(unsent'), Elements(typed))
         /\ \A s \in Sockets : InOrder(Line(s)')
<1>1. Out' \in SUBSET Cmds /\ Only(Out', Out)
  BY LinesSound DEF Only
<1>2. InPlace'
  BY <1>1, InPlaceSame
<1>3. OneOfEach' /\ BindingIsLatest'
  BY DEF WebInv, OneOfEach, Distinct, BindingIsLatest, IsLatest
<1>4. Until(Elements(typed) \union Out' \union Elements(unsent'), doings)
  BY DEF WebInv, ClientInOrder, Until
<1>5. Follow(Out' \union Elements(unsent'), Elements(typed))
  BY DEF WebInv, ClientInOrder, Follow
<1>6. \A s \in Sockets : InOrder(Line(s)')
  BY DEF WebInv, ClientInOrder
<1> QED BY <1>2, <1>3, <1>4, <1>5, <1>6

LEMMA ResendStep ==
  ASSUME WebInv, Resend
  PROVE  WebInv'
<1>1. /\ resend # <<>> /\ typed' = typed /\ doings' = doings /\ binding' = binding
      /\ signingIn' = signingIn /\ socket' = socket /\ down' = down /\ UNCHANGED daemonVars
      /\ \/ Sent(Head(resend)) /\ resend' = Tail(resend) /\ unsent' = unsent
         \/ /\ Fails /\ resend' = <<>>
            /\ unsent' = unsent \o Among(resend, Kinds \ (Binding \union {"ListTurns"}))
  BY DEF Resend
<1>2. /\ authOn' = authOn /\ user' = user /\ session' = session /\ accepted' = accepted
      /\ unplaced' = unplaced /\ ran' = ran
  BY <1>1 DEF daemonVars
<1>3. /\ link # "down" /\ link \in {"up", "cut"} /\ socket \in Sockets /\ unsent = <<>>
      /\ up \in [Sockets -> Seq(Cmds)] /\ resend \in Seq(Cmds) /\ InOrder(resend)
  BY <1>1 DEF WebInv, WebTypeOK, ClientInOrder, Sent, Fails
<1>4. PICK c \in Cmds : c = Head(resend) /\ Elements(resend) = Elements(Tail(resend)) \union {c}
  BY <1>1, <1>3, Shortened
<1>5. Tail(resend) \in Seq(Cmds) /\ InOrder(Tail(resend)) /\ Elements(Tail(resend)) \subseteq Elements(resend)
  BY <1>1, <1>3, <1>4, Shortened, TailInOrder
<1>6. UNCHANGED <<typed, doings, binding, socket>>
  BY <1>1
<1>7. Follow(Elements(binding), {e \in Elements(Tail(resend)) : e.kind = "Prompt"})
  BY <1>5 DEF WebInv, ClientInOrder, Follow
<1>8. Elements(unsent) = {}
  BY <1>3 DEF Elements
<1>9. ASSUME link = "up", up' = [up EXCEPT ![socket] = Append(@, c)], link' = link,
             resend' = Tail(resend), unsent' = unsent
      PROVE  WebInv'
  <2>1. PICK q \in Seq(Cmds) : q = up[socket] /\ Append(q, c) \in Seq(Cmds)
                               /\ Elements(Append(q, c)) = Elements(q) \union {c}
    BY <1>3, <1>4, Appended
  <2>2. \A s \in Sockets : up'[s] = IF s = socket THEN Append(q, c) ELSE up[s]
    BY <2>1, <1>3, <1>9
  <2>3. Append(q, c) \o Tail(resend) = q \o resend
    BY <2>1, <1>1, <1>3, <1>4, Passed
  <2>4. \A s \in Sockets : Line(s)' = Line(s) /\ Coming(s)' = Coming(s)
    BY <2>1, <2>2, <2>3, <1>1, <1>9 DEF Line, Live, Coming
  <2>5. Out' \subseteq Out
    BY <2>1, <2>2, <1>1, <1>2, <1>3, <1>4, <1>5, <1>9 DEF Out
  <2>6. WebTypeOK'
    <3>1. up' \in [Sockets -> Seq(Cmds)]
      BY <2>1, <1>3, <1>9
    <3> QED BY <3>1, <1>1, <1>2, <1>5, <1>9 DEF WebInv, WebTypeOK
  <2>7. Unopened'
    <3>1. \A s \in Sockets : s > socket => s # socket
      BY <1>3 DEF Sockets
    <3> QED BY <3>1, <2>2, <1>1, <1>2 DEF WebInv, Unopened
  <2>8. /\ OneOfEach' /\ BindingIsLatest' /\ InPlace'
        /\ Until(Elements(typed) \union Out' \union Elements(unsent'), doings)
        /\ Follow(Out' \union Elements(unsent'), Elements(typed))
        /\ \A s \in Sockets : InOrder(Line(s)')
    BY <2>4, <2>5, <1>1, <1>6, <1>8, <1>9, LinesKept
  <2>9. ClientInOrder'
    BY <2>8, <1>1, <1>5, <1>7, <1>9 DEF WebInv, ClientInOrder
  <2>10. PageWillBe'
    BY <2>4, <1>1, <1>2, <1>3, <1>9 DEF WebInv, PageWillBe, Refused
  <2> QED BY <2>6, <2>7, <2>8, <2>9, <2>10, <1>1, DaemonRests DEF WebInv
<1>10. ASSUME link = "cut", up' = up, link' = link, resend' = Tail(resend), unsent' = unsent
       PROVE  WebInv'
  <2>1. \A s \in Sockets : Line(s)' = Line(s) /\ Coming(s)' = Coming(s)
    BY <1>1, <1>10 DEF Line, Live, Coming
  <2>2. Out' \subseteq Out
    BY <1>1, <1>2, <1>5, <1>10 DEF Out
  <2>3. WebTypeOK' /\ Unopened'
    <3>1. WebTypeOK'
      BY <1>1, <1>2, <1>5, <1>10 DEF WebInv, WebTypeOK
    <3>2. Unopened'
      BY <1>1, <1>2, <1>10 DEF WebInv, Unopened
    <3> QED BY <3>1, <3>2
  <2>4. /\ OneOfEach' /\ BindingIsLatest' /\ InPlace'
        /\ Until(Elements(typed) \union Out' \union Elements(unsent'), doings)
        /\ Follow(Out' \union Elements(unsent'), Elements(typed))
        /\ \A s \in Sockets : InOrder(Line(s)')
    BY <2>1, <2>2, <1>1, <1>6, <1>8, <1>10, LinesKept
  <2>5. ClientInOrder'
    BY <2>4, <1>1, <1>5, <1>7, <1>10 DEF WebInv, ClientInOrder
  <2>6. PageWillBe'
    BY <1>10 DEF PageWillBe
  <2> QED BY <2>3, <2>4, <2>5, <2>6, <1>1, DaemonRests DEF WebInv
<1>11. ASSUME link = "cut", link' = "down", up' = up, resend' = <<>>,
              unsent' = unsent \o Among(resend, Kinds \ (Binding \union {"ListTurns"}))
       PROVE  WebInv'
  <2>1. PICK a : a = Among(resend, Kinds \ (Binding \union {"ListTurns"}))
    OBVIOUS
  <2>2. Kinds \ (Binding \union {"ListTurns"}) = {"Prompt"}
    BY DEF Kinds, Binding
  <2>3. a \in Seq(Cmds) /\ InOrder(a) /\ Elements(a) = {e \in Elements(resend) : e.kind \in {"Prompt"}}
    <3>1. \A x \in Cmds : x.nth \in Nat
      BY CmdFields
    <3> QED BY <3>1, <2>1, <2>2, <1>3, AmongIs
  <2>4. unsent' = a
    BY <2>1, <2>3, <1>3, <1>11, ConcatEmptySeq
  <2>5. a \in Seq(Prompts \union {ListTurns})
    <3>1. Elements(resend) \subseteq Cmds
      BY <1>3, ElementsIn
    <3>2. Elements(a) \subseteq Prompts \union {ListTurns}
      BY <3>1, <2>3, CmdFields
    <3> QED BY <3>2, <2>3, Widened
  <2>6. \A s \in Sockets : Line(s)' = Line(s) /\ Coming(s)' = Coming(s)
    BY <1>1, <1>11 DEF Line, Live, Coming
  <2>7. Elements(resend') = {} /\ InOrder(resend')
    BY <1>11 DEF Elements, InOrder
  <2>8. Out' \subseteq Out /\ Elements(unsent') \subseteq Out
    BY <2>3, <2>4, <2>7, <1>1, <1>2, <1>11 DEF Out
  <2>9. WebTypeOK' /\ Unopened'
    <3>1. WebTypeOK'
      <4>1. resend' \in Seq(Cmds) /\ unsent' \in Seq(Prompts \union {ListTurns})
        <5>1. <<>> \in Seq(Cmds)
          OBVIOUS
        <5> QED BY <5>1, <2>4, <2>5, <1>11
      <4> QED BY <4>1, <1>1, <1>2, <1>11 DEF WebInv, WebTypeOK
    <3>2. Unopened'
      BY <1>1, <1>2, <1>11 DEF WebInv, Unopened
    <3> QED BY <3>1, <3>2
  <2>10. /\ OneOfEach' /\ BindingIsLatest' /\ InPlace'
         /\ Until(Elements(typed) \union Out' \union Elements(unsent'), doings)
         /\ Follow(Out' \union Elements(unsent'), Elements(typed))
         /\ \A s \in Sockets : InOrder(Line(s)')
    BY <2>6, <2>8, <1>1, <1>6, LinesKept
  <2>11. /\ Follow(Elements(binding), Elements(unsent'))
         /\ Follow(Elements(binding), {e \in Elements(resend') : e.kind = "Prompt"})
    <3>1. Elements(unsent') = {e \in Elements(resend) : e.kind = "Prompt"}
      BY <2>3, <2>4
    <3>2. {e \in Elements(resend') : e.kind = "Prompt"} = {}
      BY <2>7
    <3>3. Follow(Elements(binding), {})
      BY DEF Follow
    <3> QED BY <3>1, <3>2, <3>3 DEF WebInv, ClientInOrder
  <2>12. InOrder(unsent') /\ down = <<>>
    BY <2>3, <2>4, <1>11 DEF WebInv, ClientInOrder
  <2>13. ClientInOrder'
    BY <2>7, <2>10, <2>11, <2>12, <1>1, <1>11 DEF WebInv, ClientInOrder
  <2>14. PageWillBe'
    BY <1>11 DEF PageWillBe
  <2> QED BY <2>9, <2>10, <2>13, <2>14, <1>1, DaemonRests DEF WebInv
<1> QED BY <1>1, <1>3, <1>4, <1>9, <1>10, <1>11 DEF Sent, Fails

\* A command comes to the end of the line of the socket the client is on, if any.
LEMMA LinesExtended ==
  ASSUME WebInv, UNCHANGED daemonVars, doings' = doings,
         NEW c \in Cmds, c.nth <= doings, Follow(Out, {c}), Out' \subseteq Out \union {c},
         \A s \in Sockets :
           IF Live(s) THEN Line(s)' = Append(Line(s), c) /\ Coming(s)' = {doings + 1}
           ELSE Line(s)' = Line(s) /\ Coming(s)' = {}
  PROVE  InPlace' /\ \A s \in Sockets : InOrder(Line(s)')
<1>1. /\ authOn' = authOn /\ user' = user /\ session' = session /\ accepted' = accepted
      /\ unplaced' = unplaced
  BY DEF daemonVars
<1>2. Out' \in SUBSET Cmds /\ Only(Out', Out \union {c})
  BY LinesSound DEF Only
<1>3. ASSUME NEW s \in Sockets
      PROVE  /\ PlacedIn(authOn, Line(s)', Coming(s)', Out', accepted, session[s], user[s], s \in unplaced)
             /\ InOrder(Line(s)')
  <2>1. /\ PlacedIn(authOn, Line(s), Coming(s), Out, accepted, session[s], user[s], s \in unplaced)
        /\ InOrder(Line(s))
    BY DEF WebInv, InPlace, ClientInOrder
  <2>2. /\ Line(s) \in Seq(Cmds) /\ Sound(authOn, Line(s), Out, accepted) /\ Elements(Line(s)) \subseteq Out
        /\ Until(Out, doings) /\ doings \in Nat
    BY LinesSound
  <2>3. CASE Live(s)
    <3>1. PlacedIn(authOn, Line(s), {doings + 1}, Out, accepted, session[s], user[s], s \in unplaced)
      BY <2>1, <2>3 DEF Coming
    <3>2. PlacedIn(authOn, Append(Line(s), c), {doings + 1}, Out', accepted, session[s], user[s], s \in unplaced)
      BY <3>1, <2>2, <1>2, PlacedAdded
    <3>3. Follow(Elements(Line(s)), {c})
      BY <2>2 DEF Follow
    <3>4. InOrder(Append(Line(s), c))
      BY <3>3, <2>1, <2>2, AppendInOrder
    <3> QED BY <3>2, <3>4, <2>3
  <2>4. CASE ~Live(s)
    <3>1. PlacedIn(authOn, Line(s), {}, Out, accepted, session[s], user[s], s \in unplaced)
      BY <2>1, <2>4 DEF Coming
    <3>2. PlacedIn(authOn, Line(s), {}, Out', accepted, session[s], user[s], s \in unplaced)
      BY <3>1, <2>2, <1>2, PlacedPassing
    <3> QED BY <3>2, <2>1, <2>4
  <2> QED BY <2>3, <2>4
<1> QED BY <1>1, <1>3 DEF InPlace

\* The client takes up the first thing the user did.
Taking ==
  /\ link # "down" /\ resend = <<>> /\ resend' = <<>> /\ typed # <<>> /\ typed' = Tail(typed)
  /\ binding' = Bound(binding, Head(typed)) /\ doings' = doings /\ socket' = socket /\ down' = down
  /\ Out' \subseteq Out \union {Head(typed)}
  /\ unsent' = <<>> \/ (~is_binding(Head(typed)) /\ unsent' = <<Head(typed)>>)

LEMMA TakenUp ==
  ASSUME WebInv, Taking
  PROVE  /\ Head(typed) \in Cmds /\ Head(typed).nth <= doings /\ Follow(Out, {Head(typed)})
         /\ typed' \in Seq(Cmds) /\ binding' \in Seq(Sels \union Auths)
         /\ unsent' \in Seq(Prompts \union {ListTurns}) /\ resend' \in Seq(Cmds)
         /\ Selects(binding') => Selects(binding) \/ Head(typed).kind = "SelectRepo"
         /\ Elements(binding') \subseteq Elements(binding) \union {Head(typed)}
         /\ OneOfEach' /\ BindingIsLatest'
         /\ InOrder(typed') /\ InOrder(binding') /\ InOrder(unsent') /\ InOrder(resend')
         /\ Until(Elements(typed') \union Out' \union Elements(unsent'), doings)
         /\ Follow(Out' \union Elements(unsent'), Elements(typed'))
         /\ Follow(Elements(binding'), Elements(unsent'))
         /\ Follow(Elements(binding'), {e \in Elements(resend') : e.kind = "Prompt"})
<1>1. /\ link # "down" /\ resend = <<>> /\ resend' = <<>> /\ typed # <<>> /\ typed' = Tail(typed)
      /\ binding' = Bound(binding, Head(typed)) /\ Out' \subseteq Out \union {Head(typed)}
      /\ unsent' = <<>> \/ (~is_binding(Head(typed)) /\ unsent' = <<Head(typed)>>)
  BY DEF Taking
<1>2. /\ typed \in Seq(Cmds) /\ binding \in Seq(Sels \union Auths) /\ unsent = <<>> /\ InOrder(typed)
      /\ InOrder(binding) /\ doings \in Nat /\ Elements(binding) \subseteq Out
  BY <1>1 DEF WebInv, WebTypeOK, ClientInOrder, Out
<1>3. PICK c \in Cmds : c = Head(typed) /\ Elements(typed) = Elements(Tail(typed)) \union {c}
  BY <1>1, <1>2, Shortened
<1>4. /\ Tail(typed) \in Seq(Cmds) /\ InOrder(Tail(typed))
      /\ \A e \in Elements(Tail(typed)) : e.nth # 0 /\ c.nth # 0 => c.nth < e.nth
  BY <1>1, <1>2, <1>3, Shortened, TailInOrder
<1>5. /\ Follow(Out, {c}) /\ Follow(Out, Elements(Tail(typed)))
      /\ Until(Elements(Tail(typed)) \union Out \union {c}, doings)
  BY <1>3 DEF WebInv, ClientInOrder, Follow, Until
<1>6. /\ \A e \in Elements(Tail(typed)) \union Out \union {c} : e.nth \in Nat
      /\ Out \subseteq Cmds
  <2>1. Elements(Tail(typed)) \subseteq Cmds
    BY <1>4, ElementsIn
  <2> QED BY <2>1, LinesSound, CmdFields
<1>7. PICK b : b = Bound(binding, c)
  OBVIOUS
<1>8. /\ b \in Seq(Sels \union Auths) /\ (~is_binding(c) => b = binding)
      /\ is_binding(c) => Elements(b) = {e \in Elements(binding) : e.kind # c.kind} \union {c}
      /\ InOrder(b) /\ (Selects(b) => Selects(binding) \/ c.kind = "SelectRepo")
  <2>1. Follow(Elements(binding), {c})
    BY <1>2, <1>5 DEF Follow
  <2> QED BY <2>1, <1>2, <1>7, BoundIs
<1>9. Elements(b) \subseteq Elements(binding) \union {c}
  BY <1>8
<1>10. /\ unsent' \in Seq(Prompts \union {ListTurns}) /\ InOrder(unsent')
       /\ Elements(unsent') \subseteq {c} /\ (is_binding(c) => Elements(unsent') = {})
  <2>1. CASE unsent' = <<>>
    <3>1. <<>> \in Seq(Prompts \union {ListTurns}) /\ InOrder(<<>>) /\ Elements(<<>>) = {}
      BY DEF InOrder, Elements
    <3> QED BY <3>1, <2>1
  <2>2. CASE ~is_binding(c) /\ unsent' = <<c>>
    <3>1. c \in Prompts \union {ListTurns}
      BY <2>2, CmdFields DEF is_binding, Binding, Kinds
    <3>2. <<c>> \in Seq(Prompts \union {ListTurns}) /\ InOrder(<<c>>) /\ Elements(<<c>>) \subseteq {c}
      BY <3>1 DEF InOrder, Elements
    <3> QED BY <3>2, <2>2
  <2> QED BY <2>1, <2>2, <1>1, <1>3
<1>11. resend' \in Seq(Cmds) /\ InOrder(resend') /\ Elements(resend') = {}
  <2>1. <<>> \in Seq(Cmds) /\ InOrder(<<>>) /\ Elements(<<>>) = {}
    BY DEF InOrder, Elements
  <2> QED BY <2>1, <1>1
<1>12. Out' \subseteq Out \union {c}
  BY <1>1, <1>3
<1>13. OneOfEach'
  <2>1. Distinct(Out \union {c})
    <3>1. Distinct(Out)
      BY DEF WebInv, OneOfEach, Distinct
    <3>2. \A e \in Out : c.nth # 0 => e.nth < c.nth
      BY <1>5 DEF Follow
    <3>3. \A e \in Out : c.nth # 0 => e.nth # c.nth
      BY <3>2, <1>6
    <3> QED BY <3>1, <3>3 DEF Distinct
  <2>2. Out' \union Elements(unsent') \subseteq Out \union {c}
    BY <1>10, <1>12
  <2> QED BY <2>1, <2>2 DEF OneOfEach, Distinct
<1>14. IsLatest(Elements(b), Out \union {c})
  <2>1. IsLatest(Elements(binding), Out)
    BY DEF WebInv, BindingIsLatest
  <2>2. CASE ~is_binding(c)
    BY <2>1, <2>2, <1>8 DEF IsLatest
  <2>3. CASE is_binding(c)
    <3>1. ASSUME NEW e \in Out, is_binding(e)
          PROVE  \E d \in Elements(b) : d.kind = e.kind /\ e.nth <= d.nth
      <4>1. PICK d \in Elements(binding) : d.kind = e.kind /\ e.nth <= d.nth
        BY <2>1, <3>1 DEF IsLatest
      <4>2. CASE d.kind = c.kind
        <5>1. c.nth # 0
          BY <2>3, CmdFields DEF is_binding, Binding
        <5>2. e.nth <= c.nth
          BY <5>1, <1>5, <1>6 DEF Follow
        <5> QED BY <5>2, <4>1, <4>2, <2>3, <1>8
      <4>3. CASE d.kind # c.kind
        BY <4>1, <4>3, <2>3, <1>8
      <4> QED BY <4>2, <4>3
    <3>2. c \in Elements(b) /\ c.nth <= c.nth
      BY <2>3, <1>6, <1>8
    <3>3. \A d, e \in Elements(b) : d.kind = e.kind => d = e
      BY <2>1, <2>3, <1>8 DEF IsLatest
    <3> QED BY <3>1, <3>2, <3>3 DEF IsLatest
  <2> QED BY <2>2, <2>3
<1>15. BindingIsLatest'
  BY <1>1, <1>3, <1>7, <1>12, <1>14 DEF BindingIsLatest, IsLatest
<1>16. Until(Elements(typed') \union Out' \union Elements(unsent'), doings)
  BY <1>1, <1>5, <1>10, <1>12 DEF Until
<1>17. Follow(Out' \union Elements(unsent'), Elements(typed'))
  <2>1. Follow({c}, Elements(Tail(typed)))
    BY <1>4, <1>6 DEF Follow
  <2> QED BY <2>1, <1>1, <1>5, <1>10, <1>12 DEF Follow
<1>18. Follow(Elements(b), Elements(unsent'))
  <2>1. CASE is_binding(c)
    BY <2>1, <1>10 DEF Follow
  <2>2. CASE ~is_binding(c)
    BY <2>2, <1>2, <1>5, <1>8, <1>10 DEF Follow
  <2> QED BY <2>1, <2>2
<1>19. Follow(Elements(b), {e \in Elements(resend') : e.kind = "Prompt"})
  BY <1>11 DEF Follow
<1>20. binding' = b /\ typed' = Tail(typed) /\ c = Head(typed)
  BY <1>1, <1>3, <1>7
<1>21. c.nth <= doings
  BY <1>5 DEF Until
<1> QED BY <1>4, <1>5, <1>8, <1>9, <1>10, <1>11, <1>13, <1>15, <1>16, <1>17, <1>18, <1>19, <1>20, <1>21

\* A command sent on the socket.
LEMMA SentOn ==
  ASSUME WebInv, link = "up", resend = <<>>, resend' = <<>>, link' = link, socket' = socket,
         doings' = doings, NEW c \in Cmds, up' = [up EXCEPT ![socket] = Append(@, c)]
  PROVE  /\ socket \in Sockets /\ up' \in [Sockets -> Seq(Cmds)]
         /\ \A s \in Sockets : Live(s) <=> s = socket
         /\ \A s \in Sockets : s # socket => up'[s] = up[s]
         /\ \A s \in Sockets : Elements(up'[s]) \subseteq Elements(up[s]) \union {c}
         /\ \A s \in Sockets :
              IF Live(s) THEN Line(s)' = Append(Line(s), c) /\ Coming(s)' = {doings + 1}
              ELSE Line(s)' = Line(s) /\ Coming(s)' = {}
<1>1. socket \in Sockets /\ up \in [Sockets -> Seq(Cmds)]
  BY DEF WebInv, WebTypeOK
<1>2. PICK q \in Seq(Cmds) : q = up[socket]
  BY <1>1
<1>3. PICK r \in Seq(Cmds) : r = Append(q, c) /\ Elements(r) = Elements(q) \union {c}
  <2>1. Append(q, c) \in Seq(Cmds) /\ Elements(Append(q, c)) = Elements(q) \union {c}
    BY Appended
  <2> QED BY <2>1
<1>4. \A s \in Sockets : up'[s] = IF s = socket THEN r ELSE up[s]
  BY <1>1, <1>2, <1>3
<1>5. q \o <<>> = q /\ r \o <<>> = r
  BY ConcatEmptySeq
<1>6. \A s \in Sockets : Live(s) <=> s = socket
  BY DEF Live
<1>7. Line(socket) = q /\ \A s \in Sockets : s # socket => Line(s) = up[s]
  BY <1>2, <1>5 DEF Line, Live
<1>8. \A s \in Sockets : /\ Line(s)' = IF s = socket THEN r ELSE up[s]
                         /\ Coming(s)' = IF s = socket THEN {doings + 1} ELSE {}
  BY <1>4, <1>5 DEF Line, Live, Coming
<1>9. up' \in [Sockets -> Seq(Cmds)]
  BY <1>1, <1>2, <1>3
<1> QED BY <1>1, <1>2, <1>3, <1>4, <1>6, <1>7, <1>8, <1>9

LEMMA TakeUpStep ==
  ASSUME WebInv, TakeUp
  PROVE  WebInv'
<1>1. /\ link # "down" /\ resend = <<>> /\ typed # <<>> /\ typed' = Tail(typed)
      /\ signingIn' = (signingIn \/ Head(typed).kind = "Authenticate")
      /\ binding' = Bound(binding, Head(typed))
      /\ \/ Sent(Head(typed)) /\ unsent' = unsent
         \/ Fails /\ unsent' = IF is_binding(Head(typed)) THEN unsent ELSE Append(unsent, Head(typed))
      /\ doings' = doings /\ resend' = <<>> /\ socket' = socket /\ down' = down /\ UNCHANGED daemonVars
  BY DEF TakeUp
<1>2. /\ authOn' = authOn /\ user' = user /\ session' = session /\ accepted' = accepted
      /\ unplaced' = unplaced /\ ran' = ran
  BY <1>1 DEF daemonVars
<1>3. /\ link \in {"up", "cut"} /\ socket \in Sockets /\ unsent = <<>> /\ up \in [Sockets -> Seq(Cmds)]
      /\ signingIn \in BOOLEAN /\ typed \in Seq(Cmds)
  BY <1>1 DEF WebInv, WebTypeOK, ClientInOrder
<1>4. PICK c \in Cmds : c = Head(typed)
  BY <1>1, <1>3, Shortened
<1>5. unsent' = <<>> \/ (~is_binding(c) /\ unsent' = <<c>>)
  <2>1. Append(<<>>, c) = <<c>>
    OBVIOUS
  <2> QED BY <2>1, <1>1, <1>3, <1>4
<1>6. Elements(binding') \subseteq Elements(binding) \union {c}
  <2>1. binding \in Seq(Sels \union Auths)
    BY DEF WebInv, WebTypeOK
  <2>2. PICK b : b = Bound(binding, c)
    OBVIOUS
  <2>3. ~is_binding(c) => b = binding
    BY <2>1, <2>2, BoundIs
  <2>4. is_binding(c) => Elements(b) = {e \in Elements(binding) : e.kind # c.kind} \union {c}
    BY <2>1, <2>2, BoundIs
  <2>5. binding' = b
    BY <2>2, <1>1, <1>4
  <2> QED BY <2>3, <2>4, <2>5
<1>7. Elements(resend') = {} /\ (signingIn' \in BOOLEAN)
  BY <1>1, <1>3 DEF Elements
<1>8. ASSUME Out' \subseteq Out \union {c}, InPlace', \A s \in Sockets : InOrder(Line(s)'),
             up' \in [Sockets -> Seq(Cmds)], Unopened', PageWillBe',
             link' \in {"up", "cut", "down"}, link = link' \/ link = "cut", link' # "down" => unsent' = <<>>
      PROVE  WebInv'
  <2>1. Taking
    BY <1>1, <1>4, <1>5, <1>8 DEF Taking
  <2>2. /\ typed' \in Seq(Cmds) /\ binding' \in Seq(Sels \union Auths)
        /\ unsent' \in Seq(Prompts \union {ListTurns}) /\ resend' \in Seq(Cmds)
        /\ OneOfEach' /\ BindingIsLatest'
        /\ InOrder(typed') /\ InOrder(binding') /\ InOrder(unsent') /\ InOrder(resend')
        /\ Until(Elements(typed') \union Out' \union Elements(unsent'), doings)
        /\ Follow(Out' \union Elements(unsent'), Elements(typed'))
        /\ Follow(Elements(binding'), Elements(unsent'))
        /\ Follow(Elements(binding'), {e \in Elements(resend') : e.kind = "Prompt"})
    BY <2>1, TakenUp
  <2>3. WebTypeOK'
    BY <2>2, <1>1, <1>2, <1>3, <1>7, <1>8 DEF WebInv, WebTypeOK
  <2>4. link' # "up" => down' = <<>>
    BY <1>1, <1>8 DEF WebInv, ClientInOrder
  <2>5. ClientInOrder'
    BY <2>2, <2>4, <1>1, <1>8 DEF ClientInOrder
  <2> QED BY <2>2, <2>3, <2>5, <1>1, <1>8, DaemonRests DEF WebInv
<1>9. c.nth <= doings /\ Follow(Out, {c})
  <2>1. c \in Elements(typed)
    BY <1>1, <1>3, <1>4, Shortened
  <2> QED BY <2>1 DEF WebInv, ClientInOrder, Until, Follow
<1>10. ASSUME link = "up", up' = [up EXCEPT ![socket] = Append(@, c)], link' = link, unsent' = unsent
       PROVE  WebInv'
  <2>1. /\ up' \in [Sockets -> Seq(Cmds)]
        /\ \A s \in Sockets : Live(s) <=> s = socket
        /\ \A s \in Sockets : s # socket => up'[s] = up[s]
        /\ \A s \in Sockets : Elements(up'[s]) \subseteq Elements(up[s]) \union {c}
        /\ \A s \in Sockets :
             IF Live(s) THEN Line(s)' = Append(Line(s), c) /\ Coming(s)' = {doings + 1}
             ELSE Line(s)' = Line(s) /\ Coming(s)' = {}
    BY <1>1, <1>10, SentOn
  <2>2. Out' \subseteq Out \union {c}
    BY <2>1, <1>2, <1>6, <1>7 DEF Out
  <2>3. InPlace' /\ \A s \in Sockets : InOrder(Line(s)')
    BY <2>1, <2>2, <1>1, <1>9, LinesExtended
  <2>4. Unopened'
    <3>1. \A s \in Sockets : s > socket => s # socket
      BY <1>3 DEF Sockets
    <3> QED BY <3>1, <2>1, <1>1, <1>2 DEF WebInv, Unopened
  <2>5. PageWillBe'
    <3>1. Line(socket)' = Append(Line(socket), c) /\ Line(socket) \in Seq(Cmds)
      BY <2>1, <1>1, <1>3, LinesSound
    <3>2. /\ Refused(socket)' = Refused(socket) /\ Refused(socket) \in BOOLEAN
          /\ Selects(binding) \in BOOLEAN /\ Selects(binding') \in BOOLEAN /\ (down # <<>>) \in BOOLEAN
      <4>1. authOn \in BOOLEAN
        BY DEF WebInv, WebTypeOK
      <4> QED BY <4>1, <1>1, <1>2 DEF Refused, Selects
    <3>3. /\ Selects(binding') => Selects(binding) \/ c.kind = "SelectRepo"
          /\ c.kind = "Authenticate" => signingIn'
          /\ signingIn => signingIn'
      <4>1. Elements(binding') \subseteq Elements(binding) \union {c}
        BY <1>6
      <4> QED BY <4>1, <1>1, <1>4, SelectsIn
    <3>4. Binds(authOn, Line(socket), Refused(socket), Selects(binding), down # <<>>, signingIn)
          => Binds(authOn, Append(Line(socket), c), Refused(socket), Selects(binding'), down # <<>>, signingIn')
      <4>1. PICK rf \in BOOLEAN : rf = Refused(socket)
        BY <3>2
      <4>2. PICK sel \in BOOLEAN : sel = Selects(binding)
        BY <3>2
      <4>3. PICK sel2 \in BOOLEAN : sel2 = Selects(binding')
        BY <3>2
      <4>4. PICK hears \in BOOLEAN : hears = (down # <<>>)
        BY <3>2
      <4>5. PICK signing \in BOOLEAN : signing = signingIn
        BY <1>3
      <4>6. PICK signing2 \in BOOLEAN : signing2 = signingIn'
        BY <1>7
      <4>7. PICK q \in Seq(Cmds) : q = Line(socket)
        BY <3>1
      <4>8. /\ sel2 => sel \/ c.kind = "SelectRepo"
            /\ c.kind = "Authenticate" => signing2
            /\ signing => signing2
        BY <3>3, <4>2, <4>3, <4>5, <4>6
      <4>9. Binds(authOn, q, rf, sel, hears, signing)
            => Binds(authOn, Append(q, c), rf, sel2, hears, signing2)
        BY <4>8, BindsAppend
      <4> QED BY <4>1, <4>2, <4>3, <4>4, <4>5, <4>6, <4>7, <4>9
    <3> QED BY <3>1, <3>2, <3>4, <1>1, <1>2, <1>10 DEF WebInv, PageWillBe
  <2> QED BY <2>1, <2>2, <2>3, <2>4, <2>5, <1>3, <1>8, <1>10
<1>11. ASSUME link = "cut", up' = up, link' \in {"cut", "down"}, link' = "down" \/ unsent' = unsent
       PROVE  WebInv'
  <2>1. \A s \in Sockets : ~Live(s) /\ Line(s)' = Line(s) /\ Coming(s)' = {}
    BY <1>1, <1>11 DEF Line, Live, Coming
  <2>2. Out' \subseteq Out \union {c}
    BY <1>2, <1>6, <1>7, <1>11 DEF Out
  <2>3. InPlace' /\ \A s \in Sockets : InOrder(Line(s)')
    BY <2>1, <2>2, <1>1, <1>9, LinesExtended
  <2>4. Unopened'
    BY <1>1, <1>2, <1>11 DEF WebInv, Unopened
  <2>5. PageWillBe'
    BY <1>11 DEF PageWillBe
  <2> QED BY <2>2, <2>3, <2>4, <2>5, <1>3, <1>8, <1>11
<1> QED BY <1>1, <1>3, <1>4, <1>10, <1>11 DEF Sent, Fails

LEMMA ReceiveStep ==
  ASSUME WebInv, Receive
  PROVE  WebInv'
<1>1. /\ link = "up" /\ resend = <<>> /\ down # <<>> /\ down' = Tail(down) /\ signingIn' = FALSE
      /\ up' = [up EXCEPT ![socket] = IF signingIn THEN @ \o after_sign_in(binding) ELSE @]
      /\ typed' = typed /\ doings' = doings /\ binding' = binding /\ unsent' = unsent /\ resend' = <<>>
      /\ link' = link /\ socket' = socket /\ UNCHANGED daemonVars
  BY DEF Receive
<1>2. /\ authOn' = authOn /\ user' = user /\ session' = session /\ accepted' = accepted
      /\ unplaced' = unplaced /\ ran' = ran
  BY <1>1 DEF daemonVars
<1>3. /\ socket \in Sockets /\ up \in [Sockets -> Seq(Cmds)] /\ signingIn \in BOOLEAN
      /\ down \in Seq({"AuthOk"}) /\ doings \in Nat /\ authOn \in BOOLEAN
  BY <1>1 DEF WebInv, WebTypeOK
<1>4. ListTurns \in Cmds /\ ListTurns.nth = 0 /\ ~is_binding(ListTurns)
  BY DEF Cmds, ListTurns, is_binding, Binding
<1>5. /\ ListTurns.nth <= doings /\ Follow(Out, {ListTurns})
  BY <1>3, <1>4 DEF Follow
<1>6. PICK q \in Seq(Cmds) : q = Line(socket) /\ q = up[socket]
  <2>1. up[socket] \in Seq(Cmds) /\ up[socket] \o <<>> = up[socket]
    BY <1>3, ConcatEmptySeq
  <2> QED BY <2>1, <1>1 DEF Line, Live
<1>7. ASSUME Out' \subseteq Out \union {ListTurns}, InPlace', \A s \in Sockets : InOrder(Line(s)'),
             up' \in [Sockets -> Seq(Cmds)], Unopened',
             Line(socket)' = IF signingIn /\ ~Selects(binding) THEN Append(q, ListTurns) ELSE q
      PROVE  WebInv'
  <2>1. WebTypeOK'
    <3>1. down' \in Seq({"AuthOk"})
      BY <1>1, <1>3
    <3> QED BY <3>1, <1>1, <1>2, <1>7 DEF WebInv, WebTypeOK
  <2>2. Out' \in SUBSET Cmds /\ \A e \in Out' : e \in Out \/ e.nth = 0
    BY <1>4, <1>7, LinesSound
  <2>3. OneOfEach'
    BY <2>2, <1>1 DEF WebInv, OneOfEach, Distinct
  <2>4. BindingIsLatest'
    BY <1>1, <1>4, <1>7 DEF WebInv, BindingIsLatest, IsLatest
  <2>5. ClientInOrder'
    <3>1. Until(Elements(typed) \union Out' \union Elements(unsent), doings)
      BY <2>2, <1>3 DEF WebInv, ClientInOrder, Until
    <3>2. Follow(Out' \union Elements(unsent), Elements(typed))
      <4>1. \A e \in Elements(typed) : e.nth \in Nat
        BY ElementsIn, CmdFields DEF WebInv, WebTypeOK
      <4> QED BY <4>1, <2>2 DEF WebInv, ClientInOrder, Follow
    <3> QED BY <3>1, <3>2, <1>1, <1>7 DEF WebInv, ClientInOrder
  <2>6. PageWillBe'
    <3>1. ~Refused(socket) /\ Refused(socket)' = Refused(socket)
      BY <1>1, <1>2 DEF WebInv, PageWillBe, Refused
    <3>2. Selects(binding) \in BOOLEAN /\ (down # <<>>) \in BOOLEAN /\ (down' # <<>>) \in BOOLEAN
      BY DEF Selects
    <3>3. /\ Refused(socket) = FALSE
          /\ Binds(authOn, q, FALSE, Selects(binding), down # <<>>, signingIn)
             => Binds(authOn, Line(socket)', FALSE, Selects(binding), down' # <<>>, FALSE)
      <4>1. Refused(socket) = FALSE
        BY <3>1, <1>3 DEF Refused
      <4>2. PICK sel \in BOOLEAN : sel = Selects(binding)
        BY <3>2
      <4>3. PICK hears \in BOOLEAN : hears = (down # <<>>)
        BY <3>2
      <4>4. PICK hears2 \in BOOLEAN : hears2 = (down' # <<>>)
        BY <3>2
      <4>5. PICK signing \in BOOLEAN : signing = signingIn
        BY <1>3
      <4>6. PICK r : r = Line(socket)' /\ r = IF signing /\ ~sel THEN Append(q, ListTurns) ELSE q
        BY <4>2, <4>5, <1>7
      <4>7. ASSUME Binds(authOn, q, FALSE, sel, hears, signing)
            PROVE  Binds(authOn, r, FALSE, sel, hears2, FALSE)
        <5>1. ListTurns \in Cmds /\ q \in Seq(Cmds)
          BY <1>4
        <5>2. PICK on : on = authOn
          OBVIOUS
        <5>3. Binds(on, q, FALSE, sel, hears, signing)
          BY <4>7, <5>2
        <5>4. r = IF signing /\ ~sel THEN Append(q, ListTurns) ELSE q
          BY <4>6
        <5>5. IF signing /\ ~sel THEN Binds(on, Append(q, ListTurns), FALSE, sel, hears2, FALSE)
              ELSE Binds(on, q, FALSE, sel, hears2, FALSE)
          BY <5>1, <5>3, BindsHeard
        <5> QED BY <5>2, <5>4, <5>5
      <4> QED BY <4>1, <4>2, <4>3, <4>4, <4>5, <4>6, <4>7
    <3> QED BY <3>1, <3>3, <1>1, <1>2, <1>6 DEF WebInv, PageWillBe
  <2> QED BY <2>1, <2>3, <2>4, <2>5, <2>6, <1>1, <1>7, DaemonRests DEF WebInv
<1>8. CASE signingIn /\ ~Selects(binding)
  <2>1. after_sign_in(binding) = <<ListTurns>> /\ up[socket] \o <<ListTurns>> = Append(up[socket], ListTurns)
    BY <1>3, <1>4, <1>8, AppendIsConcat DEF after_sign_in
  <2>2. up' = [up EXCEPT ![socket] = Append(@, ListTurns)]
    BY <2>1, <1>1, <1>8
  <2>3. /\ up' \in [Sockets -> Seq(Cmds)]
        /\ \A s \in Sockets : Live(s) <=> s = socket
        /\ \A s \in Sockets : s # socket => up'[s] = up[s]
        /\ \A s \in Sockets : Elements(up'[s]) \subseteq Elements(up[s]) \union {ListTurns}
        /\ \A s \in Sockets :
             IF Live(s) THEN Line(s)' = Append(Line(s), ListTurns) /\ Coming(s)' = {doings + 1}
             ELSE Line(s)' = Line(s) /\ Coming(s)' = {}
    BY <2>2, <1>1, <1>4, SentOn
  <2>4. Out' \subseteq Out \union {ListTurns}
    BY <2>3, <1>1, <1>2 DEF Out
  <2>5. InPlace' /\ \A s \in Sockets : InOrder(Line(s)')
    BY <2>3, <2>4, <1>1, <1>4, <1>5, LinesExtended
  <2>6. Unopened'
    <3>1. \A s \in Sockets : s > socket => s # socket
      BY <1>3 DEF Sockets
    <3> QED BY <3>1, <2>3, <1>1, <1>2 DEF WebInv, Unopened
  <2>7. Line(socket)' = Append(q, ListTurns)
    BY <2>3, <1>1, <1>3, <1>6
  <2> QED BY <2>3, <2>4, <2>5, <2>6, <2>7, <1>7, <1>8
<1>9. CASE ~(signingIn /\ ~Selects(binding))
  <2>1. up' = up
    <3>1. up[socket] \o <<>> = up[socket]
      BY <1>3, ConcatEmptySeq
    <3>2. up' = [up EXCEPT ![socket] = up[socket]]
      BY <3>1, <1>1, <1>9 DEF after_sign_in
    <3> QED BY <3>2, <1>3
  <2>2. \A s \in Sockets : Line(s)' = Line(s) /\ Coming(s)' = Coming(s)
    BY <2>1, <1>1 DEF Line, Live, Coming
  <2>3. Out' = Out
    BY <2>1, <1>1, <1>2 DEF Out
  <2>4. InPlace' /\ \A s \in Sockets : InOrder(Line(s)')
    <3>1. InPlace'
      BY <2>2, <2>3, <1>1, LinesSound, InPlaceSame DEF Only
    <3> QED BY <3>1, <2>2 DEF WebInv, ClientInOrder
  <2>5. Unopened' /\ up' \in [Sockets -> Seq(Cmds)]
    BY <2>1, <1>1, <1>2, <1>3 DEF WebInv, Unopened
  <2>6. Line(socket)' = q
    BY <2>2, <1>1, <1>3, <1>6
  <2> QED BY <2>3, <2>4, <2>5, <2>6, <1>7, <1>9
<1> QED BY <1>8, <1>9

-----------------------------------------------------------------------------
(* The daemon's steps.                                                     *)

LEMMA TailJoined ==
  ASSUME NEW S, NEW p \in Seq(S), NEW q \in Seq(S), p # <<>>
  PROVE  p \o q # <<>> /\ Head(p \o q) = Head(p) /\ Tail(p \o q) = Tail(p) \o q
<1>1. PICK m \in Nat \ {0}, n \in Nat : m = Len(p) /\ n = Len(q)
  BY Shortened
<1>2. PICK r : r = p \o q
  OBVIOUS
<1>3. /\ r \in Seq(S) /\ Len(r) = m + n /\ DOMAIN r = 1..m + n
      /\ \A i \in 1..m + n : r[i] = IF i <= m THEN p[i] ELSE q[i - m]
  BY <1>1, <1>2, Joined2
<1>4. r # <<>>
  BY <1>1, <1>3
<1>5. Head(r) = r[1] /\ Head(p) = p[1]
  BY <1>3, <1>4, Shortened
<1>6. 1 \in 1..m + n /\ 1 <= m
  BY <1>1
<1>7. Head(r) = Head(p)
  BY <1>3, <1>5, <1>6
<1>8. PICK u \in Seq(S) : u = Tail(p)
  BY Shortened
<1>9. Len(u) = m - 1 /\ \A i \in 1..m - 1 : u[i] = p[i + 1]
  BY <1>1, <1>8
<1>10. PICK v \in Seq(S) : v = Tail(r)
  BY <1>3, <1>4, Shortened
<1>11. Len(v) = m + n - 1 /\ \A i \in 1..m + n - 1 : v[i] = r[i + 1]
  BY <1>1, <1>3, <1>4, <1>10
<1>12. PICK k \in Nat : k = Len(u) /\ k = m - 1
  <2>1. m - 1 \in Nat
    BY <1>1
  <2> QED BY <2>1, <1>9
<1>13. PICK w : w = u \o q
  OBVIOUS
<1>14. /\ w \in Seq(S) /\ Len(w) = k + n
       /\ \A i \in 1..k + n : w[i] = IF i <= k THEN u[i] ELSE q[i - k]
  BY <1>1, <1>8, <1>12, <1>13, Joined2
<1>15. ASSUME NEW i \in 1..k + n PROVE w[i] = v[i]
  <2>1. i \in 1..m + n - 1 /\ i + 1 \in 1..m + n
    BY <1>12
  <2>2. v[i] = r[i + 1]
    BY <2>1, <1>11
  <2>3. CASE i <= k
    <3>1. i \in 1..m - 1 /\ i + 1 <= m
      BY <2>3, <1>12
    <3>2. w[i] = u[i] /\ r[i + 1] = p[i + 1]
      BY <2>1, <2>3, <3>1, <1>3, <1>14
    <3> QED BY <2>2, <3>1, <3>2, <1>9
  <2>4. CASE ~(i <= k)
    <3>1. ~(i + 1 <= m) /\ (i + 1) - m = i - k
      BY <2>4, <1>12
    <3>2. w[i] = q[i - k] /\ r[i + 1] = q[(i + 1) - m]
      BY <2>1, <2>4, <3>1, <1>3, <1>14
    <3> QED BY <2>2, <3>1, <3>2
  <2> QED BY <2>3, <2>4
<1>16. Len(v) = Len(w)
  BY <1>11, <1>12, <1>14
<1>17. v = w
  BY <1>10, <1>14, <1>15, <1>16, SeqEqual
<1> QED BY <1>2, <1>4, <1>7, <1>8, <1>10, <1>13, <1>17

\* The daemon takes c off the line of s.
Took(s, c) ==
  /\ up[s] # <<>> /\ c = Head(up[s])
  /\ up' = [up EXCEPT ![s] = Tail(@)]
  /\ UNCHANGED <<clientVars, authOn>>
  /\ accepted' \subseteq accepted \union {c}

LEMMA TookOff ==
  ASSUME WebInv, NEW s \in Sockets, NEW c, Took(s, c)
  PROVE  /\ s <= socket /\ c \in Cmds /\ c \in Out
         /\ up' \in [Sockets -> Seq(Cmds)] /\ \A t \in Sockets : t # s => up'[t] = up[t]
         /\ Line(s) \in Seq(Cmds) /\ Line(s) # <<>> /\ c = Head(Line(s)) /\ Line(s)' = Tail(Line(s))
         /\ \A t \in Sockets : t # s => Line(t)' = Line(t)
         /\ \A t \in Sockets : Coming(t)' = Coming(t)
         /\ Out' \subseteq Out /\ Out' \in SUBSET Cmds /\ Only(Out', Out)
         /\ FirstIn(c, Line(s), Line(s)', Coming(s), Out)
         /\ InOrder(Line(s)')
<1>1. /\ up[s] # <<>> /\ c = Head(up[s]) /\ up' = [up EXCEPT ![s] = Tail(@)]
      /\ binding' = binding /\ resend' = resend /\ link' = link /\ socket' = socket /\ doings' = doings
      /\ accepted' \subseteq accepted \union {c}
  BY DEF Took, clientVars
<1>2. up \in [Sockets -> Seq(Cmds)] /\ resend \in Seq(Cmds) /\ socket \in 0..MaxSockets /\ s \in Nat
  BY DEF WebInv, WebTypeOK, Sockets
<1>3. PICK p \in Seq(Cmds) : p = up[s]
  BY <1>2
<1>4. PICK t \in Seq(Cmds) : t = Tail(p) /\ Elements(p) = Elements(t) \union {c} /\ c \in Cmds
  BY <1>1, <1>3, Shortened
<1>5. \A x \in Sockets : up'[x] = IF x = s THEN t ELSE up[x]
  BY <1>1, <1>2, <1>3, <1>4
<1>6. s <= socket
  BY <1>1, <1>2 DEF WebInv, Unopened
<1>7. Elements(up[s]) \subseteq Out
  BY LinesSound
<1>8. c \in Out
  BY <1>3, <1>4, <1>7
<1>9. Out' \subseteq Out
  <2>1. \A x \in Sockets : Elements(up'[x]) \subseteq Elements(up[x])
    BY <1>3, <1>4, <1>5
  <2>2. accepted' \subseteq Out
    BY <1>1, <1>8 DEF Out
  <2> QED BY <2>1, <2>2, <1>1 DEF Out
<1>10. Line(s) # <<>> /\ c = Head(Line(s)) /\ Line(s)' = Tail(Line(s))
  <2>1. CASE Live(s)
    <3>1. p \o resend # <<>> /\ Head(p \o resend) = Head(p) /\ Tail(p \o resend) = t \o resend
      BY <1>1, <1>2, <1>3, <1>4, TailJoined
    <3>2. Line(s) = p \o resend
      BY <2>1, <1>3 DEF Line
    <3>3. Line(s)' = t \o resend
      BY <2>1, <1>1, <1>5 DEF Line, Live
    <3> QED BY <3>1, <3>2, <3>3, <1>1, <1>3
  <2>2. CASE ~Live(s)
    <3>1. Line(s) = p /\ Line(s)' = t
      BY <2>2, <1>1, <1>3, <1>5 DEF Line, Live
    <3> QED BY <3>1, <1>1, <1>3, <1>4
  <2> QED BY <2>1, <2>2
<1>11. /\ \A x \in Sockets : x # s => Line(x)' = Line(x)
       /\ \A x \in Sockets : Coming(x)' = Coming(x)
  BY <1>1, <1>5 DEF Line, Live, Coming
<1>12. Line(s) \in Seq(Cmds) /\ InOrder(Line(s)) /\ \A n \in Coming(s), e \in Out : e.nth < n
  BY LinesSound DEF WebInv, ClientInOrder
<1>13. InOrder(Line(s)') /\ FirstIn(c, Line(s), Line(s)', Coming(s), Out)
  BY <1>10, <1>12, TailInOrder, FirstTaken
<1>14. up' \in [Sockets -> Seq(Cmds)]
  BY <1>1, <1>2, <1>3, <1>4
<1>15. Out' \in SUBSET Cmds /\ Only(Out', Out)
  BY <1>9, LinesSound DEF Only
<1> QED BY <1>4, <1>5, <1>6, <1>8, <1>9, <1>10, <1>11, <1>12, <1>13, <1>14, <1>15

\* Where nothing is placed anew on s, the rest of the invariant follows.
LEMMA DaemonTakes ==
  ASSUME WebInv, NEW s \in Sockets, NEW c, Took(s, c), accepted \subseteq accepted',
         \A e \in accepted' : Allowed(authOn, e) /\ e \in Sels \union Auths,
         \A t \in Sockets : t # s => user'[t] = user[t] /\ session'[t] = session[t],
         unplaced' \in {unplaced, unplaced \union {s}},
         session'[s] # Nobody =>
           session'[s].repo # None /\ session'[s].user = user'[s] /\ ~(authOn /\ user'[s] = None),
         user' \in [Sockets -> User \union {None}],
         session' \in [Sockets -> [user : User \union {None}, repo : Repo \union {DefaultRepo, None}]],
         down' \in Seq({"AuthOk"}), link # "up" => down' = down, ran' \in Seq(Elements(ran')),
         UserIn(authOn, Line(s)', Coming(s), Out', accepted', user'[s]),
         s \in unplaced' \/ RepoIn(authOn, Line(s)', Coming(s), Out', accepted', session'[s]),
         PageWillBe', PlacedUnlessRefused'
  PROVE  WebInv'
<1>1. /\ typed' = typed /\ doings' = doings /\ binding' = binding /\ unsent' = unsent /\ resend' = resend
      /\ signingIn' = signingIn /\ link' = link /\ socket' = socket /\ authOn' = authOn
  BY DEF Took, clientVars
<1>2. /\ s <= socket /\ up' \in [Sockets -> Seq(Cmds)] /\ (\A t \in Sockets : t # s => up'[t] = up[t])
      /\ \A t \in Sockets : t # s => Line(t)' = Line(t)
      /\ \A t \in Sockets : Coming(t)' = Coming(t)
      /\ Out' \subseteq Out /\ Out' \in SUBSET Cmds /\ Only(Out', Out) /\ InOrder(Line(s)')
  BY TookOff
<1>3. WebTypeOK'
  <2>1. unplaced' \subseteq Sockets /\ accepted' \subseteq Sels \union Auths
    BY DEF WebInv, WebTypeOK
  <2> QED BY <2>1, <1>1, <1>2 DEF WebInv, WebTypeOK
<1>4. Unopened'
  <2> SUFFICES ASSUME NEW t \in Sockets, t > socket
               PROVE  up'[t] = <<>> /\ user'[t] = None /\ session'[t] = Nobody /\ t \notin unplaced'
    BY <1>1 DEF Unopened, Nobody
  <2>1. socket \in Nat /\ t \in Nat /\ s \in Nat
    BY DEF WebInv, WebTypeOK, Sockets
  <2>2. t # s
    BY <2>1, <1>2
  <2> QED BY <2>2, <1>2 DEF WebInv, Unopened
<1>5. ClientInOrder'
  <2>1. Until(Elements(typed) \union Out' \union Elements(unsent), doings)
    BY <1>2 DEF Until, WebInv, ClientInOrder
  <2>2. Follow(Out' \union Elements(unsent), Elements(typed))
    BY <1>2 DEF Follow, WebInv, ClientInOrder
  <2>3. \A t \in Sockets : InOrder(Line(t)')
    BY <1>2 DEF WebInv, ClientInOrder
  <2>4. link # "up" => down' = <<>>
    BY DEF WebInv, ClientInOrder
  <2> QED BY <2>1, <2>2, <2>3, <2>4, <1>1 DEF WebInv, ClientInOrder
<1>6. OneOfEach' /\ BindingIsLatest'
  BY <1>1, <1>2 DEF WebInv, OneOfEach, Distinct, BindingIsLatest, IsLatest
<1>7. AcceptedAllowed'
  BY <1>1 DEF AcceptedAllowed
<1>8. Sessions'
  <2> SUFFICES ASSUME NEW t \in Sockets, session'[t] # Nobody
               PROVE  session'[t].repo # None /\ session'[t].user = user'[t] /\ ~(authOn /\ user'[t] = None)
    BY <1>1 DEF Sessions, Refused, Nobody
  <2>1. CASE t # s
    BY <2>1 DEF WebInv, Sessions, Refused
  <2> QED BY <2>1
<1>9. InPlace'
  <2> SUFFICES ASSUME NEW t \in Sockets
               PROVE  PlacedIn(authOn, Line(t)', Coming(t), Out', accepted', session'[t], user'[t], t \in unplaced')
    BY <1>1, <1>2 DEF InPlace
  <2>1. CASE t = s
    BY <2>1 DEF PlacedIn
  <2>2. CASE t # s
    <3>1. PlacedIn(authOn, Line(t), Coming(t), Out, accepted, session[t], user[t], t \in unplaced)
      BY DEF WebInv, InPlace
    <3>2. PlacedIn(authOn, Line(t), Coming(t), Out', accepted, session[t], user[t], t \in unplaced)
      <4>1. Coming(t) \in SUBSET Coming(t)
        OBVIOUS
      <4> QED BY <4>1, <3>1, <1>2, LinesSound, PlacedSame
    <3>3. UserIn(authOn, Line(t), Coming(t), Out', accepted, user[t])
          => UserIn(authOn, Line(t), Coming(t), Out', accepted', user[t])
      BY DEF UserIn, UserBy
    <3>4. RepoIn(authOn, Line(t), Coming(t), Out', accepted, session[t])
          => RepoIn(authOn, Line(t), Coming(t), Out', accepted', session[t])
      BY DEF RepoIn, RepoBy
    <3>5. (t \in unplaced') = (t \in unplaced)
      BY <2>2
    <3>6. PlacedIn(authOn, Line(t), Coming(t), Out', accepted', session[t], user[t], t \in unplaced)
      BY <3>2, <3>3, <3>4 DEF PlacedIn
    <3> QED BY <3>5, <3>6, <2>2, <1>2
  <2> QED BY <2>1, <2>2
<1> QED BY <1>3, <1>4, <1>5, <1>6, <1>7, <1>8, <1>9 DEF WebInv

\* A sign-in.
LEMMA AuthenticatedStep ==
  ASSUME WebInv, NEW s \in Sockets, Authenticated(s)
  PROVE  WebInv'
<1>1. PICK c : c = Head(up[s])
  OBVIOUS
<1>2. PICK ok : ok = (~authOn \/ c.valid)
  OBVIOUS
<1>3. /\ up[s] # <<>> /\ c.kind = "Authenticate" /\ up' = [up EXCEPT ![s] = Tail(@)]
      /\ UNCHANGED <<clientVars, authOn>>
      /\ user' = [user EXCEPT ![s] = IF ok THEN c.user ELSE @]
      /\ session' = [session EXCEPT ![s] = IF ok /\ @ # Nobody THEN [@ EXCEPT !.user = c.user] ELSE @]
      /\ accepted' = IF ok THEN accepted \union {c} ELSE accepted
      /\ down' = IF ok /\ s = socket /\ link = "up" THEN Append(down, "AuthOk") ELSE down
      /\ unplaced' = unplaced /\ ran' = ran
  BY <1>1, <1>2 DEF Authenticated, Takes
<1>4. /\ link' = link /\ socket' = socket /\ binding' = binding /\ signingIn' = signingIn
      /\ authOn' = authOn /\ resend' = resend
  BY <1>3 DEF clientVars
<1>5. Took(s, c) /\ accepted \subseteq accepted'
  BY <1>1, <1>3 DEF Took
<1>6. PICK q \in Seq(Cmds) : q = Line(s)
  BY LinesSound
<1>7. /\ c \in Cmds /\ c \in Out /\ q # <<>> /\ c = Head(q) /\ Line(s)' = Tail(q)
      /\ \A t \in Sockets : t # s => Line(t)' = Line(t)
      /\ Out' \in SUBSET Cmds /\ Only(Out', Out) /\ FirstIn(c, q, Tail(q), Coming(s), Out)
  <2>1. /\ c \in Cmds /\ c \in Out /\ Line(s) # <<>> /\ c = Head(Line(s)) /\ Line(s)' = Tail(Line(s))
        /\ \A t \in Sockets : t # s => Line(t)' = Line(t)
        /\ Out' \in SUBSET Cmds /\ Only(Out', Out) /\ FirstIn(c, Line(s), Line(s)', Coming(s), Out)
    BY <1>5, TookOff
  <2> QED BY <2>1, <1>6
<1>8. /\ user \in [Sockets -> User \union {None}]
      /\ session \in [Sockets -> [user : User \union {None}, repo : Repo \union {DefaultRepo, None}]]
      /\ accepted \subseteq Sels \union Auths /\ authOn \in BOOLEAN /\ signingIn \in BOOLEAN
      /\ ran \in Seq(Elements(ran)) /\ down \in Seq({"AuthOk"})
  BY DEF WebInv, WebTypeOK
<1>9. c \in Auths /\ c.user \in User /\ c.user # None /\ c.valid \in BOOLEAN /\ (ok <=> Allowed(authOn, c))
  <2>1. c \in Auths /\ c.user \in User /\ c.valid \in BOOLEAN
    BY <1>3, <1>7, CmdFields
  <2> QED BY <2>1, <1>2, <1>3, RepoAssumption DEF Allowed
<1>10. /\ Sound(authOn, q, Out, accepted) /\ Coming(s) \in SUBSET (Nat \ {0})
       /\ UserIn(authOn, q, Coming(s), Out, accepted, user[s])
       /\ s \in unplaced \/ RepoIn(authOn, q, Coming(s), Out, accepted, session[s])
  BY <1>6, LinesSound DEF WebInv, InPlace, PlacedIn
<1>11. Doomed(authOn, q) => Doomed(authOn, Tail(q))
  <2>1. c.kind # "SelectRepo"
    BY <1>3
  <2>2. Doomed(authOn, q) =>
          \/ Head(q).kind = "SelectRepo" /\ ~Allowed(authOn, Head(q))
          \/ Head(q).kind = "Authenticate" /\ Doomed(authOn, Tail(q))
    BY <1>7, DoomedTail
  <2> QED BY <2>1, <2>2, <1>7
<1>12. \A t \in Sockets : t # s => user'[t] = user[t] /\ session'[t] = session[t]
  BY <1>3, <1>8
<1>13. link # "up" => down' = down
  BY <1>3
<1>14. ran' \in Seq(Elements(ran'))
  BY <1>3, <1>8
<1>15. PlacedUnlessRefused'
  BY <1>3 DEF WebInv, PlacedUnlessRefused
<1>16. \A e \in accepted' : Allowed(authOn, e) /\ e \in Sels \union Auths
  BY <1>3, <1>8, <1>9 DEF WebInv, AcceptedAllowed
<1>17. /\ ~(c.kind = "SelectRepo" /\ Allowed(authOn, c)) /\ c.kind # "SelectRepo"
       /\ \A e \in accepted : e.kind = "SelectRepo" => e.path \in Repo /\ e.path # None
  BY <1>3, RepoAssumption DEF WebInv, AcceptedAllowed, Allowed
<1>18. unplaced' \in {unplaced, unplaced \union {s}}
  BY <1>3
<1>19. CASE ok
  <2>1. PICK at : at = session[s]
    OBVIOUS
  <2>2. PICK at2 : at2 = IF at # Nobody THEN [at EXCEPT !.user = c.user] ELSE at
    OBVIOUS
  <2>3. /\ at \in [user : User \union {None}, repo : Repo \union {DefaultRepo, None}]
        /\ at # Nobody => at.repo # None /\ at.user = user[s]
    BY <2>1, <1>8 DEF WebInv, Sessions
  <2>4. /\ at # Nobody => at2 = [user |-> c.user, repo |-> at.repo] /\ at2 # Nobody
        /\ at = Nobody => at2 = Nobody
        /\ at2 \in [user : User \union {None}, repo : Repo \union {DefaultRepo, None}]
    <3>1. CASE at = Nobody
      BY <3>1, <2>2, <2>3
    <3>2. CASE at # Nobody
      <4>1. at2 = [user |-> c.user, repo |-> at.repo]
        BY <3>2, <2>2, <2>3
      <4>2. at2 # Nobody
        BY <4>1, <3>2, <2>3 DEF Nobody
      <4> QED BY <4>1, <4>2, <3>2, <2>3, <1>9
    <3> QED BY <3>1, <3>2
  <2>5. /\ user'[s] = c.user /\ session'[s] = at2 /\ accepted' = accepted \union {c}
        /\ user' = [user EXCEPT ![s] = c.user] /\ session' = [session EXCEPT ![s] = at2]
    BY <2>1, <2>2, <1>3, <1>8, <1>19
  <2>6. UserIn(authOn, Tail(q), Coming(s), Out', accepted \union {c}, c.user)
    BY <1>3, <1>7, <1>9, <1>10, <1>19, UserTaken
  <2>7. s \in unplaced \/ RepoIn(authOn, Tail(q), Coming(s), Out', accepted \union {c}, at2)
    <3>1. \A h \in Nat : RepoBy(h, accepted, at) => RepoBy(h, accepted \union {c}, at2)
      <4> SUFFICES ASSUME NEW h \in Nat, RepoBy(h, accepted, at)
                   PROVE  RepoBy(h, accepted \union {c}, at2)
        OBVIOUS
      <4>1. CASE h = 0
        BY <4>1, <2>4 DEF RepoBy
      <4>2. CASE h # 0
        BY <4>2, <2>4 DEF RepoBy
      <4> QED BY <4>1, <4>2
    <3>2. at = Nobody /\ Doomed(authOn, q) => at2 = Nobody /\ Doomed(authOn, Tail(q))
      BY <2>4, <1>11
    <3>3. RepoIn(authOn, q, Coming(s), Out, accepted, at)
          => RepoIn(authOn, Tail(q), Coming(s), Out', accepted \union {c}, at2)
      <4>1. PICK acc2 : acc2 = accepted \union {c}
        OBVIOUS
      <4>2. PICK D \in SUBSET (Nat \ {0}) : D = Coming(s)
        BY <1>10
      <4>3. PICK C2 \in SUBSET Cmds : C2 = Out'
        BY <1>7
      <4>4. \A h \in Nat : RepoBy(h, accepted, at) => RepoBy(h, acc2, at2)
        BY <4>1, <3>1
      <4>5. FirstIn(c, q, Tail(q), D, Out) /\ Only(C2, Out)
        BY <4>2, <4>3, <1>7
      <4>6. RepoIn(authOn, q, D, Out, accepted, at) => RepoIn(authOn, Tail(q), D, C2, acc2, at2)
        BY <4>4, <4>5, <3>2, <1>10, <1>17, RepoPasses
      <4> QED BY <4>1, <4>2, <4>3, <4>6
    <3> QED BY <3>3, <2>1, <1>10
  <2>8. PageWillBe'
    <3>1. CASE s = socket /\ link = "up"
      <4>1. Refused(socket)' = FALSE
        BY <3>1, <2>5, <1>4, <1>8, <1>9 DEF Refused
      <4>2. down' # <<>>
        <5>1. down' = Append(down, "AuthOk") /\ "AuthOk" \in {"AuthOk"}
          BY <3>1, <1>3, <1>19
        <5>2. Len(Append(down, "AuthOk")) = Len(down) + 1 /\ Len(down) \in Nat
          BY <1>8, AppendProperties
        <5> QED BY <5>1, <5>2
      <4>3. session[socket] # Nobody => session'[socket] # Nobody
        BY <3>1, <2>1, <2>4, <2>5
      <4>4. Binds(authOn, q, Refused(socket), Selects(binding), down # <<>>, signingIn)
            => Binds(authOn, Tail(q), FALSE, Selects(binding), TRUE, signingIn)
        <5>1. PICK rf \in BOOLEAN : rf = Refused(socket)
          BY <1>8 DEF Refused
        <5>2. PICK sel \in BOOLEAN : sel = Selects(binding)
          BY DEF Selects
        <5>3. PICK hears \in BOOLEAN : hears = (down # <<>>)
          OBVIOUS
        <5>4. PICK signing \in BOOLEAN : signing = signingIn
          BY <1>8
        <5>5. Head(q).kind = "Authenticate" /\ Allowed(authOn, Head(q))
          BY <1>3, <1>7, <1>9, <1>19
        <5>6. Binds(authOn, q, rf, sel, hears, signing) => Binds(authOn, Tail(q), FALSE, sel, TRUE, signing)
          BY <5>5, <1>7, BindsSignedIn
        <5> QED BY <5>1, <5>2, <5>3, <5>4, <5>6
      <4>5. Line(socket)' = Tail(q) /\ Line(socket) = q /\ (down' # <<>>) = TRUE
        BY <3>1, <4>2, <1>4, <1>6, <1>7
      <4> QED BY <3>1, <4>1, <4>2, <4>3, <4>4, <4>5, <1>3, <1>4 DEF WebInv, PageWillBe
    <3>2. CASE s # socket /\ link = "up"
      <4>1. socket \in Sockets
        BY <3>2 DEF WebInv, WebTypeOK
      <4>2. /\ user'[socket] = user[socket] /\ session'[socket] = session[socket] /\ down' = down
            /\ Line(socket)' = Line(socket)
        BY <3>2, <4>1, <1>3, <1>4, <1>7, <1>12
      <4> QED BY <3>2, <4>2, <1>3, <1>4 DEF WebInv, PageWillBe, Refused, Nobody
    <3>3. CASE link # "up"
      BY <3>3, <1>4 DEF PageWillBe
    <3> QED BY <3>1, <3>2, <3>3
  <2>9. /\ user' \in [Sockets -> User \union {None}]
        /\ session' \in [Sockets -> [user : User \union {None}, repo : Repo \union {DefaultRepo, None}]]
    BY <2>4, <2>5, <1>8, <1>9
  <2>10. session'[s] # Nobody =>
           session'[s].repo # None /\ session'[s].user = user'[s] /\ ~(authOn /\ user'[s] = None)
    BY <2>3, <2>4, <2>5, <1>9
  <2>11. down' \in Seq({"AuthOk"})
    <3>1. "AuthOk" \in {"AuthOk"}
      OBVIOUS
    <3>2. Append(down, "AuthOk") \in Seq({"AuthOk"})
      BY <3>1, <1>8, AppendProperties
    <3> QED BY <3>2, <1>3, <1>8
  <2>12. /\ UserIn(authOn, Line(s)', Coming(s), Out', accepted', user'[s])
         /\ s \in unplaced' \/ RepoIn(authOn, Line(s)', Coming(s), Out', accepted', session'[s])
    BY <2>5, <2>6, <2>7, <1>3, <1>7
  <2> QED BY <2>8, <2>9, <2>10, <2>11, <2>12, <1>5, <1>12, <1>13, <1>14, <1>15, <1>16, <1>18, DaemonTakes
<1>20. CASE ~ok
  <2>1. user' = user /\ session' = session /\ accepted' = accepted /\ down' = down
    BY <1>3, <1>8, <1>20
  <2>2. ~(c.kind = "Authenticate" /\ Allowed(authOn, c))
    BY <1>9, <1>20
  <2>3. UserIn(authOn, Tail(q), Coming(s), Out', accepted, user[s])
    BY <2>2, <1>7, <1>10, UserPasses
  <2>4. s \in unplaced \/ RepoIn(authOn, Tail(q), Coming(s), Out', accepted, session[s])
    BY <1>7, <1>10, <1>11, <1>17, RepoPasses
  <2>5. PageWillBe'
    <3>1. CASE s = socket /\ link = "up"
      <4>1. Binds(authOn, q, Refused(socket), Selects(binding), down # <<>>, signingIn)
            => Binds(authOn, Tail(q), Refused(socket), Selects(binding), down # <<>>, signingIn)
        <5>1. PICK rf \in BOOLEAN : rf = Refused(socket)
          BY <1>8 DEF Refused
        <5>2. PICK sel \in BOOLEAN : sel = Selects(binding)
          BY DEF Selects
        <5>3. PICK hears \in BOOLEAN : hears = (down # <<>>)
          OBVIOUS
        <5>4. PICK signing \in BOOLEAN : signing = signingIn
          BY <1>8
        <5>5. Head(q).kind = "Authenticate" /\ ~Allowed(authOn, Head(q)) /\ Head(q).kind # "SelectRepo"
          BY <2>2, <1>3, <1>7
        <5>6. Binds(authOn, q, rf, sel, hears, signing) => Binds(authOn, Tail(q), rf, sel, hears, signing)
          BY <5>5, <1>7, BindsPassed
        <5> QED BY <5>1, <5>2, <5>3, <5>4, <5>6
      <4>2. Line(socket)' = Tail(q) /\ Line(socket) = q
        BY <3>1, <1>4, <1>6, <1>7
      <4> QED BY <3>1, <4>1, <4>2, <2>1, <1>3, <1>4 DEF WebInv, PageWillBe, Refused
    <3>2. CASE s # socket /\ link = "up"
      <4>1. Line(socket)' = Line(socket)
        BY <3>2, <1>4, <1>7 DEF WebInv, WebTypeOK
      <4> QED BY <3>2, <4>1, <2>1, <1>3, <1>4 DEF WebInv, PageWillBe, Refused, Nobody
    <3>3. CASE link # "up"
      BY <3>3, <1>4 DEF PageWillBe
    <3> QED BY <3>1, <3>2, <3>3
  <2>6. session'[s] # Nobody =>
          session'[s].repo # None /\ session'[s].user = user'[s] /\ ~(authOn /\ user'[s] = None)
    BY <2>1 DEF WebInv, Sessions, Refused
  <2>7. /\ user' \in [Sockets -> User \union {None}] /\ down' \in Seq({"AuthOk"})
        /\ session' \in [Sockets -> [user : User \union {None}, repo : Repo \union {DefaultRepo, None}]]
    BY <2>1, <1>8
  <2>8. /\ UserIn(authOn, Line(s)', Coming(s), Out', accepted', user'[s])
        /\ s \in unplaced' \/ RepoIn(authOn, Line(s)', Coming(s), Out', accepted', session'[s])
    BY <2>1, <2>3, <2>4, <1>3, <1>7
  <2> QED BY <2>5, <2>6, <2>7, <2>8, <1>5, <1>12, <1>13, <1>14, <1>15, <1>16, <1>18, DaemonTakes
<1> QED BY <1>19, <1>20

\* A selection.
LEMMA SelectedStep ==
  ASSUME WebInv, NEW s \in Sockets, Selected(s)
  PROVE  WebInv'
<1>1. PICK c : c = Head(up[s])
  OBVIOUS
<1>2. PICK ok : ok = (~Refused(s) /\ c.path \in Repo)
  OBVIOUS
<1>3. /\ up[s] # <<>> /\ c.kind = "SelectRepo" /\ up' = [up EXCEPT ![s] = Tail(@)]
      /\ UNCHANGED <<clientVars, authOn>>
      /\ session' = [session EXCEPT ![s] = IF ok THEN [user |-> user[s], repo |-> c.path] ELSE @]
      /\ accepted' = IF ok THEN accepted \union {c} ELSE accepted
      /\ unplaced' = IF ~ok /\ session[s] = Nobody THEN unplaced \union {s} ELSE unplaced
      /\ down' = down /\ user' = user /\ ran' = ran
  BY <1>1, <1>2 DEF Selected, Takes
<1>4. /\ link' = link /\ socket' = socket /\ binding' = binding /\ signingIn' = signingIn
      /\ authOn' = authOn
  BY <1>3 DEF clientVars
<1>5. Took(s, c) /\ accepted \subseteq accepted'
  BY <1>1, <1>3 DEF Took
<1>6. PICK q \in Seq(Cmds) : q = Line(s)
  BY LinesSound
<1>7. /\ c \in Cmds /\ c \in Out /\ q # <<>> /\ c = Head(q) /\ Line(s)' = Tail(q)
      /\ \A t \in Sockets : t # s => Line(t)' = Line(t)
      /\ Out' \in SUBSET Cmds /\ Only(Out', Out) /\ FirstIn(c, q, Tail(q), Coming(s), Out)
  <2>1. /\ c \in Cmds /\ c \in Out /\ Line(s) # <<>> /\ c = Head(Line(s)) /\ Line(s)' = Tail(Line(s))
        /\ \A t \in Sockets : t # s => Line(t)' = Line(t)
        /\ Out' \in SUBSET Cmds /\ Only(Out', Out) /\ FirstIn(c, Line(s), Line(s)', Coming(s), Out)
    BY <1>5, TookOff
  <2> QED BY <2>1, <1>6
<1>8. /\ user \in [Sockets -> User \union {None}]
      /\ session \in [Sockets -> [user : User \union {None}, repo : Repo \union {DefaultRepo, None}]]
      /\ accepted \subseteq Sels \union Auths /\ authOn \in BOOLEAN
      /\ ran \in Seq(Elements(ran)) /\ down \in Seq({"AuthOk"})
  BY DEF WebInv, WebTypeOK
<1>9. c \in Sels /\ (c.path \in Repo => Allowed(authOn, c)) /\ (c.path \notin Repo => ~Allowed(authOn, c))
  <2>1. c \in Sels
    BY <1>3, <1>7, CmdFields
  <2> QED BY <2>1, <1>3 DEF Allowed
<1>10. /\ Sound(authOn, q, Out, accepted) /\ Coming(s) \in SUBSET (Nat \ {0})
       /\ UserIn(authOn, q, Coming(s), Out, accepted, user[s])
       /\ s \in unplaced \/ RepoIn(authOn, q, Coming(s), Out, accepted, session[s])
  BY <1>6, LinesSound DEF WebInv, InPlace, PlacedIn
<1>11. \A t \in Sockets : t # s => user'[t] = user[t] /\ session'[t] = session[t]
  BY <1>3, <1>8
<1>12. /\ link # "up" => down' = down
       /\ ran' \in Seq(Elements(ran')) /\ user' \in [Sockets -> User \union {None}]
       /\ down' \in Seq({"AuthOk"}) /\ unplaced' \in {unplaced, unplaced \union {s}}
  BY <1>3, <1>8
<1>13. PlacedUnlessRefused'
  BY <1>3 DEF WebInv, PlacedUnlessRefused
<1>14. \A e \in accepted' : Allowed(authOn, e) /\ e \in Sels \union Auths
  BY <1>2, <1>3, <1>8, <1>9 DEF WebInv, AcceptedAllowed
<1>15. UserIn(authOn, Tail(q), Coming(s), Out', accepted', user'[s])
  <2>1. ~(c.kind = "Authenticate" /\ Allowed(authOn, c))
    BY <1>3
  <2>2. UserIn(authOn, Tail(q), Coming(s), Out', accepted', user[s])
    BY <2>1, <1>5, <1>7, <1>10, UserPasses
  <2> QED BY <2>2, <1>3
\* The page's part, where s is bound or given up.
<1>16. ASSUME session'[s] # Nobody \/ s \in unplaced'
       PROVE  PageWillBe'
  <2>1. CASE s = socket
    BY <2>1, <1>3, <1>4, <1>16 DEF WebInv, PageWillBe, Refused, Nobody
  <2>2. CASE s # socket /\ link = "up"
    <3>1. socket \in Sockets
      BY <2>2 DEF WebInv, WebTypeOK
    <3>2. /\ session'[socket] = session[socket] /\ Line(socket)' = Line(socket)
          /\ socket \in unplaced => socket \in unplaced'
      BY <2>2, <3>1, <1>3, <1>4, <1>7, <1>11
    <3> QED BY <2>2, <3>2, <1>3, <1>4 DEF WebInv, PageWillBe, Refused, Nobody
  <2>3. CASE link # "up"
    BY <2>3, <1>4 DEF PageWillBe
  <2> QED BY <2>1, <2>2, <2>3
<1>17. CASE ok
  <2>1. PICK at2 : at2 = [user |-> user[s], repo |-> c.path]
    OBVIOUS
  <2>2. /\ accepted' = accepted \union {c} /\ unplaced' = unplaced /\ c.path \in Repo /\ ~Refused(s)
        /\ session' = [session EXCEPT ![s] = at2]
    BY <2>1, <1>2, <1>3, <1>17
  <2>3. /\ at2 \in [user : User \union {None}, repo : Repo \union {DefaultRepo, None}]
        /\ at2.repo # None /\ at2.user = user[s] /\ at2 # Nobody /\ session'[s] = at2
    <3>1. c.path # None
      BY <2>2, RepoAssumption
    <3>2. user[s] \in User \union {None} /\ session'[s] = at2
      BY <2>2, <1>8
    <3>3. at2.repo # None /\ at2.user = user[s]
      BY <2>1, <3>1
    <3> QED BY <2>1, <2>2, <3>2, <3>3 DEF Nobody
  <2>4. s \in unplaced \/ RepoIn(authOn, Tail(q), Coming(s), Out', accepted \union {c}, at2)
    <3>1. ~Doomed(authOn, q)
      <4>1. Doomed(authOn, q) =>
              \/ Head(q).kind = "SelectRepo" /\ ~Allowed(authOn, Head(q))
              \/ Head(q).kind = "Authenticate" /\ Doomed(authOn, Tail(q))
        BY <1>7, DoomedTail
      <4>2. Head(q).kind = "SelectRepo" /\ Allowed(authOn, Head(q))
        BY <2>2, <1>3, <1>7, <1>9
      <4> QED BY <4>1, <4>2
    <3>2. c.kind = "SelectRepo" /\ Allowed(authOn, c)
      BY <2>2, <1>3, <1>9
    <3>3. RepoIn(authOn, q, Coming(s), Out, accepted, session[s])
          => RepoIn(authOn, Tail(q), Coming(s), Out', accepted \union {c}, [user |-> user[s], repo |-> c.path])
      BY <3>1, <3>2, <1>7, <1>10, RepoTaken
    <3> QED BY <3>3, <2>1, <1>10
  <2>5. session'[s] # Nobody =>
          session'[s].repo # None /\ session'[s].user = user'[s] /\ ~(authOn /\ user'[s] = None)
    BY <2>2, <2>3, <1>3 DEF Refused
  <2>6. session' \in [Sockets -> [user : User \union {None}, repo : Repo \union {DefaultRepo, None}]]
    BY <2>2, <2>3, <1>8
  <2>7. /\ UserIn(authOn, Line(s)', Coming(s), Out', accepted', user'[s])
        /\ s \in unplaced' \/ RepoIn(authOn, Line(s)', Coming(s), Out', accepted', session'[s])
    BY <2>2, <2>3, <2>4, <1>7, <1>15
  <2>8. PageWillBe'
    BY <2>3, <1>16
  <2> QED BY <2>5, <2>6, <2>7, <2>8, <1>5, <1>11, <1>12, <1>13, <1>14, DaemonTakes
<1>18. CASE ~ok
  <2>1. /\ session' = session /\ accepted' = accepted
        /\ session[s] = Nobody => s \in unplaced'
        /\ session[s] # Nobody => unplaced' = unplaced
    BY <1>3, <1>8, <1>18
  <2>2. s \in unplaced' \/ RepoIn(authOn, Tail(q), Coming(s), Out', accepted, session[s])
    <3>1. CASE session[s] = Nobody
      BY <3>1, <2>1
    <3>2. CASE session[s] # Nobody
      <4>1. c.path \notin Repo
        BY <3>2, <1>2, <1>18 DEF WebInv, Sessions
      <4>2. ~(c.kind = "SelectRepo" /\ Allowed(authOn, c))
        BY <4>1, <1>9
      <4>3. RepoIn(authOn, q, Coming(s), Out, accepted, session[s])
            => RepoIn(authOn, Tail(q), Coming(s), Out', accepted, session[s])
        <5>1. session[s] = Nobody /\ Doomed(authOn, q) => session[s] = Nobody /\ Doomed(authOn, Tail(q))
          BY <3>2
        <5> QED BY <4>2, <5>1, <1>7, <1>10, RepoPasses
      <4> QED BY <4>3, <3>2, <2>1, <1>10
    <3> QED BY <3>1, <3>2
  <2>3. session'[s] # Nobody =>
          session'[s].repo # None /\ session'[s].user = user'[s] /\ ~(authOn /\ user'[s] = None)
    BY <2>1, <1>3 DEF WebInv, Sessions, Refused
  <2>4. session' \in [Sockets -> [user : User \union {None}, repo : Repo \union {DefaultRepo, None}]]
    BY <2>1, <1>8
  <2>5. /\ UserIn(authOn, Line(s)', Coming(s), Out', accepted', user'[s])
        /\ s \in unplaced' \/ RepoIn(authOn, Line(s)', Coming(s), Out', accepted', session'[s])
    BY <2>1, <2>2, <1>7, <1>15
  <2>6. PageWillBe'
    BY <2>1, <1>16
  <2> QED BY <2>3, <2>4, <2>5, <2>6, <1>5, <1>11, <1>12, <1>13, <1>14, DaemonTakes
<1> QED BY <1>17, <1>18

\* The latest of what was accepted before n, when all of it came by h.
LEMMA LatestIs ==
  ASSUME NEW n \in Nat, NEW h \in Nat, h < n, NEW kind,
         \A e \in accepted : e.nth \in Nat \ {0}, Distinct(accepted),
         \A e \in accepted : e.kind = kind /\ e.nth < n => e.nth <= h
  PROVE  /\ h = 0 => Latest(n, kind) = {}
         /\ \A e \in accepted : e.kind = kind /\ e.nth = h => Latest(n, kind) = {e}
<1>1. ASSUME h = 0 PROVE Latest(n, kind) = {}
  BY <1>1 DEF Latest
<1>2. ASSUME NEW e \in accepted, e.kind = kind, e.nth = h
      PROVE  Latest(n, kind) = {e}
  <2>1. e \in Latest(n, kind)
    BY <1>2 DEF Latest
  <2>2. ASSUME NEW d \in Latest(n, kind) PROVE d = e
    <3>1. d \in accepted /\ d.kind = kind /\ d.nth < n /\ e.nth <= d.nth
      BY <1>2 DEF Latest
    <3>2. d.nth = e.nth /\ e.nth # 0
      BY <3>1, <1>2
    <3> QED BY <3>1, <3>2 DEF Distinct
  <2> QED BY <2>1, <2>2
<1> QED BY <1>1, <1>2

\* A prompt at the head of its line finds the latest.
LEMMA PromptFinds ==
  ASSUME WebInv, NEW s \in Sockets, NEW kind \in Binding, NEW q, NEW t, NEW c,
         Sound(authOn, q, Out, accepted), FirstIn(c, q, t, Coming(s), Out), c.kind = "Prompt",
         NEW h \in Nat,
         Reaches(h, May(authOn, kind, Elements(q)), Asked(Elements(q)) \union Coming(s), May(authOn, kind, Out))
  PROVE  /\ h = 0 => Latest(c.nth, kind) = {}
         /\ \A e \in accepted : e.kind = kind /\ e.nth = h => Latest(c.nth, kind) = {e}
<1>1. /\ Elements(q) \subseteq Out /\ Out \subseteq Cmds /\ accepted \subseteq Out
      /\ \A e \in accepted : Allowed(authOn, e)
  BY DEF Sound
<1>2. /\ c \in Elements(q) /\ Elements(q) = Elements(t) \union {c} /\ c \in Cmds
      /\ \A e \in Elements(t) : e.nth # 0 /\ c.nth # 0 => c.nth < e.nth
  BY <1>1 DEF FirstIn
<1>3. c.nth \in Nat \ {0}
  BY <1>2, CmdFields
<1>4. c.nth \in Asked(Elements(q)) /\ h < c.nth
  <2>1. c.nth \in Asked(Elements(q))
    BY <1>2 DEF Asked
  <2> QED BY <2>1 DEF Reaches
<1>5. ASSUME NEW w \in May(authOn, kind, Elements(q)) PROVE c.nth < w
  <2>1. PICK e \in Elements(q) : e.kind = kind /\ w = e.nth
    BY DEF May
  <2>2. e # c /\ e.nth # 0
    BY <2>1, <1>1, CmdFields DEF Binding
  <2> QED BY <2>1, <2>2, <1>2, <1>3
<1>6. ASSUME NEW e \in accepted, e.kind = kind, e.nth < c.nth
      PROVE  e.nth <= h
  <2>1. e.nth \in May(authOn, kind, Out)
    BY <1>1, <1>6 DEF May
  <2>2. e.nth <= h \/ Ahead(e.nth, May(authOn, kind, Elements(q)), Asked(Elements(q)) \union Coming(s))
    BY <2>1 DEF Reaches
  <2>3. ASSUME Ahead(e.nth, May(authOn, kind, Elements(q)), Asked(Elements(q)) \union Coming(s))
        PROVE  FALSE
    <3>1. PICK w \in May(authOn, kind, Elements(q)) : w < c.nth
      BY <2>3, <1>4, <1>6 DEF Ahead
    <3>2. w \in Nat /\ c.nth < w
      BY <1>1, <1>5, MayIn
    <3> QED BY <3>1, <3>2, <1>3
  <2> QED BY <2>2, <2>3
<1>7. \A e \in accepted : e.nth \in Nat \ {0}
  <2>1. accepted \subseteq Sels \union Auths
    BY DEF WebInv, WebTypeOK
  <2> QED BY <2>1 DEF Sels, Auths
<1>8. Distinct(accepted)
  BY <1>1 DEF WebInv, OneOfEach, Distinct
<1>9. PICK n \in Nat : n = c.nth
  BY <1>3
<1>10. h < n /\ \A e \in accepted : e.kind = kind /\ e.nth < n => e.nth <= h
  BY <1>4, <1>6, <1>9
<1>11. /\ h = 0 => Latest(n, kind) = {}
       /\ \A e \in accepted : e.kind = kind /\ e.nth = h => Latest(n, kind) = {e}
  BY <1>7, <1>8, <1>10, LatestIs
<1> QED BY <1>9, <1>11

\* So it runs where its user had placed it.
LEMMA RunsWherePlaced ==
  ASSUME WebInv, NEW s \in Sockets, NEW q, NEW t, NEW c,
         Sound(authOn, q, Out, accepted), FirstIn(c, q, t, Coming(s), Out), c.kind = "Prompt",
         ~Refused(s), UserIn(authOn, q, Coming(s), Out, accepted, user[s]),
         RepoIn(authOn, q, Coming(s), Out, accepted, session[s]), ~Doomed(authOn, q),
         NEW at, at = [user |-> user[s], repo |-> IF session[s] = Nobody THEN DefaultRepo ELSE session[s].repo]
  PROVE  at = Placed(c.nth)
<1>1. "SelectRepo" \in Binding /\ "Authenticate" \in Binding
  BY DEF Binding
<1>2. user[s] = IF Latest(c.nth, "Authenticate") = {} THEN None
                ELSE (CHOOSE e \in Latest(c.nth, "Authenticate") : TRUE).user
  <2>1. PICK h \in Nat :
          /\ UserBy(h, accepted, user[s])
          /\ Reaches(h, May(authOn, "Authenticate", Elements(q)), Asked(Elements(q)) \union Coming(s),
                     May(authOn, "Authenticate", Out))
    BY DEF UserIn, Refused
  <2>2. /\ h = 0 => Latest(c.nth, "Authenticate") = {}
        /\ \A e \in accepted : e.kind = "Authenticate" /\ e.nth = h => Latest(c.nth, "Authenticate") = {e}
    BY <2>1, <1>1, PromptFinds
  <2>3. CASE h = 0
    BY <2>1, <2>2, <2>3 DEF UserBy
  <2>4. CASE h # 0
    <3>1. PICK e \in accepted : e.kind = "Authenticate" /\ e.nth = h /\ user[s] = e.user
      BY <2>1, <2>4 DEF UserBy
    <3>2. Latest(c.nth, "Authenticate") = {e}
      BY <2>2, <3>1
    <3> QED BY <3>1, <3>2
  <2> QED BY <2>3, <2>4
<1>3. at.repo = IF Latest(c.nth, "SelectRepo") = {} THEN DefaultRepo
                ELSE (CHOOSE e \in Latest(c.nth, "SelectRepo") : TRUE).path
  <2>1. PICK h \in Nat :
          /\ RepoBy(h, accepted, session[s])
          /\ Reaches(h, May(authOn, "SelectRepo", Elements(q)), Asked(Elements(q)) \union Coming(s),
                     May(authOn, "SelectRepo", Out))
    BY DEF RepoIn
  <2>2. /\ h = 0 => Latest(c.nth, "SelectRepo") = {}
        /\ \A e \in accepted : e.kind = "SelectRepo" /\ e.nth = h => Latest(c.nth, "SelectRepo") = {e}
    BY <2>1, <1>1, PromptFinds
  <2>3. at.repo = IF session[s] = Nobody THEN DefaultRepo ELSE session[s].repo
    OBVIOUS
  <2>4. CASE h = 0
    BY <2>1, <2>2, <2>3, <2>4 DEF RepoBy
  <2>5. CASE h # 0
    <3>1. PICK e \in accepted : e.kind = "SelectRepo" /\ e.nth = h /\ session[s] # Nobody /\ session[s].repo = e.path
      BY <2>1, <2>5 DEF RepoBy
    <3>2. Latest(c.nth, "SelectRepo") = {e}
      BY <2>2, <3>1
    <3> QED BY <2>3, <3>1, <3>2
  <2> QED BY <2>4, <2>5
<1>4. at = [user |-> user[s], repo |-> at.repo]
  OBVIOUS
<1> QED BY <1>2, <1>3, <1>4 DEF Placed

\* A command about a repository.
LEMMA HandledStep ==
  ASSUME WebInv, NEW s \in Sockets, Handled(s)
  PROVE  WebInv'
<1>1. PICK c : c = Head(up[s])
  OBVIOUS
<1>2. PICK at : at = IF session[s] = Nobody THEN [user |-> user[s], repo |-> DefaultRepo] ELSE session[s]
  OBVIOUS
<1>3. /\ up[s] # <<>> /\ c.kind \in {"Prompt", "ListTurns"} /\ up' = [up EXCEPT ![s] = Tail(@)]
      /\ UNCHANGED <<clientVars, authOn>>
      /\ session' = IF Refused(s) THEN session ELSE [session EXCEPT ![s] = at]
      /\ ran' = IF c.kind = "Prompt" /\ ~Refused(s)
                  THEN Append(ran, [nth |-> c.nth, socket |-> s, at |-> at, placed |-> Placed(c.nth)])
                  ELSE ran
      /\ down' = down /\ user' = user /\ accepted' = accepted /\ unplaced' = unplaced
  BY <1>1, <1>2 DEF Handled, Takes
<1>4. /\ link' = link /\ socket' = socket /\ binding' = binding /\ signingIn' = signingIn
      /\ authOn' = authOn
  BY <1>3 DEF clientVars
<1>5. Took(s, c) /\ accepted \subseteq accepted'
  BY <1>1, <1>3 DEF Took
<1>6. PICK q \in Seq(Cmds) : q = Line(s)
  BY LinesSound
<1>7. /\ c \in Cmds /\ c \in Out /\ q # <<>> /\ c = Head(q) /\ Line(s)' = Tail(q)
      /\ \A t \in Sockets : t # s => Line(t)' = Line(t)
      /\ Out' \in SUBSET Cmds /\ Only(Out', Out) /\ FirstIn(c, q, Tail(q), Coming(s), Out)
  <2>1. /\ c \in Cmds /\ c \in Out /\ Line(s) # <<>> /\ c = Head(Line(s)) /\ Line(s)' = Tail(Line(s))
        /\ \A t \in Sockets : t # s => Line(t)' = Line(t)
        /\ Out' \in SUBSET Cmds /\ Only(Out', Out) /\ FirstIn(c, Line(s), Line(s)', Coming(s), Out)
    BY <1>5, TookOff
  <2> QED BY <2>1, <1>6
<1>8. /\ user \in [Sockets -> User \union {None}]
      /\ session \in [Sockets -> [user : User \union {None}, repo : Repo \union {DefaultRepo, None}]]
      /\ accepted \subseteq Sels \union Auths /\ authOn \in BOOLEAN /\ signingIn \in BOOLEAN
      /\ ran \in Seq(Elements(ran)) /\ down \in Seq({"AuthOk"})
  BY DEF WebInv, WebTypeOK
<1>9. /\ Sound(authOn, q, Out, accepted) /\ Coming(s) \in SUBSET (Nat \ {0})
      /\ UserIn(authOn, q, Coming(s), Out, accepted, user[s])
      /\ s \in unplaced \/ RepoIn(authOn, q, Coming(s), Out, accepted, session[s])
  BY <1>6, LinesSound DEF WebInv, InPlace, PlacedIn
<1>10. ~Doomed(authOn, q)
  <2>1. Doomed(authOn, q) =>
          \/ Head(q).kind = "SelectRepo" /\ ~Allowed(authOn, Head(q))
          \/ Head(q).kind = "Authenticate" /\ Doomed(authOn, Tail(q))
    BY <1>7, DoomedTail
  <2> QED BY <2>1, <1>3, <1>7
<1>11. /\ at = [user |-> user[s], repo |-> IF session[s] = Nobody THEN DefaultRepo ELSE session[s].repo]
       /\ at \in [user : User \union {None}, repo : Repo \union {DefaultRepo, None}]
       /\ at.repo # None /\ at.user = user[s] /\ at # Nobody
  <2>1. CASE session[s] = Nobody
    <3>1. at = [user |-> user[s], repo |-> DefaultRepo] /\ user[s] \in User \union {None} /\ DefaultRepo # None
      BY <2>1, <1>2, <1>8, RepoAssumption
    <3>2. at.repo = DefaultRepo /\ Nobody.repo = None
      BY <3>1 DEF Nobody
    <3> QED BY <2>1, <3>1, <3>2
  <2>2. CASE session[s] # Nobody
    <3>1. at = session[s] /\ at.repo # None /\ at.user = user[s]
      BY <2>2, <1>2 DEF WebInv, Sessions
    <3>2. at \in [user : User \union {None}, repo : Repo \union {DefaultRepo, None}]
      BY <3>1, <1>8
    <3>3. at = [user |-> at.user, repo |-> at.repo]
      BY <3>2
    <3> QED BY <2>2, <3>1, <3>2, <3>3
  <2> QED BY <2>1, <2>2
<1>12. \A t \in Sockets : t # s => user'[t] = user[t] /\ session'[t] = session[t]
  BY <1>3, <1>8
<1>13. /\ link # "up" => down' = down
       /\ user' \in [Sockets -> User \union {None}]
       /\ down' \in Seq({"AuthOk"}) /\ unplaced' \in {unplaced, unplaced \union {s}}
  BY <1>3, <1>8
<1>14. \A e \in accepted' : Allowed(authOn, e) /\ e \in Sels \union Auths
  BY <1>3, <1>8 DEF WebInv, AcceptedAllowed
<1>15. session'[s] = IF Refused(s) THEN session[s] ELSE at
  BY <1>3, <1>8
<1>16. UserIn(authOn, Tail(q), Coming(s), Out', accepted', user'[s])
  <2>1. ~(c.kind = "Authenticate" /\ Allowed(authOn, c))
    BY <1>3
  <2>2. UserIn(authOn, Tail(q), Coming(s), Out', accepted', user[s])
    BY <2>1, <1>5, <1>7, <1>9, UserPasses
  <2> QED BY <2>2, <1>3
<1>17. s \in unplaced \/ RepoIn(authOn, Tail(q), Coming(s), Out', accepted, session'[s])
  <2>1. PICK at1 : at1 = session[s]
    OBVIOUS
  <2>2. PICK at2 : at2 = session'[s]
    OBVIOUS
  <2>3. \A h \in Nat : RepoBy(h, accepted, at1) => RepoBy(h, accepted, at2)
    <3> SUFFICES ASSUME NEW h \in Nat, RepoBy(h, accepted, at1)
                 PROVE  RepoBy(h, accepted, at2)
      OBVIOUS
    <3>1. CASE Refused(s)
      BY <3>1, <2>1, <2>2, <1>15
    <3>2. CASE ~Refused(s) /\ at1 = Nobody
      <4>1. h = 0
        BY <3>2 DEF RepoBy
      <4>2. at = [user |-> user[s], repo |-> DefaultRepo]
        BY <3>2, <2>1, <1>2
      <4>3. at2.repo = DefaultRepo
        BY <4>2, <3>2, <2>2, <1>15
      <4> QED BY <4>1, <4>3 DEF RepoBy
    <3>3. CASE ~Refused(s) /\ at1 # Nobody
      BY <3>3, <2>1, <2>2, <1>2, <1>15
    <3> QED BY <3>1, <3>2, <3>3
  <2>4. ~(c.kind = "SelectRepo" /\ Allowed(authOn, c))
    BY <1>3
  <2>5. RepoIn(authOn, q, Coming(s), Out, accepted, at1)
        => RepoIn(authOn, Tail(q), Coming(s), Out', accepted, at2)
    <3>1. at1 = Nobody /\ Doomed(authOn, q) => at2 = Nobody /\ Doomed(authOn, Tail(q))
      BY <1>10
    <3> QED BY <3>1, <2>3, <2>4, <1>7, <1>9, RepoPasses
  <2> QED BY <2>1, <2>2, <2>5, <1>9
<1>18. PageWillBe'
  <2>1. CASE s = socket /\ link = "up" /\ Refused(s)
    <3>1. Binds(authOn, q, Refused(socket), Selects(binding), down # <<>>, signingIn)
          => Binds(authOn, Tail(q), Refused(socket), Selects(binding), down # <<>>, signingIn)
      <4>1. PICK rf \in BOOLEAN : rf = Refused(socket)
        BY <1>8 DEF Refused
      <4>2. PICK sel \in BOOLEAN : sel = Selects(binding)
        BY DEF Selects
      <4>3. PICK hears \in BOOLEAN : hears = (down # <<>>)
        OBVIOUS
      <4>4. PICK signing \in BOOLEAN : signing = signingIn
        BY <1>8
      <4>5. /\ Head(q).kind # "SelectRepo" /\ ~(Head(q).kind = "Authenticate" /\ Allowed(authOn, Head(q)))
            /\ rf \/ Head(q).kind = "Authenticate"
        BY <2>1, <4>1, <1>3, <1>7
      <4>6. Binds(authOn, q, rf, sel, hears, signing) => Binds(authOn, Tail(q), rf, sel, hears, signing)
        BY <4>5, <1>7, BindsPassed
      <4> QED BY <4>1, <4>2, <4>3, <4>4, <4>6
    <3>2. Line(socket)' = Tail(q) /\ Line(socket) = q /\ session' = session
      BY <2>1, <1>3, <1>4, <1>6, <1>7
    <3>3. Refused(socket)' = Refused(socket) /\ unplaced' = unplaced /\ down' = down
      BY <1>3, <1>4 DEF Refused
    <3>4. /\ down # <<>> => ~Refused(socket)
          /\ \/ session[socket] # Nobody \/ socket \in unplaced
             \/ Binds(authOn, q, Refused(socket), Selects(binding), down # <<>>, signingIn)
      BY <2>1, <3>2 DEF WebInv, PageWillBe
    <3> QED BY <3>1, <3>2, <3>3, <3>4, <1>4 DEF PageWillBe, Nobody
  <2>2. CASE s = socket /\ link = "up" /\ ~Refused(s)
    <3>1. session'[socket] # Nobody /\ ~Refused(socket)'
      BY <2>2, <1>3, <1>4, <1>11, <1>15 DEF Refused
    <3> QED BY <3>1, <1>4 DEF PageWillBe, Nobody
  <2>3. CASE s # socket /\ link = "up"
    <3>1. socket \in Sockets
      BY <2>3 DEF WebInv, WebTypeOK
    <3>2. session'[socket] = session[socket] /\ Line(socket)' = Line(socket)
      BY <2>3, <3>1, <1>3, <1>4, <1>7, <1>12
    <3> QED BY <2>3, <3>2, <1>3, <1>4 DEF WebInv, PageWillBe, Refused, Nobody
  <2>4. CASE link # "up"
    BY <2>4, <1>4 DEF PageWillBe
  <2> QED BY <2>1, <2>2, <2>3, <2>4
<1>19. ran' \in Seq(Elements(ran')) /\ PlacedUnlessRefused'
  <2>1. CASE c.kind = "Prompt" /\ ~Refused(s)
    <3>1. PICK r : r = [nth |-> c.nth, socket |-> s, at |-> at, placed |-> Placed(c.nth)]
      OBVIOUS
    <3>2. PICK S : S = Elements(ran) \union {r}
      OBVIOUS
    <3>3. ran \in Seq(S) /\ r \in S
      <4>1. Elements(ran) \subseteq S
        BY <3>2
      <4> QED BY <3>2, <4>1, <1>8
    <3>4. PICK n \in Nat : n = Len(ran)
      BY <3>3
    <3>5. PICK u : u = Append(ran, r)
      OBVIOUS
    <3>6. /\ u \in Seq(S) /\ Elements(u) = S /\ DOMAIN u = 1..n + 1 /\ u[n + 1] = r
          /\ \A i \in 1..n : u[i] = ran[i]
      <4>1. DOMAIN ran = 1..n
        BY <3>3, <3>4
      <4>2. /\ Append(ran, r) \in Seq(S)
            /\ Elements(Append(ran, r)) = Elements(ran) \union {r}
            /\ DOMAIN Append(ran, r) = 1..Len(ran) + 1
            /\ \A i \in DOMAIN ran : Append(ran, r)[i] = ran[i]
            /\ Append(ran, r)[Len(ran) + 1] = r
        BY <3>3, Appended
      <4> QED BY <3>2, <3>4, <3>5, <4>1, <4>2
    <3>7. r.at = r.placed \/ r.socket \in unplaced
      <4>1. CASE s \in unplaced
        BY <4>1, <3>1
      <4>2. CASE s \notin unplaced
        <5>1. RepoIn(authOn, q, Coming(s), Out, accepted, session[s])
          BY <4>2, <1>9
        <5>2. at = Placed(c.nth)
          BY <5>1, <2>1, <1>7, <1>9, <1>10, <1>11, RunsWherePlaced
        <5> QED BY <5>2, <3>1
      <4> QED BY <4>1, <4>2
    <3>8. ran' = u
      BY <2>1, <3>1, <3>5, <1>3
    <3>9. ASSUME NEW i \in 1..n + 1 PROVE u[i].at = u[i].placed \/ u[i].socket \in unplaced
      <4>1. CASE i = n + 1
        BY <4>1, <3>6, <3>7
      <4>2. CASE i # n + 1
        <5>1. i \in 1..n
          BY <4>2
        <5>2. i \in DOMAIN ran
          BY <5>1, <3>3, <3>4
        <5> QED BY <5>1, <5>2, <3>6 DEF WebInv, PlacedUnlessRefused
      <4> QED BY <4>1, <4>2
    <3> QED BY <3>6, <3>8, <3>9, <1>3 DEF PlacedUnlessRefused
  <2>2. CASE ~(c.kind = "Prompt" /\ ~Refused(s))
    BY <2>2, <1>3, <1>8 DEF WebInv, PlacedUnlessRefused
  <2> QED BY <2>1, <2>2
<1>20. session'[s] # Nobody =>
         session'[s].repo # None /\ session'[s].user = user'[s] /\ ~(authOn /\ user'[s] = None)
  BY <1>3, <1>11, <1>15 DEF WebInv, Sessions, Refused
<1>21. session' \in [Sockets -> [user : User \union {None}, repo : Repo \union {DefaultRepo, None}]]
  BY <1>3, <1>8, <1>11
<1>22. /\ UserIn(authOn, Line(s)', Coming(s), Out', accepted', user'[s])
       /\ s \in unplaced' \/ RepoIn(authOn, Line(s)', Coming(s), Out', accepted', session'[s])
  BY <1>3, <1>7, <1>16, <1>17
<1> QED BY <1>5, <1>12, <1>13, <1>14, <1>18, <1>19, <1>20, <1>21, <1>22, DaemonTakes

-----------------------------------------------------------------------------
(* Theorems. *)

LEMMA WebStarts == WebInit => WebInv
<1> SUFFICES ASSUME WebInit PROVE WebInv
  OBVIOUS
<1>1. /\ authOn \in BOOLEAN /\ typed = <<>> /\ doings = 0 /\ binding = <<>> /\ unsent = <<>> /\ resend = <<>>
      /\ signingIn = FALSE /\ link = "down" /\ socket = 0 /\ up = [s \in Sockets |-> <<>>] /\ down = <<>>
      /\ user = [s \in Sockets |-> None] /\ session = [s \in Sockets |-> Nobody] /\ accepted = {}
      /\ unplaced = {} /\ ran = <<>>
  BY DEF WebInit
<1>2. Elements(<<>>) = {} /\ InOrder(<<>>)
  BY DEF Elements, InOrder
<1>3. Out = {}
  BY <1>1, <1>2 DEF Out
<1>4. \A s \in Sockets : Line(s) = <<>> /\ Coming(s) = {}
  BY <1>1 DEF Line, Live, Coming
<1>5. Nobody \in [user : User \union {None}, repo : Repo \union {DefaultRepo, None}]
  BY DEF Nobody
<1>6. WebTypeOK
  <2>1. /\ <<>> \in Seq(Cmds) /\ <<>> \in Seq(Sels \union Auths) /\ <<>> \in Seq(Prompts \union {ListTurns})
        /\ <<>> \in Seq({"AuthOk"}) /\ <<>> \in Seq({})
    OBVIOUS
  <2>2. up \in [Sockets -> Seq(Cmds)]
    BY <1>1, <2>1
  <2>3. user \in [Sockets -> User \union {None}]
    BY <1>1
  <2>4. session \in [Sockets -> [user : User \union {None}, repo : Repo \union {DefaultRepo, None}]]
    BY <1>1, <1>5
  <2>5. socket \in 0..MaxSockets
    BY <1>1, SocketsAssumption
  <2>6. typed \in Seq(Cmds) /\ resend \in Seq(Cmds) /\ binding \in Seq(Sels \union Auths)
    BY <1>1, <2>1
  <2>7. unsent \in Seq(Prompts \union {ListTurns}) /\ down \in Seq({"AuthOk"}) /\ ran \in Seq(Elements(ran))
    BY <1>1, <1>2, <2>1
  <2> QED BY <1>1, <2>2, <2>3, <2>4, <2>5, <2>6, <2>7 DEF WebTypeOK
<1>7. Unopened /\ Sessions /\ PageWillBe /\ AcceptedAllowed
  BY <1>1 DEF Unopened, Sessions, PageWillBe, AcceptedAllowed
<1>8. ClientInOrder /\ OneOfEach /\ BindingIsLatest
  BY <1>1, <1>2, <1>3, <1>4
     DEF ClientInOrder, Until, Follow, OneOfEach, Distinct, BindingIsLatest, IsLatest
<1>9. InPlace
  <2> SUFFICES ASSUME NEW s \in Sockets
               PROVE  PlacedIn(authOn, <<>>, {}, {}, {}, Nobody, None, s \in unplaced)
    BY <1>1, <1>3, <1>4 DEF InPlace
  <2>1. \A on, kind : May(on, kind, {}) = {}
    BY DEF May
  <2>2. Asked({}) = {}
    BY DEF Asked
  <2>3. Reaches(0, {}, {}, {}) /\ RepoBy(0, {}, Nobody) /\ UserBy(0, {}, None) /\ 0 \in Nat
    BY DEF Reaches, RepoBy, UserBy
  <2>4. RepoIn(authOn, <<>>, {}, {}, {}, Nobody)
    BY <2>1, <2>2, <2>3, <1>2 DEF RepoIn
  <2>5. UserIn(authOn, <<>>, {}, {}, {}, None)
    BY <2>1, <2>2, <2>3, <1>2 DEF UserIn
  <2> QED BY <2>4, <2>5 DEF PlacedIn
<1>10. PlacedUnlessRefused
  BY <1>1 DEF PlacedUnlessRefused
<1> QED BY <1>6, <1>7, <1>8, <1>9, <1>10 DEF WebInv

LEMMA UserStep ==
  ASSUME WebInv,
         \/ \E u \in User, ok \in BOOLEAN : SignIn(u, ok)
         \/ \E p \in Repo \union Elsewhere : Select(p)
         \/ Ask
  PROVE  WebInv'
<1>1. doings + 1 \in Nat \ {0}
  BY DEF WebInv, WebTypeOK
<1>2. ASSUME NEW u \in User, NEW ok \in BOOLEAN, SignIn(u, ok)
      PROVE  WebInv'
  <2>1. PICK c \in Cmds : c = Authenticate(doings + 1, u, ok) /\ c.nth = doings + 1
    <3>1. Authenticate(doings + 1, u, ok) \in Cmds /\ Authenticate(doings + 1, u, ok).nth = doings + 1
      BY <1>1 DEF Cmds, Auths, Authenticate
    <3> QED BY <3>1
  <2>2. <<c>> \in Seq(Cmds) /\ InOrder(<<c>>) /\ \A e \in Elements(<<c>>) : e.nth \in {0, doings + 1}
    BY <2>1 DEF InOrder, Elements
  <2>3. Do(<<c>>)
    BY <1>2, <2>1 DEF SignIn
  <2> QED BY <2>2, <2>3, DoStep
<1>3. ASSUME NEW p \in Repo \union Elsewhere, Select(p)
      PROVE  WebInv'
  <2>1. PICK c \in Cmds : c = SelectRepo(doings + 1, p) /\ c.nth = doings + 1
    <3>1. SelectRepo(doings + 1, p) \in Cmds /\ SelectRepo(doings + 1, p).nth = doings + 1
      BY <1>1 DEF Cmds, Sels, SelectRepo
    <3> QED BY <3>1
  <2>2. PICK l \in Cmds : l = ListTurns /\ l.nth = 0
    <3>1. ListTurns \in Cmds /\ ListTurns.nth = 0
      BY DEF Cmds, ListTurns
    <3> QED BY <3>1
  <2>3. PICK q : q = <<c, l>>
    OBVIOUS
  <2>4. q \in Seq(Cmds) /\ DOMAIN q = {1, 2} /\ q[1] = c /\ q[2] = l
    BY <2>3
  <2>5. InOrder(q) /\ \A e \in Elements(q) : e.nth \in {0, doings + 1}
    BY <2>1, <2>2, <2>4 DEF InOrder, Elements
  <2>6. Do(q)
    BY <1>3, <2>1, <2>2, <2>3 DEF Select
  <2> QED BY <2>4, <2>5, <2>6, DoStep
<1>4. ASSUME Ask
      PROVE  WebInv'
  <2>1. PICK c \in Cmds : c = Prompt(doings + 1) /\ c.nth = doings + 1
    <3>1. Prompt(doings + 1) \in Cmds /\ Prompt(doings + 1).nth = doings + 1
      BY <1>1 DEF Cmds, Prompts, Prompt
    <3> QED BY <3>1
  <2>2. <<c>> \in Seq(Cmds) /\ InOrder(<<c>>) /\ \A e \in Elements(<<c>>) : e.nth \in {0, doings + 1}
    BY <2>1 DEF InOrder, Elements
  <2>3. Do(<<c>>)
    BY <1>4, <2>1 DEF Ask
  <2> QED BY <2>2, <2>3, DoStep
<1> QED BY <1>2, <1>3, <1>4

LEMMA WebRests ==
  ASSUME WebInv, UNCHANGED webVars
  PROVE  WebInv'
<1>1. UNCHANGED daemonVars /\ UNCHANGED clientVars /\ up' = up /\ down' = down
  BY DEF webVars
<1>2. /\ typed' = typed /\ doings' = doings /\ binding' = binding /\ unsent' = unsent /\ resend' = resend
      /\ signingIn' = signingIn /\ link' = link /\ socket' = socket
      /\ authOn' = authOn /\ user' = user /\ session' = session /\ accepted' = accepted
      /\ unplaced' = unplaced /\ ran' = ran
  BY <1>1 DEF daemonVars, clientVars
<1>3. Out' = Out /\ \A s \in Sockets : Line(s)' = Line(s) /\ Coming(s)' = Coming(s)
  BY <1>1, <1>2 DEF Out, Line, Live, Coming
<1>4. WebTypeOK' /\ Unopened'
  <2>1. WebTypeOK'
    BY <1>1, <1>2 DEF WebInv, WebTypeOK
  <2>2. Unopened'
    BY <1>1, <1>2 DEF WebInv, Unopened
  <2> QED BY <2>1, <2>2
<1>5. ClientInOrder' /\ OneOfEach' /\ BindingIsLatest'
  BY <1>1, <1>2, <1>3 DEF WebInv, ClientInOrder, OneOfEach, BindingIsLatest
<1>6. InPlace'
  BY <1>2, <1>3 DEF WebInv, InPlace
<1>7. PageWillBe'
  <2>1. link = "up" => socket \in Sockets
    BY DEF WebInv, WebTypeOK
  <2> QED BY <2>1, <1>1, <1>2, <1>3 DEF WebInv, PageWillBe, Refused
<1> QED BY <1>1, <1>4, <1>5, <1>6, <1>7, DaemonRests DEF WebInv

\* The inductive invariant of the client, its sockets and the daemon's end of them:
\* what every socket still has to handle comes in the order the user gave it, and
\* whatever may be accepted before one of its prompts the socket holds, or handles first.
THEOREM WebInvHolds == WebSpec => []WebInv
<1>1. WebInv /\ [WebNext]_webVars => WebInv'
  <2> SUFFICES ASSUME WebInv, [WebNext]_webVars PROVE WebInv'
    OBVIOUS
  <2>1. CASE UNCHANGED webVars
    BY <2>1, WebRests
  <2>2. CASE \/ \E u \in User, ok \in BOOLEAN : SignIn(u, ok)
             \/ \E p \in Repo \union Elsewhere : Select(p)
             \/ Ask
    BY <2>2, UserStep
  <2>3. CASE Open \/ Resend \/ TakeUp \/ Receive \/ Cut \/ Notice
    BY <2>3, OpenStep, ResendStep, TakeUpStep, ReceiveStep, CutStep, NoticeStep
  <2>4. ASSUME NEW s \in Sockets, DaemonStep(s)
        PROVE  WebInv'
    BY <2>4, AuthenticatedStep, SelectedStep, HandledStep DEF DaemonStep
  <2> QED BY <2>1, <2>2, <2>3, <2>4 DEF WebNext
<1> QED BY <1>1, WebStarts, PTL DEF WebSpec

\* A prompt runs in the repository its user had selected last and as the user they had
\* signed in as last, through any cuts, reconnections and sign-ins, unless its socket
\* refused a selection while it was bound to nothing (daemon.rs, run; ws.rs, spawn_agent).
THEOREM PlacedUnlessRefusedHolds == WebSpec => []PlacedUnlessRefused
<1>1. WebInv => PlacedUnlessRefused
  BY DEF WebInv
<1> QED BY <1>1, WebInvHolds, PTL

\* Once all is said and heard, the page of a user who is signed in is bound to a session
\* (corrode-core, reattach and after_sign_in).
THEOREM PageIsBoundHolds == WebSpec => []PageIsBound
<1>1. WebInv => PageIsBound
  <2> SUFFICES ASSUME WebInv, link = "up", resend = <<>>, up[socket] = <<>>, down = <<>>, ~Refused(socket)
               PROVE  session[socket] # Nobody \/ socket \in unplaced
    BY DEF PageIsBound
  <2>1. socket \in Sockets
    BY DEF WebInv, WebTypeOK
  <2>2. Line(socket) = <<>>
    <3>1. <<>> \in Seq({}) /\ <<>> \o <<>> = <<>>
      BY ConcatEmptySeq
    <3> QED BY <3>1 DEF Line, Live
  <2>3. Elements(<<>>) = {} /\ DOMAIN <<>> = {}
    BY DEF Elements
  <2>4. ~Binds(authOn, <<>>, Refused(socket), Selects(binding), down # <<>>, signingIn)
    BY <2>3 DEF Binds
  <2> QED BY <2>2, <2>4 DEF WebInv, PageWillBe
<1> QED BY <1>1, WebInvHolds, PTL

-----------------------------------------------------------------------------
\* What the pieces of the journal, the turns and their courses are.
JournalTypeOK ==
  /\ turns \subseteq JTurn
  /\ journal \in Seq(JTurn \X {"head", "tail"})
  /\ course \in [JTurn -> {"new", "running", "appending", "appended", "ended"}]
  /\ DOMAIN listing = JUser
  /\ spoiled \subseteq JTurn
  /\ cut \in BOOLEAN
  /\ kept \in Seq(JTurn)

\* The turns registered are those between their prompt and their end.
RegisteredWhileUnderWay ==
  turns = {t \in JTurn : course[t] \in {"running", "appending", "appended"}}

\* A record is finished once, when its turn was begun.
TailOnce ==
  \A i \in DOMAIN journal : journal[i][2] = "tail" =>
    /\ course[journal[i][1]] \in {"appended", "ended"}
    /\ \A j \in DOMAIN journal :
         journal[j][2] = "tail" /\ journal[j][1] = journal[i][1] => i = j

\* The records end in the order their appends went through.
TailsInOrder ==
  \A i \in DOMAIN journal : \A j \in DOMAIN journal : \A a \in DOMAIN kept :
    i < j /\ journal[i][2] = "tail" /\ journal[j][2] = "tail" /\ journal[i][1] = kept[a]
      => \E b \in DOMAIN kept : a < b /\ kept[b] = journal[j][1]

\* Nothing but a record being written leaves the last line open.
OpenOnlyWhileAppending ==
  Appending = {} /\ ~cut => journal = <<>> \/ journal[Len(journal)][2] = "tail"

\* Two records that are written at once spoil each other.
TogetherSpoiled ==
  \A s \in Appending : \A t \in Appending : s # t => s \in spoiled

\* An unspoiled record that is being written has its own line.
AloneAtTheEnd(t) ==
  /\ Len(journal) \in Nat \ {0}
  /\ journal[Len(journal)] = <<t, "head">>
  /\ Len(journal) = 1 \/ journal[Len(journal) - 1][2] = "tail"

OwnLine == \A t \in Appending : t \in spoiled \/ AloneAtTheEnd(t)

\* An unspoiled record that was written parses.
KeptParses ==
  \A t \in Range(kept) : t \in spoiled \/ \E i \in Lines : journal[i][1] = t

\* What a listing did not find running had ended, and so stays.
GoneHadEnded ==
  \A u \in JUser : listing[u].pc = "journal" =>
    \A t \in listing[u].begun \ listing[u].running :
      t \in JTurn /\ UserOf(t) = u /\ course[t] = "ended"

JournalInv ==
  /\ JournalTypeOK
  /\ RegisteredWhileUnderWay
  /\ TailOnce
  /\ TailsInOrder
  /\ OpenOnlyWhileAppending
  /\ TogetherSpoiled
  /\ OwnLine
  /\ KeptParses
  /\ GoneHadEnded
  /\ EveryTurnIsListed

LEMMA JournalInitially == JournalInit => JournalInv
<1> SUFFICES ASSUME JournalInit PROVE JournalInv
  OBVIOUS
<1> USE DEF JournalInit
<1>1. JournalTypeOK
  <2>1. <<>> \in Seq(JTurn \X {"head", "tail"}) /\ <<>> \in Seq(JTurn)
    OBVIOUS
  <2>2. DOMAIN listing = JUser
    OBVIOUS
  <2>3. course \in [JTurn -> {"new", "running", "appending", "appended", "ended"}]
    OBVIOUS
  <2>4. turns \subseteq JTurn /\ spoiled \subseteq JTurn /\ cut \in BOOLEAN
    OBVIOUS
  <2>5. journal \in Seq(JTurn \X {"head", "tail"}) /\ kept \in Seq(JTurn)
    BY <2>1
  <2> QED BY <2>2, <2>3, <2>4, <2>5 DEF JournalTypeOK
<1>2. RegisteredWhileUnderWay
  BY DEF RegisteredWhileUnderWay
<1>3. TailOnce /\ TailsInOrder
  BY DEF TailOnce, TailsInOrder
<1>4. OpenOnlyWhileAppending
  BY DEF OpenOnlyWhileAppending
<1>5. TogetherSpoiled /\ OwnLine
  BY DEF TogetherSpoiled, OwnLine, Appending
<1>6. KeptParses
  BY DEF KeptParses, Range
<1>7. GoneHadEnded /\ EveryTurnIsListed
  BY DEF GoneHadEnded, EveryTurnIsListed
<1> QED BY <1>1, <1>2, <1>3, <1>4, <1>5, <1>6, <1>7 DEF JournalInv

\* A record's piece is added at the end, and leaves the lines before it.
LEMMA LinesStay ==
  ASSUME JournalTypeOK, NEW p \in JTurn \X {"head", "tail"}, journal' = Append(journal, p)
  PROVE  /\ Len(journal') = Len(journal) + 1
         /\ journal'[Len(journal) + 1] = p
         /\ \A i \in DOMAIN journal : i \in DOMAIN journal' /\ journal'[i] = journal[i]
         /\ Lines \subseteq Lines'
         /\ DOMAIN journal' = DOMAIN journal \union {Len(journal) + 1}
         /\ DOMAIN journal = 1..Len(journal) /\ Len(journal) \in Nat
<1>1. journal \in Seq(JTurn \X {"head", "tail"})
  BY DEF JournalTypeOK
<1>2. /\ Len(journal') = Len(journal) + 1
      /\ journal'[Len(journal) + 1] = p
      /\ DOMAIN journal = 1..Len(journal) /\ Len(journal) \in Nat
      /\ DOMAIN journal' = 1..Len(journal) + 1
      /\ \A i \in DOMAIN journal : journal'[i] = journal[i]
  BY <1>1
<1>3. Lines \subseteq Lines'
  <2> SUFFICES ASSUME NEW i \in Lines PROVE i \in Lines'
    OBVIOUS
  <2>1. /\ i \in DOMAIN journal /\ i # 1
        /\ journal[i - 1] = <<journal[i][1], "head">>
        /\ journal[i][2] = "tail"
        /\ i - 2 = 0 \/ journal[i - 2][2] = "tail"
    BY DEF Lines
  <2>2. i - 1 \in DOMAIN journal /\ (i - 2 = 0 \/ i - 2 \in DOMAIN journal)
    BY <2>1, <1>2
  <2>3. /\ journal'[i] = journal[i] /\ journal'[i - 1] = journal[i - 1]
        /\ i - 2 = 0 \/ journal'[i - 2] = journal[i - 2]
    BY <2>1, <2>2, <1>2
  <2>4. i \in DOMAIN journal'
    BY <2>1, <1>2
  <2> QED BY <2>1, <2>3, <2>4 DEF Lines
<1>4. DOMAIN journal' = DOMAIN journal \union {Len(journal) + 1}
  BY <1>2
<1> QED BY <1>2, <1>3, <1>4

\* What a turn's own steps do to its course, whatever else they do.
LEMMA CourseMoves ==
  ASSUME JournalTypeOK, NEW t \in JTurn, NEW from, NEW to, Move(t, from, to)
  PROVE  /\ course[t] = from /\ course'[t] = to
         /\ \A s \in JTurn : s # t => course'[s] = course[s]
         /\ DOMAIN course' = JTurn
BY DEF Move, JournalTypeOK

\* A step that leaves the file, and moves one turn that is not being written.
QuietStep(t, from, to) ==
  /\ Move(t, from, to)
  /\ from \in {"new", "running", "appended"}
  /\ to \in {"running", "appended", "ended"}
  /\ from = "appended" => to = "ended"
  /\ UNCHANGED <<journal, listing, counts, spoiled, cut, kept>>

LEMMA QuietKeeps ==
  ASSUME JournalInv, NEW t \in JTurn, NEW from, NEW to, QuietStep(t, from, to),
         turns' \subseteq JTurn, RegisteredWhileUnderWay'
  PROVE  JournalInv'
<1>1. JournalTypeOK
  BY DEF JournalInv
<1>2. Move(t, from, to) /\ UNCHANGED <<journal, listing, counts, spoiled, cut, kept>>
  BY DEF QuietStep
<1>3. /\ course[t] = from /\ course'[t] = to
      /\ \A s \in JTurn : s # t => course'[s] = course[s]
  BY <1>1, <1>2, CourseMoves
<1>4. /\ from \in {"new", "running", "appended"}
      /\ to \in {"running", "appended", "ended"}
      /\ from = "appended" => to = "ended"
  BY DEF QuietStep
<1>5. JournalTypeOK'
  BY <1>1, <1>2, <1>4 DEF JournalTypeOK, Move
<1>6. Appending' = Appending
  BY <1>3, <1>4 DEF Appending
<1>7. TailOnce'
  <2> SUFFICES ASSUME NEW i \in DOMAIN journal, journal[i][2] = "tail"
               PROVE  /\ course'[journal[i][1]] \in {"appended", "ended"}
                      /\ \A j \in DOMAIN journal :
                           journal[j][2] = "tail" /\ journal[j][1] = journal[i][1] => i = j
    BY <1>2 DEF TailOnce
  <2>1. /\ course[journal[i][1]] \in {"appended", "ended"}
        /\ \A j \in DOMAIN journal :
             journal[j][2] = "tail" /\ journal[j][1] = journal[i][1] => i = j
    BY DEF JournalInv, TailOnce
  <2>2. journal[i][1] \in JTurn
    BY <1>1 DEF JournalTypeOK
  <2> QED BY <2>1, <2>2, <1>3, <1>4
<1>8. TailsInOrder'
  BY <1>2 DEF JournalInv, TailsInOrder
<1>9. OpenOnlyWhileAppending'
  BY <1>2, <1>6 DEF JournalInv, OpenOnlyWhileAppending
<1>10. TogetherSpoiled' /\ OwnLine'
  BY <1>2, <1>6 DEF JournalInv, TogetherSpoiled, OwnLine, AloneAtTheEnd
<1>11. KeptParses'
  BY <1>2 DEF JournalInv, KeptParses, Lines
<1>12. GoneHadEnded'
  <2> SUFFICES ASSUME NEW u \in JUser, listing[u].pc = "journal",
                      NEW s \in listing[u].begun \ listing[u].running
               PROVE  s \in JTurn /\ UserOf(s) = u /\ course'[s] = "ended"
    BY <1>2 DEF GoneHadEnded
  <2>1. s \in JTurn /\ UserOf(s) = u /\ course[s] = "ended"
    BY DEF JournalInv, GoneHadEnded
  <2> QED BY <2>1, <1>3, <1>4
<1>13. EveryTurnIsListed'
  BY <1>2 DEF JournalInv, EveryTurnIsListed
<1> QED
  BY <1>5, <1>7, <1>8, <1>9, <1>10, <1>11, <1>12, <1>13 DEF JournalInv

LEMMA RegisterKeeps ==
  ASSUME JournalInv, NEW t \in JTurn, Register(t)
  PROVE  JournalInv'
<1>1. JournalTypeOK /\ RegisteredWhileUnderWay
  BY DEF JournalInv
<1>2. Move(t, "new", "running") /\ turns' = turns \union {t}
  BY DEF Register
<1>3. QuietStep(t, "new", "running")
  BY DEF QuietStep, Register
<1>4. turns' \subseteq JTurn
  BY <1>1, <1>2 DEF JournalTypeOK
<1>5. RegisteredWhileUnderWay'
  BY <1>1, <1>2, CourseMoves DEF RegisteredWhileUnderWay
<1> QED BY <1>3, <1>4, <1>5, QuietKeeps

LEMMA LeaveNoRecordKeeps ==
  ASSUME JournalInv, NEW t \in JTurn, LeaveNoRecord(t)
  PROVE  JournalInv'
<1>1. JournalTypeOK /\ RegisteredWhileUnderWay
  BY DEF JournalInv
<1>2. Move(t, "running", "appended") /\ turns' = turns
  BY DEF LeaveNoRecord
<1>3. QuietStep(t, "running", "appended")
  BY DEF QuietStep, LeaveNoRecord
<1>4. turns' \subseteq JTurn
  BY <1>1, <1>2 DEF JournalTypeOK
<1>5. RegisteredWhileUnderWay'
  BY <1>1, <1>2, CourseMoves DEF RegisteredWhileUnderWay
<1> QED BY <1>3, <1>4, <1>5, QuietKeeps

LEMMA UnregisterKeeps ==
  ASSUME JournalInv, NEW t \in JTurn, Unregister(t)
  PROVE  JournalInv'
<1>1. JournalTypeOK /\ RegisteredWhileUnderWay
  BY DEF JournalInv
<1>2. Move(t, "appended", "ended") /\ turns' = turns \ {t}
  BY DEF Unregister
<1>3. QuietStep(t, "appended", "ended")
  BY DEF QuietStep, Unregister
<1>4. turns' \subseteq JTurn
  BY <1>1, <1>2 DEF JournalTypeOK
<1>5. RegisteredWhileUnderWay'
  BY <1>1, <1>2, CourseMoves DEF RegisteredWhileUnderWay
<1> QED BY <1>3, <1>4, <1>5, QuietKeeps

LEMMA BeginAppendKeeps ==
  ASSUME JournalInv, NEW t \in JTurn, BeginAppend(t)
  PROVE  JournalInv'
<1>1. JournalTypeOK
  BY DEF JournalInv
<1>2. /\ Move(t, "running", "appending")
      /\ journal' = Append(journal, <<t, "head">>)
      /\ spoiled' = spoiled \union (IF Appending # {} \/ cut THEN {t} \union Appending ELSE {})
      /\ cut' = FALSE
      /\ UNCHANGED <<turns, listing, counts, kept>>
  BY DEF BeginAppend
<1>3. /\ course[t] = "running" /\ course'[t] = "appending"
      /\ \A s \in JTurn : s # t => course'[s] = course[s]
  BY <1>1, <1>2, CourseMoves
<1>4. <<t, "head">> \in JTurn \X {"head", "tail"}
  OBVIOUS
<1>5. /\ Len(journal') = Len(journal) + 1
      /\ journal'[Len(journal) + 1] = <<t, "head">>
      /\ \A i \in DOMAIN journal : i \in DOMAIN journal' /\ journal'[i] = journal[i]
      /\ Lines \subseteq Lines'
      /\ DOMAIN journal' = DOMAIN journal \union {Len(journal) + 1}
      /\ DOMAIN journal = 1..Len(journal) /\ Len(journal) \in Nat
  BY <1>1, <1>2, <1>4, LinesStay
<1>6. \A i \in DOMAIN journal' : journal'[i][2] = "tail" =>
        i \in DOMAIN journal /\ journal'[i] = journal[i] /\ journal[i][2] = "tail"
  BY <1>5
<1>7. Appending \subseteq JTurn /\ Appending' = Appending \union {t} /\ t \notin Appending
  BY <1>3 DEF Appending
<1>8. spoiled \subseteq spoiled'
  BY <1>2
<1>9. JournalTypeOK'
  <2>1. journal' \in Seq(JTurn \X {"head", "tail"})
    BY <1>1, <1>2, <1>4 DEF JournalTypeOK
  <2>2. spoiled' \subseteq JTurn
    BY <1>1, <1>2, <1>7 DEF JournalTypeOK
  <2>3. course' \in [JTurn -> {"new", "running", "appending", "appended", "ended"}]
    BY <1>1, <1>2 DEF JournalTypeOK, Move
  <2>4. turns' \subseteq JTurn /\ DOMAIN listing' = JUser /\ cut' \in BOOLEAN /\ kept' \in Seq(JTurn)
    BY <1>1, <1>2 DEF JournalTypeOK
  <2> QED BY <2>1, <2>2, <2>3, <2>4 DEF JournalTypeOK
<1>10. RegisteredWhileUnderWay'
  BY <1>2, <1>3 DEF JournalInv, RegisteredWhileUnderWay
<1>11. TailOnce'
  <2> SUFFICES ASSUME NEW i \in DOMAIN journal', journal'[i][2] = "tail"
               PROVE  /\ course'[journal'[i][1]] \in {"appended", "ended"}
                      /\ \A j \in DOMAIN journal' :
                           journal'[j][2] = "tail" /\ journal'[j][1] = journal'[i][1] => i = j
    BY DEF TailOnce
  <2>1. i \in DOMAIN journal /\ journal'[i] = journal[i] /\ journal[i][2] = "tail"
    BY <1>6
  <2>2. /\ course[journal[i][1]] \in {"appended", "ended"}
        /\ \A j \in DOMAIN journal :
             journal[j][2] = "tail" /\ journal[j][1] = journal[i][1] => i = j
    BY <2>1 DEF JournalInv, TailOnce
  <2>3. journal[i][1] \in JTurn
    BY <1>1, <2>1 DEF JournalTypeOK
  <2>4. course'[journal'[i][1]] \in {"appended", "ended"}
    BY <2>1, <2>2, <2>3, <1>3
  <2>5. \A j \in DOMAIN journal' :
          journal'[j][2] = "tail" /\ journal'[j][1] = journal'[i][1] => i = j
    BY <2>1, <2>2, <1>6
  <2> QED BY <2>4, <2>5
<1>12. TailsInOrder'
  <2> SUFFICES ASSUME NEW i \in DOMAIN journal', NEW j \in DOMAIN journal', NEW a \in DOMAIN kept,
                      i < j, journal'[i][2] = "tail", journal'[j][2] = "tail",
                      journal'[i][1] = kept[a]
               PROVE  \E b \in DOMAIN kept : a < b /\ kept[b] = journal'[j][1]
    BY <1>2 DEF TailsInOrder
  <2>1. /\ i \in DOMAIN journal /\ journal'[i] = journal[i]
        /\ j \in DOMAIN journal /\ journal'[j] = journal[j]
    BY <1>6
  <2> QED BY <2>1 DEF JournalInv, TailsInOrder
<1>13. OpenOnlyWhileAppending'
  BY <1>7 DEF OpenOnlyWhileAppending
<1>14. TogetherSpoiled'
  <2> SUFFICES ASSUME NEW r \in Appending', NEW s \in Appending', r # s
               PROVE  r \in spoiled'
    BY DEF TogetherSpoiled
  <2>1. Appending # {}
    BY <1>7
  <2> QED BY <2>1, <1>2, <1>7
<1>15. OwnLine'
  <2> SUFFICES ASSUME NEW s \in Appending', s \notin spoiled'
               PROVE  AloneAtTheEnd(s)'
    BY DEF OwnLine
  <2>1. Appending = {} /\ ~cut
    BY <1>2, <1>7
  <2>2. s = t
    BY <2>1, <1>7
  <2>3. journal = <<>> \/ journal[Len(journal)][2] = "tail"
    BY <2>1 DEF JournalInv, OpenOnlyWhileAppending
  <2>4. Len(journal') = 1 \/ journal'[Len(journal') - 1][2] = "tail"
    <3>1. CASE Len(journal) = 0
      BY <3>1, <1>5
    <3>2. CASE Len(journal) # 0
      <4>1. journal # <<>> /\ Len(journal) \in DOMAIN journal
        BY <3>2, <1>5
      <4>2. journal'[Len(journal)] = journal[Len(journal)]
        BY <4>1, <1>5
      <4>3. Len(journal') - 1 = Len(journal)
        BY <1>5
      <4> QED BY <4>1, <4>2, <4>3, <2>3
    <3> QED BY <3>1, <3>2
  <2> QED BY <2>2, <2>4, <1>5 DEF AloneAtTheEnd
<1>16. KeptParses'
  <2> SUFFICES ASSUME NEW s \in Range(kept), s \notin spoiled'
               PROVE  \E i \in Lines' : journal'[i][1] = s
    BY <1>2 DEF KeptParses
  <2>1. PICK i \in Lines : journal[i][1] = s
    BY <1>8 DEF JournalInv, KeptParses
  <2>2. i \in DOMAIN journal
    BY DEF Lines
  <2> QED BY <2>1, <2>2, <1>5
<1>17. GoneHadEnded'
  <2> SUFFICES ASSUME NEW u \in JUser, listing[u].pc = "journal",
                      NEW s \in listing[u].begun \ listing[u].running
               PROVE  s \in JTurn /\ UserOf(s) = u /\ course'[s] = "ended"
    BY <1>2 DEF GoneHadEnded
  <2>1. s \in JTurn /\ UserOf(s) = u /\ course[s] = "ended"
    BY DEF JournalInv, GoneHadEnded
  <2> QED BY <2>1, <1>3
<1>18. EveryTurnIsListed'
  BY <1>2 DEF JournalInv, EveryTurnIsListed
<1> QED
  BY <1>9, <1>10, <1>11, <1>12, <1>13, <1>14, <1>15, <1>16, <1>17, <1>18 DEF JournalInv

LEMMA FinishAppendKeeps ==
  ASSUME JournalInv, NEW t \in JTurn, FinishAppend(t)
  PROVE  JournalInv'
<1>1. JournalTypeOK
  BY DEF JournalInv
<1>2. /\ Move(t, "appending", "appended")
      /\ journal' = Append(journal, <<t, "tail">>)
      /\ kept' = Append(kept, t)
      /\ UNCHANGED <<turns, listing, counts, spoiled, cut>>
  BY DEF FinishAppend
<1>3. /\ course[t] = "appending" /\ course'[t] = "appended"
      /\ \A s \in JTurn : s # t => course'[s] = course[s]
  BY <1>1, <1>2, CourseMoves
<1>4. <<t, "tail">> \in JTurn \X {"head", "tail"}
  OBVIOUS
<1>5. /\ Len(journal') = Len(journal) + 1
      /\ journal'[Len(journal) + 1] = <<t, "tail">>
      /\ \A i \in DOMAIN journal : i \in DOMAIN journal' /\ journal'[i] = journal[i]
      /\ Lines \subseteq Lines'
      /\ DOMAIN journal' = DOMAIN journal \union {Len(journal) + 1}
      /\ DOMAIN journal = 1..Len(journal) /\ Len(journal) \in Nat
  BY <1>1, <1>2, <1>4, LinesStay
<1>6. /\ kept \in Seq(JTurn) /\ Len(kept) \in Nat /\ DOMAIN kept = 1..Len(kept)
      /\ DOMAIN kept' = DOMAIN kept \union {Len(kept) + 1}
      /\ kept'[Len(kept) + 1] = t
      /\ \A a \in DOMAIN kept : kept'[a] = kept[a]
  BY <1>1, <1>2 DEF JournalTypeOK
<1>7. /\ Appending \subseteq JTurn /\ Appending' = Appending \ {t} /\ t \in Appending
  BY <1>3 DEF Appending
<1>8. \A i \in DOMAIN journal : journal[i][2] = "tail" => journal[i][1] # t
  BY <1>3 DEF JournalInv, TailOnce
<1>9. JournalTypeOK'
  <2>1. journal' \in Seq(JTurn \X {"head", "tail"}) /\ kept' \in Seq(JTurn)
    BY <1>1, <1>2, <1>4, <1>6 DEF JournalTypeOK
  <2>2. course' \in [JTurn -> {"new", "running", "appending", "appended", "ended"}]
    BY <1>1, <1>2 DEF JournalTypeOK, Move
  <2>3. /\ turns' \subseteq JTurn /\ DOMAIN listing' = JUser
        /\ cut' \in BOOLEAN /\ spoiled' \subseteq JTurn
    BY <1>1, <1>2 DEF JournalTypeOK
  <2> QED BY <2>1, <2>2, <2>3 DEF JournalTypeOK
<1>10. RegisteredWhileUnderWay'
  BY <1>2, <1>3 DEF JournalInv, RegisteredWhileUnderWay
<1>11. TailOnce'
  <2> SUFFICES ASSUME NEW i \in DOMAIN journal', journal'[i][2] = "tail"
               PROVE  /\ course'[journal'[i][1]] \in {"appended", "ended"}
                      /\ \A j \in DOMAIN journal' :
                           journal'[j][2] = "tail" /\ journal'[j][1] = journal'[i][1] => i = j
    BY DEF TailOnce
  <2>1. CASE i = Len(journal) + 1
    <3>1. journal'[i][1] = t
      BY <2>1, <1>5
    <3>2. \A j \in DOMAIN journal : journal'[j] = journal[j]
      BY <1>5
    <3> QED BY <2>1, <3>1, <3>2, <1>3, <1>5, <1>8
  <2>2. CASE i # Len(journal) + 1
    <3>1. i \in DOMAIN journal /\ journal'[i] = journal[i] /\ journal[i][2] = "tail"
      BY <2>2, <1>5
    <3>2. /\ course[journal[i][1]] \in {"appended", "ended"}
          /\ \A j \in DOMAIN journal :
               journal[j][2] = "tail" /\ journal[j][1] = journal[i][1] => i = j
      BY <3>1 DEF JournalInv, TailOnce
    <3>3. journal[i][1] \in JTurn /\ journal[i][1] # t
      BY <1>1, <3>1, <1>8 DEF JournalTypeOK
    <3>4. course'[journal'[i][1]] \in {"appended", "ended"}
      BY <3>1, <3>2, <3>3, <1>3
    <3>5. ASSUME NEW j \in DOMAIN journal', journal'[j][2] = "tail", journal'[j][1] = journal'[i][1]
          PROVE  i = j
      <4>1. j # Len(journal) + 1
        BY <3>1, <3>3, <3>5, <1>5
      <4>2. j \in DOMAIN journal /\ journal'[j] = journal[j]
        BY <4>1, <1>5
      <4> QED BY <3>1, <3>2, <3>5, <4>2
    <3> QED BY <3>4, <3>5
  <2> QED BY <2>1, <2>2
<1>12. TailsInOrder'
  <2> SUFFICES ASSUME NEW i \in DOMAIN journal', NEW j \in DOMAIN journal', NEW a \in DOMAIN kept',
                      i < j, journal'[i][2] = "tail", journal'[j][2] = "tail",
                      journal'[i][1] = kept'[a]
               PROVE  \E b \in DOMAIN kept' : a < b /\ kept'[b] = journal'[j][1]
    BY DEF TailsInOrder
  <2>1. i \in DOMAIN journal /\ journal'[i] = journal[i] /\ journal[i][2] = "tail"
    BY <1>5
  <2>2. a \in DOMAIN kept /\ kept'[a] = kept[a]
    BY <2>1, <1>6, <1>8
  <2>3. CASE j = Len(journal) + 1
    <3>1. journal'[j][1] = t
      BY <2>3, <1>5
    <3> QED BY <2>2, <3>1, <1>6
  <2>4. CASE j # Len(journal) + 1
    <3>1. j \in DOMAIN journal /\ journal'[j] = journal[j]
      BY <2>4, <1>5
    <3>2. PICK b \in DOMAIN kept : a < b /\ kept[b] = journal[j][1]
      BY <2>1, <2>2, <3>1 DEF JournalInv, TailsInOrder
    <3> QED BY <3>1, <3>2, <1>6
  <2> QED BY <2>3, <2>4
<1>13. OpenOnlyWhileAppending'
  BY <1>5 DEF OpenOnlyWhileAppending
<1>14. TogetherSpoiled'
  BY <1>2, <1>7 DEF JournalInv, TogetherSpoiled
<1>15. OwnLine'
  <2> SUFFICES ASSUME NEW s \in Appending', s \notin spoiled
               PROVE  FALSE
    BY <1>2 DEF OwnLine
  <2> QED BY <1>7 DEF JournalInv, TogetherSpoiled
<1>16. KeptParses'
  <2> SUFFICES ASSUME NEW s \in Range(kept'), s \notin spoiled
               PROVE  \E i \in Lines' : journal'[i][1] = s
    BY <1>2 DEF KeptParses
  <2>1. CASE s = t
    <3>1. AloneAtTheEnd(t)
      BY <2>1, <1>7 DEF JournalInv, OwnLine
    <3>2. /\ Len(journal) \in DOMAIN journal
          /\ journal[Len(journal)] = <<t, "head">>
          /\ Len(journal) = 1 \/ journal[Len(journal) - 1][2] = "tail"
      BY <3>1, <1>5 DEF AloneAtTheEnd
    <3>3. journal'[Len(journal)] = <<t, "head">>
      BY <3>2, <1>5
    <3>4. Len(journal) - 1 = 0 \/ journal'[Len(journal) - 1][2] = "tail"
      <4>1. CASE Len(journal) = 1
        BY <4>1
      <4>2. CASE Len(journal) # 1
        <5>1. Len(journal) - 1 \in DOMAIN journal
          BY <3>2, <4>2, <1>5
        <5> QED BY <5>1, <3>2, <4>2, <1>5
      <4> QED BY <4>1, <4>2
    <3>5. PICK n \in Nat : n = Len(journal) + 1
      BY <1>5
    <3>6. n \in DOMAIN journal' /\ n # 1 /\ n - 1 = Len(journal) /\ n - 2 = Len(journal) - 1
      BY <3>2, <3>5, <1>5
    <3>7. journal'[n] = <<t, "tail">>
      BY <3>5, <1>5
    <3>8. /\ journal'[n - 1] = <<journal'[n][1], "head">>
          /\ journal'[n][2] = "tail"
          /\ n - 2 = 0 \/ journal'[n - 2][2] = "tail"
      BY <3>3, <3>4, <3>6, <3>7
    <3>9. n \in Lines'
      BY <3>6, <3>8 DEF Lines
    <3> QED BY <2>1, <3>7, <3>9
  <2>2. CASE s # t
    <3>1. s \in Range(kept)
      BY <2>2, <1>6 DEF Range
    <3>2. PICK i \in Lines : journal[i][1] = s
      BY <3>1 DEF JournalInv, KeptParses
    <3>3. i \in DOMAIN journal
      BY DEF Lines
    <3> QED BY <3>2, <3>3, <1>5
  <2> QED BY <2>1, <2>2
<1>17. GoneHadEnded'
  <2> SUFFICES ASSUME NEW u \in JUser, listing[u].pc = "journal",
                      NEW s \in listing[u].begun \ listing[u].running
               PROVE  s \in JTurn /\ UserOf(s) = u /\ course'[s] = "ended"
    BY <1>2 DEF GoneHadEnded
  <2>1. s \in JTurn /\ UserOf(s) = u /\ course[s] = "ended"
    BY DEF JournalInv, GoneHadEnded
  <2> QED BY <2>1, <1>3
<1>18. EveryTurnIsListed'
  BY <1>2 DEF JournalInv, EveryTurnIsListed
<1> QED
  BY <1>9, <1>10, <1>11, <1>12, <1>13, <1>14, <1>15, <1>16, <1>17, <1>18 DEF JournalInv

LEMMA FallKeeps ==
  ASSUME JournalInv, Fall
  PROVE  JournalInv'
<1>1. JournalTypeOK
  BY DEF JournalInv
<1>2. /\ turns' = {}
      /\ course' = [t \in JTurn |-> IF course[t] = "new" THEN "new" ELSE "ended"]
      /\ listing' = [u \in JUser |-> [pc |-> "idle"]]
      /\ cut' = (cut \/ Appending # {})
      /\ spoiled' = spoiled \union Appending
      /\ journal' = journal /\ kept' = kept
  BY DEF Fall
<1>3. \A t \in JTurn : course'[t] = IF course[t] = "new" THEN "new" ELSE "ended"
  BY <1>2
<1>4. Appending \subseteq JTurn /\ Appending' = {}
  BY <1>3 DEF Appending
<1>5. JournalTypeOK'
  <2>1. course' \in [JTurn -> {"new", "running", "appending", "appended", "ended"}]
    BY <1>2
  <2>2. DOMAIN listing' = JUser
    BY <1>2
  <2>3. cut' \in BOOLEAN
    BY <1>2
  <2>4. /\ turns' \subseteq JTurn /\ spoiled' \subseteq JTurn
        /\ journal' \in Seq(JTurn \X {"head", "tail"}) /\ kept' \in Seq(JTurn)
    BY <1>1, <1>2, <1>4 DEF JournalTypeOK
  <2> QED BY <2>1, <2>2, <2>3, <2>4 DEF JournalTypeOK
<1>6. RegisteredWhileUnderWay'
  BY <1>2, <1>3 DEF RegisteredWhileUnderWay
<1>7. TailOnce'
  <2> SUFFICES ASSUME NEW i \in DOMAIN journal, journal[i][2] = "tail"
               PROVE  /\ course'[journal[i][1]] \in {"appended", "ended"}
                      /\ \A j \in DOMAIN journal :
                           journal[j][2] = "tail" /\ journal[j][1] = journal[i][1] => i = j
    BY <1>2 DEF TailOnce
  <2>1. /\ course[journal[i][1]] \in {"appended", "ended"}
        /\ \A j \in DOMAIN journal :
             journal[j][2] = "tail" /\ journal[j][1] = journal[i][1] => i = j
    BY DEF JournalInv, TailOnce
  <2>2. journal[i][1] \in JTurn
    BY <1>1 DEF JournalTypeOK
  <2> QED BY <2>1, <2>2, <1>3
<1>8. TailsInOrder'
  BY <1>2 DEF JournalInv, TailsInOrder
<1>9. OpenOnlyWhileAppending'
  <2> SUFFICES ASSUME ~cut' PROVE journal = <<>> \/ journal[Len(journal)][2] = "tail"
    BY <1>2 DEF OpenOnlyWhileAppending
  <2>1. ~cut /\ Appending = {}
    BY <1>2
  <2> QED BY <2>1 DEF JournalInv, OpenOnlyWhileAppending
<1>10. TogetherSpoiled' /\ OwnLine'
  BY <1>4 DEF TogetherSpoiled, OwnLine
<1>11. KeptParses'
  BY <1>2 DEF JournalInv, KeptParses, Lines
<1>12. GoneHadEnded' /\ EveryTurnIsListed'
  BY <1>2 DEF GoneHadEnded, EveryTurnIsListed
<1> QED
  BY <1>5, <1>6, <1>7, <1>8, <1>9, <1>10, <1>11, <1>12 DEF JournalInv

\* A listing moves its own record only.
LEMMA ListingKeeps ==
  ASSUME JournalInv, UNCHANGED <<turns, journal, course, spoiled, cut, kept>>,
         DOMAIN listing' = JUser, GoneHadEnded', EveryTurnIsListed'
  PROVE  JournalInv'
<1>1. JournalTypeOK'
  BY DEF JournalInv, JournalTypeOK
<1>2. RegisteredWhileUnderWay' /\ TailOnce' /\ TailsInOrder'
  BY DEF JournalInv, RegisteredWhileUnderWay, TailOnce, TailsInOrder
<1>3. Appending' = Appending
  BY DEF Appending
<1>4. OpenOnlyWhileAppending' /\ TogetherSpoiled' /\ OwnLine'
  BY <1>3 DEF JournalInv, OpenOnlyWhileAppending, TogetherSpoiled, OwnLine, AloneAtTheEnd
<1>5. KeptParses'
  BY DEF JournalInv, KeptParses, Lines
<1> QED BY <1>1, <1>2, <1>4, <1>5 DEF JournalInv

LEMMA CopyRunningKeeps ==
  ASSUME JournalInv, NEW u \in JUser, CopyRunning(u)
  PROVE  JournalInv'
<1>1. JournalTypeOK
  BY DEF JournalInv
<1> DEFINE copy == [pc |-> "journal",
                    running |-> {t \in turns : UserOf(t) = u},
                    begun |-> {t \in JTurn : UserOf(t) = u /\ course[t] # "new"}]
<1>2. /\ listing' = [listing EXCEPT ![u] = copy]
      /\ UNCHANGED <<turns, journal, course, spoiled, cut, kept>>
  BY DEF CopyRunning
<1>3. /\ DOMAIN listing' = JUser /\ listing'[u] = copy
      /\ \A v \in JUser : v # u => listing'[v] = listing[v]
  BY <1>1, <1>2 DEF JournalTypeOK
<1>4. GoneHadEnded'
  <2> SUFFICES ASSUME NEW v \in JUser, listing'[v].pc = "journal",
                      NEW s \in listing'[v].begun \ listing'[v].running
               PROVE  s \in JTurn /\ UserOf(s) = v /\ course[s] = "ended"
    BY <1>2 DEF GoneHadEnded
  <2>1. CASE v = u
    <3>1. s \in JTurn /\ UserOf(s) = u /\ course[s] # "new" /\ s \notin turns
      BY <2>1, <1>3
    <3>2. course[s] \in {"new", "running", "appending", "appended", "ended"}
      BY <3>1, <1>1 DEF JournalTypeOK
    <3> QED BY <2>1, <3>1, <3>2 DEF JournalInv, RegisteredWhileUnderWay
  <2>2. CASE v # u
    BY <2>2, <1>3 DEF JournalInv, GoneHadEnded
  <2> QED BY <2>1, <2>2
<1>5. EveryTurnIsListed'
  <2> SUFFICES ASSUME NEW v \in JUser, listing'[v].pc = "sent"
               PROVE  listing'[v].missed \subseteq listing'[v].excused
    BY DEF EveryTurnIsListed
  <2>1. v # u
    BY <1>3
  <2> QED BY <2>1, <1>3 DEF JournalInv, EveryTurnIsListed
<1> QED BY <1>2, <1>3, <1>4, <1>5, ListingKeeps

\* The turns of the lines after a record are among those kept after it: where
\* few enough were kept, few enough lines follow.
LEMMA FollowingWereKeptLater ==
  ASSUME JournalInv, NEW i \in Lines, NEW a \in DOMAIN kept, journal[i][1] = kept[a],
         NEW S, NEW T,
         \A j \in S : j \in Lines /\ i < j,
         IsFiniteSet(T),
         \A b \in DOMAIN kept : \A j \in S :
           a < b /\ journal[j][1] = kept[b] => kept[b] \in T
  PROVE  IsFiniteSet(S) /\ Cardinality(S) <= Cardinality(T)
<1> DEFINE turn == [j \in S |-> journal[j][1]]
<1>1. \A j \in Lines : j \in DOMAIN journal /\ journal[j][2] = "tail"
  BY DEF Lines
<1>2. ASSUME NEW j \in S PROVE turn[j] \in T
  <2>1. j \in Lines /\ i < j
    OBVIOUS
  <2>2. PICK b \in DOMAIN kept : a < b /\ kept[b] = journal[j][1]
    BY <2>1, <1>1 DEF JournalInv, TailsInOrder
  <2> QED BY <2>2
<1>3. ASSUME NEW j \in S, NEW k \in S, turn[j] = turn[k] PROVE j = k
  <2>1. /\ j \in DOMAIN journal /\ journal[j][2] = "tail"
        /\ k \in DOMAIN journal /\ journal[k][2] = "tail"
    BY <1>1
  <2>2. journal[k][1] = journal[j][1]
    BY <1>3
  <2> QED BY <2>1, <2>2 DEF JournalInv, TailOnce
<1>4. turn \in Injection(S, T)
  BY <1>2, <1>3 DEF Injection, IsInjective
<1> QED BY <1>4, FS_Injection

\* What follows in a sequence is finite.
LEMMA LaterFinite ==
  ASSUME NEW J, NEW s \in Seq(J), NEW a \in DOMAIN s
  PROVE  IsFiniteSet({s[b] : b \in a + 1..Len(s)})
<1> DEFINE T == {s[b] : b \in a + 1..Len(s)}
           f == [b \in a + 1..Len(s) |-> s[b]]
<1>1. a + 1 \in Int /\ Len(s) \in Int
  OBVIOUS
<1>2. IsFiniteSet(a + 1..Len(s))
  BY <1>1, FS_Interval
<1>3. f \in Surjection(a + 1..Len(s), T)
  BY DEF Surjection
<1> QED BY <1>2, <1>3, FS_Surjection

\* A turn whose record parses, and that is not crowded out, is shown.
LEMMA KeptIsShown ==
  ASSUME JournalInv, NEW u \in JUser, NEW t \in JTurn,
         UserOf(t) = u, t \in Range(kept), t \notin spoiled, t \notin Crowded(u)
  PROVE  t \in Shown(u)
<1>1. PICK a \in DOMAIN kept : kept[a] = t
  BY DEF Range
<1>2. PICK i \in Lines : journal[i][1] = t
  BY DEF JournalInv, KeptParses
<1> DEFINE Later == {kept[j] : j \in a + 1..Len(kept)}
           LaterOwn == {s \in Later : UserOf(s) = u}
           After == {j \in Lines : j > i}
           AfterOwn == {j \in After : UserOf(journal[j][1]) = u}
<1>3. kept \in Seq(JTurn) /\ DOMAIN kept = 1..Len(kept) /\ Len(kept) \in Nat
  BY DEF JournalInv, JournalTypeOK
<1>4. IsFiniteSet(Later)
  BY <1>3, LaterFinite
<1>5. IsFiniteSet(LaterOwn)
  BY <1>4, FS_Subset
<1>6. Cardinality(Later) < TAIL /\ Cardinality(LaterOwn) < SHOWN
  <2>1. ~ (Cardinality(Later) >= TAIL) /\ ~ (Cardinality(LaterOwn) >= SHOWN)
    BY <1>1 DEF Crowded
  <2>2. Cardinality(Later) \in Nat /\ Cardinality(LaterOwn) \in Nat
    BY <1>4, <1>5, FS_CardinalityType
  <2> QED BY <2>1, <2>2, ListAssumption
<1>7. \A b \in DOMAIN kept : a < b => kept[b] \in Later
  BY <1>3
<1>8. Lines \subseteq Int /\ i \in Int
  BY DEF JournalInv, JournalTypeOK, Lines
<1>9. IsFiniteSet(After) /\ Cardinality(After) <= Cardinality(Later)
  <2>1. \A j \in After : j \in Lines /\ i < j
    BY <1>8
  <2>2. \A b \in DOMAIN kept : \A j \in After :
          a < b /\ journal[j][1] = kept[b] => kept[b] \in Later
    BY <1>7
  <2> HIDE DEF After, Later
  <2> QED BY <1>1, <1>2, <1>4, <2>1, <2>2, FollowingWereKeptLater
<1>10. IsFiniteSet(AfterOwn) /\ Cardinality(AfterOwn) <= Cardinality(LaterOwn)
  <2>1. \A j \in AfterOwn : j \in Lines /\ i < j
    BY <1>8
  <2>2. \A b \in DOMAIN kept : \A j \in AfterOwn :
          a < b /\ journal[j][1] = kept[b] => kept[b] \in LaterOwn
    BY <1>7
  <2> HIDE DEF AfterOwn, LaterOwn
  <2> QED BY <1>1, <1>2, <1>5, <2>1, <2>2, FollowingWereKeptLater
<1>11. Cardinality(After) < TAIL /\ Cardinality(AfterOwn) < SHOWN
  <2>1. /\ Cardinality(Later) \in Nat /\ Cardinality(LaterOwn) \in Nat
        /\ Cardinality(After) \in Nat /\ Cardinality(AfterOwn) \in Nat
    BY <1>4, <1>5, <1>9, <1>10, FS_CardinalityType
  <2> QED BY <2>1, <1>6, <1>9, <1>10, ListAssumption
<1>12. i \in Lines /\ UserOf(journal[i][1]) = u
  BY <1>2
<1> QED BY <1>2, <1>11, <1>12 DEF Shown

LEMMA ReadJournalKeeps ==
  ASSUME JournalInv, NEW u \in JUser, ReadJournal(u)
  PROVE  JournalInv'
<1>1. JournalTypeOK
  BY DEF JournalInv
<1> DEFINE sent == [pc |-> "sent",
                    missed |-> listing[u].begun \ (listing[u].running \union Shown(u)),
                    excused |-> spoiled \union Crowded(u) \union Unrecorded]
<1>2. /\ listing[u].pc = "journal"
      /\ listing' = [listing EXCEPT ![u] = sent]
      /\ UNCHANGED <<turns, journal, course, spoiled, cut, kept>>
  BY DEF ReadJournal
<1>3. /\ DOMAIN listing' = JUser /\ listing'[u] = sent
      /\ \A v \in JUser : v # u => listing'[v] = listing[v]
  BY <1>1, <1>2 DEF JournalTypeOK
<1>4. GoneHadEnded'
  <2> SUFFICES ASSUME NEW v \in JUser, listing'[v].pc = "journal",
                      NEW s \in listing'[v].begun \ listing'[v].running
               PROVE  s \in JTurn /\ UserOf(s) = v /\ course[s] = "ended"
    BY <1>2 DEF GoneHadEnded
  <2>1. v # u
    BY <1>3
  <2> QED BY <2>1, <1>3 DEF JournalInv, GoneHadEnded
<1>5. ASSUME NEW t \in listing[u].begun \ (listing[u].running \union Shown(u))
      PROVE  t \in spoiled \union Crowded(u) \union Unrecorded
  <2>1. t \in JTurn /\ UserOf(t) = u /\ course[t] = "ended"
    BY <1>2 DEF JournalInv, GoneHadEnded
  <2>2. CASE t \in Range(kept)
    BY <2>1, <2>2, KeptIsShown
  <2>3. CASE t \notin Range(kept)
    BY <2>1, <2>3 DEF Unrecorded
  <2> QED BY <2>2, <2>3
<1>6. EveryTurnIsListed'
  <2> SUFFICES ASSUME NEW v \in JUser, listing'[v].pc = "sent"
               PROVE  listing'[v].missed \subseteq listing'[v].excused
    BY DEF EveryTurnIsListed
  <2>1. CASE v = u
    BY <2>1, <1>3, <1>5
  <2>2. CASE v # u
    BY <2>2, <1>3 DEF JournalInv, EveryTurnIsListed
  <2> QED BY <2>1, <2>2
<1> QED BY <1>2, <1>3, <1>4, <1>6, ListingKeeps

LEMMA JournalStep == JournalInv /\ [JournalNext]_journalVars => JournalInv'
<1> SUFFICES ASSUME JournalInv, [JournalNext]_journalVars PROVE JournalInv'
  OBVIOUS
<1>1. CASE \E t \in JTurn : Register(t)
  BY <1>1, RegisterKeeps
<1>2. CASE \E t \in JTurn : BeginAppend(t)
  BY <1>2, BeginAppendKeeps
<1>3. CASE \E t \in JTurn : FinishAppend(t)
  BY <1>3, FinishAppendKeeps
<1>4. CASE \E t \in JTurn : LeaveNoRecord(t)
  BY <1>4, LeaveNoRecordKeeps
<1>5. CASE \E t \in JTurn : Unregister(t)
  BY <1>5, UnregisterKeeps
<1>6. CASE \E u \in JUser : CopyRunning(u)
  BY <1>6, CopyRunningKeeps
<1>7. CASE \E u \in JUser : ReadJournal(u)
  BY <1>7, ReadJournalKeeps
<1>8. CASE Fall
  BY <1>8, FallKeeps
<1>9. CASE UNCHANGED journalVars
  <2>1. /\ UNCHANGED <<turns, journal, course, spoiled, cut, kept>>
        /\ listing' = listing
    BY <1>9 DEF journalVars
  <2>2. DOMAIN listing' = JUser
    BY <2>1 DEF JournalInv, JournalTypeOK
  <2>3. GoneHadEnded' /\ EveryTurnIsListed'
    BY <2>1 DEF JournalInv, GoneHadEnded, EveryTurnIsListed
  <2> QED BY <2>1, <2>2, <2>3, ListingKeeps
<1> QED
  BY <1>1, <1>2, <1>3, <1>4, <1>5, <1>6, <1>7, <1>8, <1>9 DEF JournalNext

\* What holds of the turns, of the journal's lines and of the listings, however
\* turns that end together write, and wherever the daemon dies.
THEOREM JournalInvHolds == JournalSpec => []JournalInv
<1>1. JournalInit => JournalInv
  BY JournalInitially
<1>2. JournalInv /\ [JournalNext]_journalVars => JournalInv'
  BY JournalStep
<1> QED BY <1>1, <1>2, PTL DEF JournalSpec

\* A listing misses no turn that began before it, although turns end, and leave
\* the session's table for the journal, while it looks at both: except those
\* that newer ones crowd out, that left no whole record, or whose record met
\* another turn's in the file (daemon.rs ListTurns and TurnEnd).
THEOREM EveryTurnIsListedHolds == JournalSpec => []EveryTurnIsListed
<1>1. JournalSpec => []JournalInv
  BY JournalInvHolds
<1>2. JournalInv => EveryTurnIsListed
  BY DEF JournalInv
<1> QED BY <1>1, <1>2, PTL

=============================================================================
