---------------------------- MODULE SessionProofs ----------------------------
(***************************************************************************)
(* Theorems of Approvals, for every set of sessions, clients and requests, *)
(* and of TurnFeed, for every set of turns and connections and every size  *)
(* of the ring, the broadcast and the channels.                            *)
(***************************************************************************)
EXTENDS Approvals, TurnFeed, FiniteSetTheorems, TLAPS

\* Unattended, nobody is asked.
NobodyAsked ==
  auto => \A r \in Request : state[r] \in {"unasked", "approved"}

\* The id a request was given is its own in its session.
UniqueIds ==
  \A q, r \in Request :
    /\ ~auto /\ q # r /\ HomeOf[q] = HomeOf[r]
    /\ state[q] # "unasked" /\ state[r] # "unasked"
    => idOf[q] # idOf[r]

\* A request that waits was sent the first answer and no other, and while it is
\* in the gate's table none.
AnswerIsFirst ==
  \A r \in Request :
    /\ state[r] = "unasked" => answer[r] = Nothing /\ first[r] = Nothing
    /\ state[r] = "waiting" => first[r] = answer[r]
    /\ (state[r] = "waiting" /\ idOf[r] \in DOMAIN pending[HomeOf[r]])
         => answer[r] = Nothing

Inv ==
  /\ ApprovalsTypeOK
  /\ NobodyAsked
  /\ UniqueIds
  /\ GateHoldsTheWaiting
  /\ AnswerIsFirst
  /\ ApprovedByFirstAnswer

-----------------------------------------------------------------------------
(* Tables. *)

\* Putting a request under an id changes the table there and nowhere else.
LEMMA WithTable ==
  ASSUME NEW f, IsTable(f), NEW i \in Nat, NEW r \in Request
  PROVE  /\ IsTable(With(f, i, r))
         /\ DOMAIN With(f, i, r) = DOMAIN f \union {i}
         /\ With(f, i, r)[i] = r
         /\ \A j \in DOMAIN f : j # i => With(f, i, r)[j] = f[j]
  BY DEF IsTable, With

\* Removing an id leaves every other entry as it was.
LEMMA WithoutTable ==
  ASSUME NEW f, IsTable(f), NEW i
  PROVE  /\ IsTable(Without(f, i))
         /\ DOMAIN Without(f, i) = DOMAIN f \ {i}
         /\ \A j \in DOMAIN f : j # i => Without(f, i)[j] = f[j]
  BY DEF IsTable, Without

\* The empty table is one.
LEMMA NoEntriesTable == IsTable(NoEntries) /\ DOMAIN NoEntries = {}
  BY DEF IsTable, NoEntries

-----------------------------------------------------------------------------
(* Types. *)

\* A step of the gate keeps every variable in its type.
LEMMA GateStepType ==
  ASSUME ApprovalsTypeOK, NEW r \in Request, GateStep(r)
  PROVE  ApprovalsTypeOK'
  <1> USE HomeAssumption
  <1>1. CASE AutoApprove(r)
    BY <1>1 DEF AutoApprove, ApprovalsTypeOK, history, States
  <1>2. CASE Ask(r)
    <2>1. /\ HomeOf[r] \in Session /\ nextId[HomeOf[r]] \in Nat
          /\ IsTable(pending[HomeOf[r]])
      BY DEF ApprovalsTypeOK
    <2>2. IsTable(With(pending[HomeOf[r]], nextId[HomeOf[r]], r))
      BY <2>1, WithTable
    <2>3. /\ DOMAIN pending' = Session
          /\ \A s \in Session : IsTable(pending'[s])
      BY <1>2, <2>1, <2>2 DEF Ask, ApprovalsTypeOK
    <2>4. \A q \in Request : state'[q] # "unasked" /\ ~auto' => idOf'[q] < nextId'[HomeOf[q]]
      BY <1>2, <2>1 DEF Ask, ApprovalsTypeOK
    <2> QED
      BY <1>2, <2>1, <2>3, <2>4 DEF Ask, ApprovalsTypeOK, history, States
  <1>3. ASSUME NEW outcome \in States \ {"unasked"}, SettleAs(r, outcome)
        PROVE  ApprovalsTypeOK'
    <2>1. /\ HomeOf[r] \in Session /\ IsTable(pending[HomeOf[r]])
      BY DEF ApprovalsTypeOK
    <2>2. IsTable(Without(pending[HomeOf[r]], idOf[r]))
      BY <2>1, WithoutTable
    <2>3. /\ DOMAIN pending' = Session
          /\ \A s \in Session : IsTable(pending'[s])
      BY <1>3, <2>1, <2>2 DEF SettleAs, ApprovalsTypeOK
    <2> QED
      BY <1>3, <2>3 DEF SettleAs, ApprovalsTypeOK, history
  <1>4. CASE TakeAnswer(r)
    BY <1>3, <1>4 DEF TakeAnswer, States
  <1>5. CASE TimeOut(r)
    BY <1>3, <1>5 DEF TimeOut, States
  <1>6. CASE Drop(r)
    BY <1>6 DEF Drop, ApprovalsTypeOK, history, States
  <1> QED
    BY <1>1, <1>2, <1>4, <1>5, <1>6 DEF GateStep

\* What resolve does to the gate and to the channels.
LEMMA ResolveType ==
  ASSUME ApprovalsTypeOK, NEW s \in Session, NEW id, NEW verdict \in Verdict,
         Resolve(s, id, verdict)
  PROVE  /\ DOMAIN pending' = Session /\ \A q \in Session : IsTable(pending'[q])
         /\ answer' \in [Request -> Answers]
  <1>1. IsTable(pending[s])
    BY DEF ApprovalsTypeOK
  <1>2. IsTable(Without(pending[s], id))
    BY <1>1, WithoutTable
  <1> QED
    BY <1>1, <1>2 DEF Resolve, ApprovalsTypeOK, Answers, IsTable

\* A step of a client keeps every variable in its type.
LEMMA ClientStepType ==
  ASSUME ApprovalsTypeOK, NEW c \in Client, ClientStep(c)
  PROVE  ApprovalsTypeOK'
  <1> USE HomeAssumption, UnboundAssumption
  <1>1. ASSUME NEW s \in Session, BindClient(c, s) PROVE ApprovalsTypeOK'
    BY <1>1 DEF BindClient, ApprovalsTypeOK, gateVars, history
  <1>2. CASE Reconnect(c)
    BY <1>2, NoEntriesTable DEF Reconnect, ApprovalsTypeOK, gateVars, history
  <1>3. ASSUME NEW r \in Request, Show(c, r) PROVE ApprovalsTypeOK'
    <2>1. IsTable(shown[c]) /\ idOf[r] \in Nat
      BY DEF ApprovalsTypeOK
    <2>2. IsTable(With(shown[c], idOf[r], r))
      BY <2>1, WithTable
    <2> QED
      BY <1>3, <2>2 DEF Show, ApprovalsTypeOK, gateVars, history
  <1>4. ASSUME NEW id \in DOMAIN shown[c], NEW verdict \in Verdict,
               Decide(c, id, verdict)
        PROVE  ApprovalsTypeOK'
    <2>1. IsTable(shown[c]) /\ shown[c][id] \in Request
      BY <1>4 DEF ApprovalsTypeOK, IsTable
    <2>2. IsTable(Without(shown[c], id))
      BY <2>1, WithoutTable
    <2>3. DOMAIN shown' = Client /\ \A d \in Client : IsTable(shown'[d])
      BY <1>4, <2>2 DEF Decide, ApprovalsTypeOK
    <2>4. /\ DOMAIN pending' = Session /\ \A q \in Session : IsTable(pending'[q])
          /\ answer' \in [Request -> Answers]
      <3>1. CASE bound[c] = Unbound
        BY <1>4, <3>1 DEF Decide, ApprovalsTypeOK
      <3>2. CASE bound[c] \in Session
        BY <1>4, <3>2, ResolveType DEF Decide
      <3> QED
        BY <3>1, <3>2 DEF ApprovalsTypeOK
    <2>5. /\ first' \in [Request -> Answers]
          /\ meant' \in [Request -> Request \union {Nothing}]
      BY <1>4, <2>1 DEF Decide, Note, ApprovalsTypeOK, Answers
    <2> QED
      BY <1>4, <2>3, <2>4, <2>5 DEF Decide, ApprovalsTypeOK
  <1> QED
    BY <1>1, <1>2, <1>3, <1>4 DEF ClientStep

\* Types are kept by every step, stuttering included.
LEMMA NextType ==
  ASSUME ApprovalsTypeOK, [ApprovalsNext]_approvalsVars
  PROVE  ApprovalsTypeOK'
  <1>1. CASE ApprovalsNext
    BY <1>1, GateStepType, ClientStepType DEF ApprovalsNext
  <1>2. CASE UNCHANGED approvalsVars
    BY <1>2 DEF approvalsVars, gateVars, history, ApprovalsTypeOK
  <1> QED
    BY <1>1, <1>2

\* Types hold at the start.
LEMMA InitType == ASSUME ApprovalsInit PROVE ApprovalsTypeOK
  BY HomeAssumption, NoEntriesTable DEF ApprovalsInit, ApprovalsTypeOK, States, Answers

\* Every variable of the gates and the clients stays in its type: what a table
\* holds under an id is a request.
THEOREM TypeCorrect == ApprovalsSpec => []ApprovalsTypeOK
  BY InitType, NextType, PTL DEF ApprovalsSpec

-----------------------------------------------------------------------------
(* What the gate holds, and whose answer approves. *)

\* The table of every session after that of one has been replaced.
LEMMA ReplacedTable ==
  ASSUME ApprovalsTypeOK, NEW s \in Session, NEW f, pending' = [pending EXCEPT ![s] = f],
         NEW t \in Session
  PROVE  pending'[t] = IF t = s THEN f ELSE pending[t]
  BY DEF ApprovalsTypeOK

\* Unattended, a call goes through and nothing else changes.
LEMMA AutoApproveInv ==
  ASSUME Inv, NEW r \in Request, AutoApprove(r)
  PROVE  Inv'
  <1> USE HomeAssumption
  <1>1. ApprovalsTypeOK'
    BY GateStepType DEF GateStep, Inv
  <1>2. /\ state' = [state EXCEPT ![r] = "approved"] /\ auto /\ auto'
        /\ UNCHANGED <<pending, idOf, answer, first>>
    BY DEF AutoApprove, history
  <1>3. NobodyAsked' /\ UniqueIds' /\ ApprovedByFirstAnswer'
    BY <1>2 DEF Inv, ApprovalsTypeOK, NobodyAsked, UniqueIds, ApprovedByFirstAnswer
  <1>4. GateHoldsTheWaiting'
    BY <1>2 DEF Inv, ApprovalsTypeOK, NobodyAsked, GateHoldsTheWaiting, IsTable
  <1>5. AnswerIsFirst'
    BY <1>2 DEF Inv, ApprovalsTypeOK, AnswerIsFirst
  <1> QED
    BY <1>1, <1>3, <1>4, <1>5 DEF Inv

\* A new request gets an id no other of its session has, and an entry.
LEMMA AskInv ==
  ASSUME Inv, NEW r \in Request, Ask(r)
  PROVE  Inv'
  <1> DEFINE h == HomeOf[r]
             n == nextId[h]
  <1> USE HomeAssumption
  <1>1. ApprovalsTypeOK'
    BY GateStepType DEF GateStep, Inv
  <1>2. /\ state' = [state EXCEPT ![r] = "waiting"] /\ state[r] = "unasked"
        /\ idOf' = [idOf EXCEPT ![r] = n]
        /\ pending' = [pending EXCEPT ![h] = With(pending[h], n, r)]
        /\ UNCHANGED <<auto, answer, first>> /\ ~auto
    BY DEF Ask, history, Inv, ApprovalsTypeOK
  <1>3. h \in Session /\ n \in Nat /\ IsTable(pending[h])
    BY DEF Inv, ApprovalsTypeOK
  <1>4. /\ DOMAIN With(pending[h], n, r) = DOMAIN pending[h] \union {n}
        /\ With(pending[h], n, r)[n] = r
        /\ \A j \in DOMAIN pending[h] : j # n => With(pending[h], n, r)[j] = pending[h][j]
    <2> HIDE DEF h, n
    <2> QED
      BY <1>3, WithTable
  <1>5. \A t \in Session :
          pending'[t] = IF t = h THEN With(pending[h], n, r) ELSE pending[t]
    BY <1>2, <1>3, ReplacedTable DEF Inv
  <1>6. \A q \in Request : q # r => state'[q] = state[q] /\ idOf'[q] = idOf[q]
    BY <1>2 DEF Inv, ApprovalsTypeOK
  <1>7. state'[r] = "waiting" /\ idOf'[r] = n
    BY <1>2 DEF Inv, ApprovalsTypeOK
  <1>8. \A q \in Request :
          HomeOf[q] = h /\ state[q] # "unasked" => idOf[q] < n /\ idOf[q] # n /\ q # r
    BY <1>2 DEF Inv, ApprovalsTypeOK
  <1>9. NobodyAsked' /\ ApprovedByFirstAnswer'
    BY <1>2, <1>6, <1>7 DEF Inv, NobodyAsked, ApprovedByFirstAnswer
  <1>10. UniqueIds'
    BY <1>2, <1>6, <1>7, <1>8 DEF Inv, UniqueIds
  <1>11. GateHoldsTheWaiting'
    <2>1. ASSUME NEW q \in Request, state'[q] = "waiting", answer'[q] = Nothing
          PROVE  /\ idOf'[q] \in DOMAIN pending'[HomeOf[q]]
                 /\ pending'[HomeOf[q]][idOf'[q]] = q
      <3>1. CASE q = r
        BY <3>1, <1>3, <1>4, <1>5, <1>7
      <3>2. CASE q # r
        <4>1. /\ state[q] = "waiting" /\ answer[q] = Nothing /\ idOf'[q] = idOf[q]
              /\ HomeOf[q] \in Session
          BY <2>1, <3>2, <1>2, <1>6
        <4>2. idOf[q] \in DOMAIN pending[HomeOf[q]] /\ pending[HomeOf[q]][idOf[q]] = q
          BY <4>1 DEF Inv, GateHoldsTheWaiting
        <4> QED
          BY <4>1, <4>2, <1>4, <1>5, <1>8
      <3> QED
        BY <3>1, <3>2
    <2>2. ASSUME NEW s \in Session, NEW id \in DOMAIN pending'[s]
          PROVE  LET q == pending'[s][id]
                 IN  HomeOf[q] = s /\ idOf'[q] = id /\ state'[q] \in {"waiting", "dropped"}
      <3>1. CASE s = h /\ id = n
        BY <3>1, <1>3, <1>4, <1>5, <1>7
      <3>2. CASE ~(s = h /\ id = n)
        <4>1. id \in DOMAIN pending[s] /\ pending'[s][id] = pending[s][id]
          BY <2>2, <3>2, <1>4, <1>5
        <4>2. /\ HomeOf[pending[s][id]] = s /\ idOf[pending[s][id]] = id
              /\ state[pending[s][id]] \in {"waiting", "dropped"}
              /\ pending[s][id] \in Request
          BY <4>1 DEF Inv, GateHoldsTheWaiting, ApprovalsTypeOK, IsTable
        <4>3. pending[s][id] # r
          BY <4>2, <1>2
        <4> QED
          BY <4>1, <4>2, <4>3, <1>6
      <3> QED
        BY <3>1, <3>2
    <2> QED
      BY <2>1, <2>2 DEF GateHoldsTheWaiting
  <1>12. AnswerIsFirst'
    <2>1. ASSUME NEW q \in Request, q # r, state[q] = "waiting",
                 idOf[q] \in DOMAIN pending'[HomeOf[q]]
          PROVE  idOf[q] \in DOMAIN pending[HomeOf[q]]
      BY <2>1, <1>4, <1>5, <1>8
    <2> QED
      BY <2>1, <1>2, <1>6, <1>7 DEF Inv, AnswerIsFirst
  <1> QED
    BY <1>1, <1>9, <1>10, <1>11, <1>12 DEF Inv

\* A request that settles takes its entry with it and nobody else's; it is
\* approved only by the answer it was sent.
LEMMA SettleInv ==
  ASSUME Inv, NEW r \in Request, NEW outcome \in {"approved", "denied"},
         SettleAs(r, outcome), outcome = "approved" => answer[r] = "yes", ApprovalsTypeOK'
  PROVE  Inv'
  <1> DEFINE h == HomeOf[r]
             i == idOf[r]
  <1> USE HomeAssumption
  <1>2. /\ state' = [state EXCEPT ![r] = outcome] /\ state[r] = "waiting"
        /\ pending' = [pending EXCEPT ![h] = Without(pending[h], i)]
        /\ UNCHANGED <<auto, idOf, answer, first>> /\ ~auto
    BY DEF SettleAs, history, Inv, ApprovalsTypeOK, NobodyAsked
  <1>3. h \in Session /\ IsTable(pending[h])
    BY DEF Inv, ApprovalsTypeOK
  <1>4. /\ DOMAIN Without(pending[h], i) = DOMAIN pending[h] \ {i}
        /\ \A j \in DOMAIN pending[h] : j # i => Without(pending[h], i)[j] = pending[h][j]
    BY <1>3, WithoutTable
  <1>5. \A t \in Session :
          pending'[t] = IF t = h THEN Without(pending[h], i) ELSE pending[t]
    BY <1>2, <1>3, ReplacedTable DEF Inv
  <1>6. state'[r] = outcome /\ \A q \in Request : q # r => state'[q] = state[q]
    BY <1>2 DEF Inv, ApprovalsTypeOK
  <1>7. NobodyAsked' /\ UniqueIds'
    BY <1>2, <1>6 DEF Inv, NobodyAsked, UniqueIds
  <1>8. ApprovedByFirstAnswer'
    BY <1>2, <1>6 DEF Inv, AnswerIsFirst, ApprovedByFirstAnswer
  <1>9. GateHoldsTheWaiting'
    <2>1. ASSUME NEW q \in Request, state'[q] = "waiting", answer'[q] = Nothing
          PROVE  /\ idOf'[q] \in DOMAIN pending'[HomeOf[q]]
                 /\ pending'[HomeOf[q]][idOf'[q]] = q
      <3>1. /\ q # r /\ state[q] = "waiting" /\ answer[q] = Nothing
            /\ idOf'[q] = idOf[q] /\ HomeOf[q] \in Session
        BY <2>1, <1>2, <1>6
      <3>2. idOf[q] \in DOMAIN pending[HomeOf[q]] /\ pending[HomeOf[q]][idOf[q]] = q
        BY <3>1 DEF Inv, GateHoldsTheWaiting
      <3>3. HomeOf[q] = h => idOf[q] # i
        BY <3>1, <1>2 DEF Inv, UniqueIds
      <3> QED
        BY <3>1, <3>2, <3>3, <1>4, <1>5
    <2>2. ASSUME NEW s \in Session, NEW id \in DOMAIN pending'[s]
          PROVE  LET q == pending'[s][id]
                 IN  HomeOf[q] = s /\ idOf'[q] = id /\ state'[q] \in {"waiting", "dropped"}
      <3>1. /\ id \in DOMAIN pending[s] /\ pending'[s][id] = pending[s][id]
            /\ ~(s = h /\ id = i)
        BY <2>2, <1>4, <1>5
      <3>2. /\ HomeOf[pending[s][id]] = s /\ idOf[pending[s][id]] = id
            /\ state[pending[s][id]] \in {"waiting", "dropped"}
            /\ pending[s][id] \in Request
        BY <3>1 DEF Inv, GateHoldsTheWaiting, ApprovalsTypeOK, IsTable
      <3>3. pending[s][id] # r
        BY <3>1, <3>2
      <3> QED
        BY <3>1, <3>2, <3>3, <1>2, <1>6
    <2> QED
      BY <2>1, <2>2 DEF GateHoldsTheWaiting
  <1>10. AnswerIsFirst'
    <2>1. ASSUME NEW q \in Request, idOf[q] \in DOMAIN pending'[HomeOf[q]]
          PROVE  idOf[q] \in DOMAIN pending[HomeOf[q]]
      BY <2>1, <1>4, <1>5
    <2> QED
      BY <2>1, <1>2, <1>6 DEF Inv, AnswerIsFirst
  <1> QED
    BY <1>7, <1>8, <1>9, <1>10 DEF Inv

\* A dropped request leaves its entry, and nothing else changes.
LEMMA DropInv ==
  ASSUME Inv, NEW r \in Request, Drop(r)
  PROVE  Inv'
  <1> USE HomeAssumption
  <1>1. ApprovalsTypeOK'
    BY GateStepType DEF GateStep, Inv
  <1>2. /\ state' = [state EXCEPT ![r] = "dropped"] /\ state[r] = "waiting"
        /\ UNCHANGED <<auto, pending, idOf, answer, first>> /\ ~auto
    BY DEF Drop, history, Inv, NobodyAsked
  <1>3. state'[r] = "dropped" /\ \A q \in Request : q # r => state'[q] = state[q]
    BY <1>2 DEF Inv, ApprovalsTypeOK
  <1>4. NobodyAsked' /\ UniqueIds' /\ ApprovedByFirstAnswer'
    BY <1>2, <1>3 DEF Inv, NobodyAsked, UniqueIds, ApprovedByFirstAnswer
  <1>5. GateHoldsTheWaiting'
    BY <1>2, <1>3 DEF Inv, ApprovalsTypeOK, GateHoldsTheWaiting, IsTable
  <1>6. AnswerIsFirst'
    BY <1>2, <1>3 DEF Inv, AnswerIsFirst
  <1> QED
    BY <1>1, <1>4, <1>5, <1>6 DEF Inv

\* An answer goes to the request that holds the id in the gate it is sent to, if
\* any, and it is the first that request is sent.
LEMMA DecideInv ==
  ASSUME Inv, NEW c \in Client, NEW id \in DOMAIN shown[c],
         NEW verdict \in Verdict, Decide(c, id, verdict)
  PROVE  Inv'
  <1> DEFINE s == bound[c]
             q == pending[s][id]
  <1> USE HomeAssumption, UnboundAssumption
  <1>1. ApprovalsTypeOK'
    BY ClientStepType DEF ClientStep, Inv
  <1>2. /\ UNCHANGED <<auto, state, idOf>>
        /\ first' = [r \in Request |->
                       IF /\ state[r] = "waiting" /\ first[r] = Nothing
                          /\ HomeOf[r] = s /\ idOf[r] = id
                         THEN verdict ELSE first[r]]
    BY DEF Decide, Note
  <1>3. NobodyAsked' /\ UniqueIds' /\ ApprovedByFirstAnswer'
    BY <1>2 DEF Inv, NobodyAsked, UniqueIds, ApprovedByFirstAnswer
  <1>4. CASE s = Unbound \/ id \notin DOMAIN pending[s]
    <2>1. UNCHANGED <<pending, answer>>
      BY <1>4 DEF Decide, Resolve
    <2>2. GateHoldsTheWaiting'
      BY <2>1, <1>2 DEF Inv, GateHoldsTheWaiting
    <2>3. \A r \in Request : state[r] = "waiting" => first'[r] = first[r]
      <3> SUFFICES ASSUME NEW r \in Request, state[r] = "waiting", first[r] = Nothing,
                          HomeOf[r] = s, idOf[r] = id
                   PROVE  FALSE
        BY <1>2
      <3>1. answer[r] = Nothing /\ s \in Session
        BY DEF Inv, AnswerIsFirst
      <3>2. id \in DOMAIN pending[s]
        BY <3>1 DEF Inv, GateHoldsTheWaiting
      <3> QED
        BY <3>1, <3>2, <1>4
    <2>4. AnswerIsFirst'
      BY <2>1, <2>3, <1>2 DEF Inv, AnswerIsFirst
    <2> QED
      BY <1>1, <1>3, <2>2, <2>4 DEF Inv
  <1>5. CASE s # Unbound /\ id \in DOMAIN pending[s]
    <2>1. s \in Session /\ IsTable(pending[s])
      BY <1>5 DEF Inv, ApprovalsTypeOK
    <2>2. /\ q \in Request /\ HomeOf[q] = s /\ idOf[q] = id
          /\ state[q] \in {"waiting", "dropped"}
      BY <1>5, <2>1 DEF Inv, GateHoldsTheWaiting, IsTable
    <2>3. /\ pending' = [pending EXCEPT ![s] = Without(pending[s], id)]
          /\ answer' = [answer EXCEPT ![q] = verdict]
      BY <1>5, <2>1 DEF Decide, Resolve, Inv, ApprovalsTypeOK
    <2>4. /\ DOMAIN Without(pending[s], id) = DOMAIN pending[s] \ {id}
          /\ \A j \in DOMAIN pending[s] : j # id => Without(pending[s], id)[j] = pending[s][j]
      BY <2>1, WithoutTable
    <2>5. \A t \in Session :
            pending'[t] = IF t = s THEN Without(pending[s], id) ELSE pending[t]
      BY <2>1, <2>3, ReplacedTable DEF Inv
    <2>6. ~auto
      BY <2>2 DEF Inv, NobodyAsked
    <2>7. \A r \in Request :
            r # q /\ HomeOf[r] = s /\ state[r] # "unasked" => idOf[r] # id
      BY <2>2, <2>6 DEF Inv, UniqueIds
    <2>8. /\ answer'[q] = verdict
          /\ \A r \in Request : r # q => answer'[r] = answer[r]
      BY <2>2, <2>3 DEF Inv, ApprovalsTypeOK
    <2>9. \A r \in Request : r # q => first'[r] = first[r]
      BY <1>2, <2>7
    <2>10. state[q] = "waiting" => first'[q] = verdict
      <3>1. state[q] = "waiting" => first[q] = Nothing
        BY <1>5, <2>2 DEF Inv, AnswerIsFirst
      <3> QED
        BY <3>1, <1>2, <2>2
    <2>11. GateHoldsTheWaiting'
      <3>1. ASSUME NEW r \in Request, state'[r] = "waiting", answer'[r] = Nothing
            PROVE  /\ idOf'[r] \in DOMAIN pending'[HomeOf[r]]
                   /\ pending'[HomeOf[r]][idOf'[r]] = r
        <4>1. r # q
          BY <3>1, <2>8 DEF Verdict, Nothing
        <4>2. /\ state[r] = "waiting" /\ answer[r] = Nothing
              /\ idOf'[r] = idOf[r] /\ HomeOf[r] \in Session
          BY <3>1, <4>1, <1>2, <2>8
        <4>3. idOf[r] \in DOMAIN pending[HomeOf[r]] /\ pending[HomeOf[r]][idOf[r]] = r
          BY <4>2 DEF Inv, GateHoldsTheWaiting
        <4>4. HomeOf[r] = s => idOf[r] # id
          BY <4>1, <4>2, <2>7
        <4> QED
          BY <4>2, <4>3, <4>4, <2>4, <2>5
      <3>2. ASSUME NEW t \in Session, NEW j \in DOMAIN pending'[t]
            PROVE  LET r == pending'[t][j]
                   IN  HomeOf[r] = t /\ idOf'[r] = j /\ state'[r] \in {"waiting", "dropped"}
        <4>1. j \in DOMAIN pending[t] /\ pending'[t][j] = pending[t][j]
          BY <3>2, <2>4, <2>5
        <4>2. /\ HomeOf[pending[t][j]] = t /\ idOf[pending[t][j]] = j
              /\ state[pending[t][j]] \in {"waiting", "dropped"}
          BY <4>1 DEF Inv, GateHoldsTheWaiting
        <4> QED
          BY <4>1, <4>2, <1>2
      <3> QED
        BY <3>1, <3>2 DEF GateHoldsTheWaiting
    <2>12. AnswerIsFirst'
      <3>1. ASSUME NEW r \in Request, idOf[r] \in DOMAIN pending'[HomeOf[r]]
            PROVE  idOf[r] \in DOMAIN pending[HomeOf[r]] /\ r # q
        BY <3>1, <2>2, <2>4, <2>5
      <3>2. ASSUME NEW r \in Request
            PROVE  /\ state[r] = "unasked" => answer'[r] = Nothing /\ first'[r] = Nothing
                   /\ state[r] = "waiting" => first'[r] = answer'[r]
        BY <2>2, <2>8, <2>9, <2>10 DEF Inv, AnswerIsFirst
      <3>3. ASSUME NEW r \in Request, state[r] = "waiting",
                   idOf[r] \in DOMAIN pending'[HomeOf[r]]
            PROVE  answer'[r] = Nothing
        BY <3>1, <3>3, <2>8 DEF Inv, AnswerIsFirst
      <3> QED
        BY <3>2, <3>3, <1>2 DEF AnswerIsFirst
    <2> QED
      BY <1>1, <1>3, <2>11, <2>12 DEF Inv
  <1> QED
    BY <1>4, <1>5

\* Binding, reconnecting and showing a request leave the gates alone.
LEMMA GateUnchanged ==
  ASSUME Inv, ApprovalsTypeOK', UNCHANGED <<auto, gateVars, first>>
  PROVE  Inv'
  BY DEF Inv, gateVars, NobodyAsked, UniqueIds, GateHoldsTheWaiting, AnswerIsFirst,
         ApprovedByFirstAnswer

\* Every step keeps the invariant.
LEMMA NextInv ==
  ASSUME Inv, [ApprovalsNext]_approvalsVars
  PROVE  Inv'
  <1>0. ApprovalsTypeOK'
    BY NextType DEF Inv
  <1>1. ASSUME NEW r \in Request, GateStep(r) PROVE Inv'
    <2>1. CASE TakeAnswer(r)
      <3> DEFINE outcome == IF answer[r] = "yes" THEN "approved" ELSE "denied"
      <3>1. /\ outcome \in {"approved", "denied"}
            /\ outcome = "approved" => answer[r] = "yes"
            /\ SettleAs(r, outcome)
        BY <2>1 DEF TakeAnswer
      <3> HIDE DEF outcome
      <3> QED
        BY <3>1, <1>0, SettleInv
    <2>2. CASE TimeOut(r)
      BY <2>2, <1>0, SettleInv DEF TimeOut
    <2> QED
      BY <1>1, <2>1, <2>2, AutoApproveInv, AskInv, DropInv DEF GateStep
  <1>2. ASSUME NEW c \in Client, ClientStep(c) PROVE Inv'
    <2>1. ASSUME NEW s \in Session, BindClient(c, s) PROVE Inv'
      BY <2>1, <1>0, GateUnchanged DEF BindClient, history
    <2>2. CASE Reconnect(c)
      BY <2>2, <1>0, GateUnchanged DEF Reconnect, history
    <2>3. ASSUME NEW r \in Request, Show(c, r) PROVE Inv'
      BY <2>3, <1>0, GateUnchanged DEF Show, history
    <2> QED
      BY <1>2, <2>1, <2>2, <2>3, DecideInv DEF ClientStep
  <1>3. CASE UNCHANGED approvalsVars
    BY <1>3, <1>0, GateUnchanged DEF approvalsVars, history
  <1> QED
    BY <1>1, <1>2, <1>3 DEF ApprovalsNext

\* The invariant holds at the start.
LEMMA InitInv == ASSUME ApprovalsInit PROVE Inv
  <1>1. ApprovalsTypeOK
    BY InitType
  <1>2. \A s \in Session : DOMAIN pending[s] = {}
    BY NoEntriesTable DEF ApprovalsInit
  <1>3. \A r \in Request :
          state[r] = "unasked" /\ answer[r] = Nothing /\ first[r] = Nothing
    BY DEF ApprovalsInit
  <1> QED
    BY <1>1, <1>2, <1>3
    DEF Inv, NobodyAsked, UniqueIds, GateHoldsTheWaiting, AnswerIsFirst, ApprovedByFirstAnswer

\* The invariant in every reachable state.
LEMMA InvHolds == ApprovalsSpec => []Inv
  BY InitInv, NextInv, PTL DEF ApprovalsSpec

\* Every waiting request that has had no answer can still be answered, and what
\* a gate still holds for nobody was left by dropped tasks.
THEOREM GateHolds == ApprovalsSpec => []GateHoldsTheWaiting
  <1>1. Inv => GateHoldsTheWaiting
    BY DEF Inv
  <1> QED
    BY <1>1, InvHolds, PTL

\* However answers race each other, the timeout and the drop of the task, a call
\* is approved by the first answer for it or not at all.
THEOREM ApprovedByFirst == ApprovalsSpec => []ApprovedByFirstAnswer
  <1>1. Inv => ApprovedByFirstAnswer
    BY DEF Inv
  <1> QED
    BY <1>1, InvHolds, PTL

-----------------------------------------------------------------------------
(* The feed: the turns in it.                                              *)

\* Has the turn published anything.
Begun(t) == \E p \in DOMAIN published : published[p].turn = t

\* What a turn has in its channel and in the feed.
TurnInOrder(t) ==
  /\ stage[t] = "unsent" => queue[t] = <<>> /\ ~Begun(t)
  /\ \A i \in DOMAIN queue[t] :
       /\ queue[t][i].turn = t
       /\ queue[t][i].kind = "started" => i = 1 /\ ~Begun(t)
       /\ queue[t][i].kind = "complete" => i = Len(queue[t]) /\ stage[t] = "closed"
  /\ \A p, q \in DOMAIN published :
       published[p].turn = t /\ published[q].turn = t =>
         /\ published[q].kind = "started" => q <= p
         /\ published[q].kind = "complete" =>
              p <= q /\ queue[t] = <<>> /\ stage[t] = "closed"

\* The first state has the types.
LEMMA FeedInitType == ASSUME Init PROVE TypeOK
  BY CapsAssumption, BoundsAssumption DEF Init, TypeOK, Stages, Relay, NoRelay, NothingSent, Event, Entry

\* A turn sends into its own channel.
LEMMA SendType ==
  ASSUME TypeOK, NEW t \in Turn, NEW kind \in {"started", "delta", "answer", "complete"},
         Send(t, kind)
  PROVE  /\ queue' \in [Turn -> Seq(Event)]
         /\ \A u \in Turn : Len(queue'[u]) <= QueueCap
         /\ queue'[t] = Append(queue[t], [turn |-> t, kind |-> kind])
         /\ \A u \in Turn : u # t => queue'[u] = queue[u]
<1>1. [turn |-> t, kind |-> kind] \in Event
  BY DEF Event
<1>2. queue \in [Turn -> Seq(Event)] /\ QueueCap \in Nat
  BY CapsAssumption DEF TypeOK
<1> QED BY <1>1, <1>2 DEF Send, TypeOK

\* A turn's steps keep the types.
LEMMA TurnType ==
  ASSUME TypeOK, NEW t \in Turn, TurnStep(t)
  PROVE  TypeOK'
<1> USE BoundsAssumption
<1>1. CASE Prompt(t)
  BY <1>1, SendType DEF Prompt, TypeOK, Stages, connVars
<1>2. ASSUME NEW kind \in {"delta", "answer"}, Emit(t, kind) PROVE TypeOK'
  <2>1. Send(t, kind) /\ kind \in {"started", "delta", "answer", "complete"}
    BY <1>2 DEF Emit
  <2>2. queue' \in [Turn -> Seq(Event)] /\ \A u \in Turn : Len(queue'[u]) <= QueueCap
    BY <2>1, SendType
  <2>3. emitted' \in 0..MaxEvents
    BY <1>2 DEF Emit, TypeOK
  <2> QED BY <1>2, <2>2, <2>3 DEF Emit, TypeOK, Stages, connVars
<1>3. CASE EndTurn(t)
  BY <1>3 DEF EndTurn, TypeOK, Stages, connVars
<1>4. CASE SendComplete(t)
  BY <1>4, SendType DEF SendComplete, TypeOK, Stages, connVars
<1>5. CASE Publish(t)
  <2>1. Head(queue[t]) \in Event /\ Tail(queue[t]) \in Seq(Event) /\ Len(Tail(queue[t])) <= Len(queue[t])
    BY <1>5 DEF Publish, TypeOK
  <2>2. published' \in Seq(Event)
    BY <1>5, <2>1 DEF Publish, TypeOK
  <2>3. queue' \in [Turn -> Seq(Event)] /\ \A u \in Turn : Len(queue'[u]) <= QueueCap
    BY <1>5, <2>1, CapsAssumption DEF Publish, TypeOK
  <2> QED BY <1>5, <2>2, <2>3 DEF Publish, TypeOK, connVars
<1> QED BY <1>1, <1>2, <1>3, <1>4, <1>5 DEF TurnStep

\* A connection changes nothing of the turns.
LEMMA ConnLeavesTurns ==
  ASSUME NEW c \in Conn, ConnStep(c) PROVE UNCHANGED turnVars
BY DEF ConnStep, Select, Authenticate, BindFails, Attach, Replay, StartRelay, RelayNext,
       AbortedSends, AbortedStops, Close

\* Nothing changes for a turn that does nothing and publishes nothing.
LEMMA OrderKept ==
  ASSUME NEW t \in Turn, TurnInOrder(t), UNCHANGED <<published, stage[t], queue[t]>>
  PROVE  TurnInOrder(t)'
BY DEF TurnInOrder, Begun

\* What a turn sends comes after what it sent.
LEMMA SendOrder ==
  ASSUME TypeOK, NEW t \in Turn, TurnInOrder(t), published' = published,
         NEW kind \in {"started", "delta", "answer", "complete"}, Send(t, kind),
         stage'[t] # "unsent", stage[t] # "closed",
         kind = "started" => stage[t] = "unsent",
         kind = "complete" => stage'[t] = "closed"
  PROVE  TurnInOrder(t)'
<1> DEFINE q == queue[t]
           e == [turn |-> t, kind |-> kind]
<1>1. queue'[t] = Append(q, e) /\ q \in Seq(Event)
  BY SendType DEF TypeOK
<1>2. /\ Len(queue'[t]) = Len(q) + 1 /\ DOMAIN queue'[t] = 1..Len(q) + 1
      /\ DOMAIN q = 1..Len(q) /\ Len(q) \in Nat
      /\ \A i \in DOMAIN queue'[t] : queue'[t][i] = IF i = Len(q) + 1 THEN e ELSE q[i]
  BY <1>1
<1>3. Begun(t)' <=> Begun(t)
  BY DEF Begun
<1>4. ASSUME NEW i \in DOMAIN queue'[t]
      PROVE  /\ queue'[t][i].turn = t
             /\ queue'[t][i].kind = "started" => i = 1 /\ ~Begun(t)
             /\ queue'[t][i].kind = "complete" => i = Len(queue'[t]) /\ stage'[t] = "closed"
  <2>1. CASE i = Len(q) + 1
    BY <2>1, <1>2 DEF TurnInOrder
  <2>2. CASE i # Len(q) + 1
    <3>1. i \in DOMAIN q /\ queue'[t][i] = q[i]
      BY <2>2, <1>2
    <3> QED BY <3>1 DEF TurnInOrder
  <2> QED BY <2>1, <2>2
<1>5. ASSUME NEW p \in DOMAIN published, NEW s \in DOMAIN published,
             published[p].turn = t, published[s].turn = t
      PROVE  /\ published[s].kind = "started" => s <= p
             /\ published[s].kind # "complete"
  BY <1>5 DEF TurnInOrder
<1> QED BY <1>3, <1>4, <1>5 DEF TurnInOrder

\* The next event of its channel comes after what a turn published.
LEMMA PublishOrder ==
  ASSUME TypeOK, NEW t \in Turn, TurnInOrder(t), Publish(t)
  PROVE  TurnInOrder(t)'
<1> DEFINE q == queue[t]
           n == Len(published)
<1>1. q \in Seq(Event) /\ q # <<>> /\ published \in Seq(Event) /\ n \in Nat
  BY DEF Publish, TypeOK
<1>2. /\ DOMAIN published' = 1..n + 1 /\ DOMAIN published = 1..n
      /\ published'[n + 1] = q[1] /\ \A p \in 1..n : published'[p] = published[p]
  BY <1>1 DEF Publish
<1>3. queue'[t] = Tail(q) /\ stage' = stage
  BY DEF Publish, TypeOK
<1>4. /\ Len(q) \in Nat \ {0} /\ DOMAIN q = 1..Len(q) /\ Len(Tail(q)) = Len(q) - 1
      /\ DOMAIN Tail(q) = 1..Len(q) - 1 /\ \A i \in 1..Len(q) - 1 : Tail(q)[i] = q[i + 1]
  BY <1>1
<1>5. 1 \in DOMAIN q /\ q[1].turn = t
  BY <1>4 DEF TurnInOrder
<1>6. stage[t] # "unsent"
  BY <1>1 DEF TurnInOrder
<1>7. ASSUME NEW i \in DOMAIN queue'[t]
      PROVE  /\ queue'[t][i].turn = t
             /\ queue'[t][i].kind # "started"
             /\ queue'[t][i].kind = "complete" => i = Len(queue'[t]) /\ stage'[t] = "closed"
  <2>1. i + 1 \in DOMAIN q /\ queue'[t][i] = q[i + 1] /\ i \in Nat /\ i + 1 # 1
    BY <1>3, <1>4
  <2>2. i + 1 = Len(q) => i = Len(queue'[t])
    BY <2>1, <1>3, <1>4
  <2> QED BY <2>1, <2>2, <1>3 DEF TurnInOrder
<1>8. ASSUME NEW p \in DOMAIN published', NEW s \in DOMAIN published',
             published'[p].turn = t, published'[s].turn = t
      PROVE  /\ published'[s].kind = "started" => s <= p
             /\ published'[s].kind = "complete" =>
                  p <= s /\ queue'[t] = <<>> /\ stage'[t] = "closed"
  <2>1. CASE s = n + 1
    <3>1. published'[s] = q[1]
      BY <2>1, <1>2
    <3>2. CASE q[1].kind = "started"
      <4>1. ~Begun(t)
        BY <3>2, <1>5 DEF TurnInOrder
      <4>2. p = n + 1
        BY <4>1, <1>2, <1>8 DEF Begun
      <4> QED BY <2>1, <3>1, <3>2, <4>2
    <3>3. CASE q[1].kind = "complete"
      <4>1. Len(q) = 1 /\ stage[t] = "closed"
        BY <3>3, <1>5 DEF TurnInOrder
      <4>2. queue'[t] = <<>>
        <5>1. queue'[t] \in Seq(Event) /\ Len(queue'[t]) = 0
          BY <4>1, <1>1, <1>3, <1>4
        <5> QED BY <5>1
      <4> QED BY <2>1, <3>1, <3>3, <4>1, <4>2, <1>2, <1>3
    <3> QED BY <3>1, <3>2, <3>3
  <2>2. CASE s # n + 1
    <3>1. s \in DOMAIN published /\ published'[s] = published[s] /\ s <= n
      BY <2>2, <1>1, <1>2
    <3>2. published[s].kind # "complete"
      BY <3>1, <1>1, <1>8 DEF TurnInOrder
    <3>3. CASE p = n + 1
      BY <3>1, <3>2, <3>3, <1>1
    <3>4. CASE p # n + 1
      <4>1. p \in DOMAIN published /\ published'[p] = published[p]
        BY <3>4, <1>1, <1>2
      <4> QED BY <3>1, <3>2, <4>1, <1>8 DEF TurnInOrder
    <3> QED BY <3>3, <3>4
  <2> QED BY <2>1, <2>2
<1> QED BY <1>3, <1>6, <1>7, <1>8 DEF TurnInOrder

\* What one turn publishes is nothing of another's.
LEMMA PublishOthers ==
  ASSUME TypeOK, NEW t \in Turn, TurnInOrder(t), Publish(t),
         NEW u \in Turn, u # t, TurnInOrder(u)
  PROVE  TurnInOrder(u)'
<1> DEFINE n == Len(published)
<1>1. queue[t] \in Seq(Event) /\ queue[t] # <<>> /\ published \in Seq(Event) /\ n \in Nat
  BY DEF Publish, TypeOK
<1>2. /\ DOMAIN published' = 1..n + 1 /\ DOMAIN published = 1..n
      /\ published'[n + 1] = queue[t][1] /\ \A p \in 1..n : published'[p] = published[p]
  BY <1>1 DEF Publish
<1>3. queue[t][1].turn = t
  BY <1>1 DEF TurnInOrder
<1>4. \A p \in DOMAIN published' :
        published'[p].turn = u => p \in DOMAIN published /\ published'[p] = published[p]
  BY <1>1, <1>2, <1>3
<1>5. Begun(u)' => Begun(u)
  BY <1>4 DEF Begun
<1>6. queue'[u] = queue[u] /\ stage' = stage
  BY DEF Publish, TypeOK
<1> QED BY <1>4, <1>5, <1>6 DEF TurnInOrder

\* Every step of a turn keeps the turns in order.
LEMMA TurnsInOrder ==
  ASSUME TypeOK, \A u \in Turn : TurnInOrder(u), NEW t \in Turn, TurnStep(t)
  PROVE  \A u \in Turn : TurnInOrder(u)'
<1> TAKE u \in Turn
<1>0. TypeOK /\ TurnInOrder(t) /\ TurnInOrder(u) /\ stage \in [Turn -> Stages]
      /\ queue \in [Turn -> Seq(Event)]
  BY DEF TypeOK
<1>1. CASE Prompt(t)
  <2>1. u # t => TurnInOrder(u)'
    BY <1>0, <1>1, SendType, OrderKept DEF Prompt
  <2>2. stage'[t] = "running" /\ stage[t] = "unsent" /\ published' = published /\ Send(t, "started")
    BY <1>0, <1>1 DEF Prompt
  <2>3. TurnInOrder(t)'
    BY <1>0, <2>2, SendOrder
  <2> QED BY <2>1, <2>3
<1>2. ASSUME NEW kind \in {"delta", "answer"}, Emit(t, kind) PROVE TurnInOrder(u)'
  <2>1. u # t => TurnInOrder(u)'
    BY <1>0, <1>2, SendType, OrderKept DEF Emit
  <2>2. stage'[t] = "running" /\ stage[t] = "running" /\ published' = published /\ Send(t, kind)
    BY <1>0, <1>2 DEF Emit
  <2>3. TurnInOrder(t)'
    BY <1>0, <2>2, SendOrder
  <2> QED BY <2>1, <2>3
<1>3. CASE EndTurn(t)
  <2>1. u # t => TurnInOrder(u)'
    BY <1>0, <1>3, OrderKept DEF EndTurn
  <2>2. stage'[t] = "ended" /\ stage[t] = "running" /\ published' = published /\ queue' = queue
    BY <1>0, <1>3 DEF EndTurn
  <2>3. Begun(t)' <=> Begun(t)
    BY <2>2 DEF Begun
  <2>4. TurnInOrder(t)'
    BY <1>0, <2>2, <2>3 DEF TurnInOrder
  <2> QED BY <2>1, <2>4
<1>4. CASE SendComplete(t)
  <2>1. u # t => TurnInOrder(u)'
    BY <1>0, <1>4, SendType, OrderKept DEF SendComplete
  <2>2. /\ stage'[t] = "closed" /\ stage[t] = "ended" /\ published' = published
        /\ Send(t, "complete")
    BY <1>0, <1>4 DEF SendComplete
  <2>3. TurnInOrder(t)'
    BY <1>0, <2>2, SendOrder
  <2> QED BY <2>1, <2>3
<1>5. CASE Publish(t)
  BY <1>0, <1>5, PublishOrder, PublishOthers
<1> QED BY <1>1, <1>2, <1>3, <1>4, <1>5 DEF TurnStep


\* A connection's bindings and the relays that may still send: one for an
\* attachment, and none for one that is still replaying.
BindsOK(c) ==
  /\ Bind(c) <= MaxBinds
  /\ mode[c] = "binding" => Bind(c) < MaxBinds
  /\ mode[c] = "replaying" => Bind(c) > 0
  /\ \A k \in 1..Bind(c) : attachedAt[c][k] <= Len(published)
  /\ \A k \in 1..MaxBinds : k > Bind(c) => sent[c][k] = <<>>

\* The relays that may still send, and the one that does.
Relays(c) == aborted[c] \union ({relay[c]} \ {NoRelay})

RelaysOK(c) ==
  /\ \A r \in Relays(c) :
       r.bind \in 1..Bind(c) /\ (mode[c] = "replaying" => r.bind # Bind(c))
  /\ \A r, s \in aborted[c] : r.bind = s.bind => r = s
  /\ \A r \in aborted[c] : r.bind # relay[c].bind

\* Where an attachment's last entry ends.
LastTo(c, k) == sent[c][k][Len(sent[c][k])].to

\* After what an attachment was sent, nothing is left out before n.
Follows(c, k, n) ==
  sent[c][k] # <<>> =>
    /\ LastTo(c, k) < n
    /\ \A p \in LastTo(c, k) + 1..n - 1 :
         published[p].kind = "delta" /\ p <= attachedAt[c][k]

\* A replay has still to send every recent event after those it sent.
ReplayOK(c) ==
  LET k == Bind(c)
  IN  mode[c] = "replaying" =>
        /\ \A p \in backlog[c] :
             p \in 1..attachedAt[c][k] /\ (sent[c][k] # <<>> => LastTo(c, k) < p)
        /\ sent[c][k] # <<>> => LastTo(c, k) <= attachedAt[c][k]
        /\ \A q \in 1..attachedAt[c][k] :
             \/ sent[c][k] # <<>> /\ LastTo(c, k) < q
             \/ \E p \in backlog[c] : p < q
             => q \in backlog[c] \/ published[q].kind = "delta"

\* NothingLostUnsaid for one connection, and what each relay goes on with.
GapsOK(c) ==
  /\ \A k \in 1..MaxBinds : \A i \in 1..Len(sent[c][k]) - 1 :
       LET a == sent[c][k][i]
           b == sent[c][k][i + 1]
       IN  /\ a.to < b.from
           /\ \A p \in a.to + 1..b.from - 1 :
                published[p].kind = "delta" /\ p <= attachedAt[c][k]
  /\ \A r \in Relays(c) : Follows(c, r.bind, r.next)

\* What holds of each connection.
ConnInv(c) == BindsOK(c) /\ RelaysOK(c) /\ ReplayOK(c) /\ GapsOK(c)

-----------------------------------------------------------------------------
\* Types.

\* One more entry of one attachment.
LEMMA SaysType ==
  ASSUME TypeOK, NEW c \in Conn, NEW k \in 1..MaxBinds, NEW e \in Entry,
         sent' = [sent EXCEPT ![c][k] = Append(@, e)]
  PROVE  /\ sent' \in [Conn -> [1..MaxBinds -> Seq(Entry)]]
         /\ sent'[c][k] = Append(sent[c][k], e)
         /\ \A j \in 1..MaxBinds : j # k => sent'[c][j] = sent[c][j]
         /\ \A d \in Conn : d # c => sent'[d] = sent[d]
<1>1. sent \in [Conn -> [1..MaxBinds -> Seq(Entry)]]
  BY DEF TypeOK
<1>2. sent[c] \in [1..MaxBinds -> Seq(Entry)] /\ sent[c][k] \in Seq(Entry)
  BY <1>1
<1>3. Append(sent[c][k], e) \in Seq(Entry)
  BY <1>2
<1>4. sent' = [sent EXCEPT ![c] = [sent[c] EXCEPT ![k] = Append(sent[c][k], e)]]
  OBVIOUS
<1>5. [sent[c] EXCEPT ![k] = Append(sent[c][k], e)] \in [1..MaxBinds -> Seq(Entry)]
  BY <1>2, <1>3
<1> QED BY <1>1, <1>2, <1>4, <1>5

\* The last entry ends at a position.
LEMMA LastType ==
  ASSUME TypeOK, NEW c \in Conn, NEW k \in 1..MaxBinds, sent[c][k] # <<>>
  PROVE  LastTo(c, k) \in Nat
<1>1. sent[c][k] \in Seq(Entry)
  BY DEF TypeOK
<1>2. Len(sent[c][k]) \in 1..Len(sent[c][k])
  BY <1>1
<1>3. sent[c][k][Len(sent[c][k])] \in Entry
  BY <1>1, <1>2
<1> QED BY <1>3 DEF LastTo, Entry

\* What a relay is given starts where it is and takes it on.
LEMMA ReceivedType ==
  ASSUME TypeOK, NEW r \in Relay, r.next <= Len(published)
  PROVE  /\ Received(r) \in Entry /\ Past(r) \in Relay /\ Past(r).bind = r.bind
         /\ Received(r).from = r.next /\ Received(r).to >= r.next
         /\ Received(r).to <= Len(published)
         /\ Past(r).next = Received(r).to + 1
<1>1. Len(published) \in Nat /\ LiveCap \in Nat \ {0}
  BY CapsAssumption DEF TypeOK
<1> QED BY <1>1 DEF Received, Past, Relay, Entry

\* A connection's steps keep the types.
LEMMA ConnType ==
  ASSUME TypeOK, NEW c \in Conn, BindsOK(c), RelaysOK(c), ConnStep(c)
  PROVE  TypeOK'
<1> USE BoundsAssumption
<1>0. Bind(c) \in Nat /\ attachedAt[c] \in Seq(Nat) /\ Len(published) \in Nat
  BY DEF TypeOK, Bind
<1>1. CASE Select(c)
  BY <1>1 DEF Select, TypeOK, turnVars
<1>2. CASE Authenticate(c)
  BY <1>2 DEF Authenticate, TypeOK, turnVars, NoRelay, Relay
<1>3. CASE BindFails(c)
  BY <1>3 DEF BindFails, TypeOK, turnVars
<1>4. CASE Attach(c)
  <2>1. Ring \subseteq Nat
    BY DEF Ring, Kept, TypeOK
  <2>2. backlog' \in [Conn -> SUBSET Nat]
    BY <1>4, <2>1 DEF Attach, TypeOK
  <2>3. attachedAt' \in [Conn -> Seq(Nat)]
    BY <1>0, <1>4 DEF Attach, TypeOK
  <2> QED BY <1>4, <2>2, <2>3 DEF Attach, TypeOK, turnVars
<1>5. CASE Replay(c)
  <2>1. PICK p \in backlog[c] :
          /\ \A q \in backlog[c] : p <= q
          /\ backlog' = [backlog EXCEPT ![c] = @ \ {p}]
          /\ sent' = [sent EXCEPT ![c][Bind(c)] =
                        Append(@, [from |-> p, to |-> p, missed |-> FALSE])]
          /\ UNCHANGED <<turnVars, mode, relay, aborted, attachedAt>>
    BY <1>5 DEF Replay
  <2>2. mode[c] = "replaying" /\ p \in Nat
    BY <2>1 DEF TypeOK
  <2>3. Bind(c) \in 1..MaxBinds
    BY <1>0, <2>2 DEF BindsOK
  <2>4. [from |-> p, to |-> p, missed |-> FALSE] \in Entry
    BY <2>2 DEF Entry
  <2>5. sent' \in [Conn -> [1..MaxBinds -> Seq(Entry)]]
    BY <2>1, <2>3, <2>4, SaysType
  <2>6. backlog' \in [Conn -> SUBSET Nat] /\ \A d \in Conn : backlog'[d] \subseteq backlog[d]
    BY <2>1 DEF TypeOK
  <2> QED BY <2>1, <2>5, <2>6 DEF TypeOK, turnVars
<1>6. CASE StartRelay(c)
  <2>1. [next |-> attachedAt[c][Bind(c)] + 1, bind |-> Bind(c)] \in Relay
    BY <1>0, <1>6 DEF Relay, StartRelay, BindsOK, Bind
  <2> QED BY <1>6, <2>1 DEF StartRelay, TypeOK, turnVars
<1>7. ASSUME NEW r \in Relays(c), Forward(c, r)
      PROVE  /\ sent' \in [Conn -> [1..MaxBinds -> Seq(Entry)]] /\ Past(r) \in Relay
  <2>1. r \in Relay /\ r.next <= Len(published) /\ r.bind \in 1..MaxBinds
    BY <1>0, <1>7 DEF Relays, TypeOK, RelaysOK, Forward, BindsOK
  <2> QED BY <1>7, <2>1, ReceivedType, SaysType DEF Forward
<1>8. CASE RelayNext(c)
  <2>1. relay[c] \in Relays(c) /\ Forward(c, relay[c])
    BY <1>8 DEF RelayNext, Relays
  <2> QED BY <1>7, <1>8, <2>1 DEF RelayNext, TypeOK, turnVars
<1>9. ASSUME NEW r \in aborted[c], AbortedSends(c, r) PROVE TypeOK'
  <2>1. r \in Relays(c) /\ Forward(c, r)
    BY <1>9 DEF AbortedSends, Relays
  <2> QED BY <1>7, <1>9, <2>1 DEF AbortedSends, TypeOK, turnVars
<1>10. ASSUME NEW r \in aborted[c], AbortedStops(c, r) PROVE TypeOK'
  BY <1>10 DEF AbortedStops, TypeOK, turnVars
<1>11. CASE Close(c)
  <2>1. <<>> \in Seq(Nat) /\ NothingSent \in [1..MaxBinds -> Seq(Entry)]
    BY DEF NothingSent
  <2> QED BY <1>11, <2>1 DEF Close, TypeOK, turnVars, NoRelay, Relay
<1> QED BY <1>1, <1>2, <1>3, <1>4, <1>5, <1>6, <1>8, <1>9, <1>10, <1>11 DEF ConnStep

-----------------------------------------------------------------------------
\* What the feed publishes changes nothing before the end of the log.

\* A turn's step leaves the log's beginning and the connections alone.
LEMMA PublishedGrows ==
  ASSUME TypeOK, NEW t \in Turn, TurnStep(t)
  PROVE  /\ UNCHANGED connVars
         /\ Len(published) \in Nat /\ Len(published') \in Nat
         /\ Len(published) <= Len(published')
         /\ \A p \in 1..Len(published) : published'[p] = published[p]
<1>1. published \in Seq(Event) /\ UNCHANGED connVars
  BY DEF TypeOK, TurnStep, Prompt, Emit, EndTurn, SendComplete, Publish, connVars
<1>2. CASE Publish(t)
  <2>1. queue[t] \in Seq(Event) /\ queue[t] # <<>>
    BY <1>2 DEF Publish, TypeOK
  <2> QED BY <1>1, <1>2, <2>1 DEF Publish
<1>3. CASE ~Publish(t)
  <2>1. published' = published
    BY <1>3 DEF TurnStep, Prompt, Emit, EndTurn, SendComplete
  <2> QED BY <1>1, <2>1
<1> QED BY <1>2, <1>3

\* What holds of a connection goes on to hold while the log grows.
LEMMA ConnKept ==
  ASSUME TypeOK, NEW c \in Conn, ConnInv(c),
         UNCHANGED <<mode[c], relay[c], aborted[c], backlog[c], attachedAt[c], sent[c]>>,
         Len(published) \in Nat, Len(published') \in Nat,
         Len(published) <= Len(published'),
         \A p \in 1..Len(published) : published'[p] = published[p]
  PROVE  ConnInv(c)'
<1>0. /\ Bind(c)' = Bind(c) /\ Bind(c) \in Nat /\ attachedAt[c] \in Seq(Nat)
      /\ \A k \in 1..Bind(c) : attachedAt[c][k] \in Nat /\ attachedAt[c][k] <= Len(published)
  BY DEF Bind, TypeOK, ConnInv, BindsOK
<1>1. BindsOK(c)'
  BY <1>0 DEF ConnInv, BindsOK
<1>2. RelaysOK(c)'
  BY <1>0 DEF ConnInv, RelaysOK, Relays
<1>3. ReplayOK(c)'
  <2> SUFFICES ASSUME mode[c] = "replaying" PROVE ReplayOK(c)'
    BY DEF ReplayOK
  <2>1. Bind(c) \in 1..Bind(c)
    BY <1>0 DEF ConnInv, BindsOK
  <2>2. \A q \in 1..attachedAt[c][Bind(c)] : published'[q] = published[q]
    BY <1>0, <2>1
  <2> QED BY <1>0, <2>1, <2>2 DEF ConnInv, ReplayOK, LastTo
<1>4. \A k \in 1..MaxBinds : sent[c][k] # <<>> => k \in 1..Bind(c)
  BY <1>0, BoundsAssumption DEF ConnInv, BindsOK
<1>5. \A k \in 1..MaxBinds : sent[c][k] \in Seq(Entry)
  BY DEF TypeOK
<1>6. GapsOK(c)'
  <2>1. ASSUME NEW k \in 1..MaxBinds, NEW i \in 1..Len(sent[c][k]) - 1
        PROVE  LET a == sent[c][k][i]
                   b == sent[c][k][i + 1]
               IN  /\ a.to < b.from
                   /\ \A p \in a.to + 1..b.from - 1 :
                        published'[p].kind = "delta" /\ p <= attachedAt[c][k]
    <3> DEFINE a == sent[c][k][i]
               b == sent[c][k][i + 1]
    <3>1. a.to < b.from /\ \A p \in a.to + 1..b.from - 1 :
                             published[p].kind = "delta" /\ p <= attachedAt[c][k]
      BY DEF ConnInv, GapsOK
    <3>2. sent[c][k] # <<>> /\ a \in Entry /\ b \in Entry
      BY <1>5
    <3>3. k \in 1..Bind(c) /\ a.to \in Nat /\ b.from \in Nat
      BY <3>2, <1>4 DEF Entry
    <3>4. \A p \in a.to + 1..b.from - 1 : published'[p] = published[p]
      <4> TAKE p \in a.to + 1..b.from - 1
      <4>1. p \in Nat /\ p > 0 /\ p <= attachedAt[c][k]
        BY <3>1, <3>3
      <4>2. p <= Len(published)
        BY <3>3, <4>1, <1>0
      <4> QED BY <4>1, <4>2, <1>0
    <3> QED BY <3>1, <3>4
  <2>2. ASSUME NEW r \in Relays(c) PROVE Follows(c, r.bind, r.next)'
    <3>1. Follows(c, r.bind, r.next) /\ r \in Relay /\ r.bind \in 1..Bind(c)
      BY DEF ConnInv, GapsOK, RelaysOK, Relays, TypeOK
    <3>2. r.bind \in 1..MaxBinds
      BY <3>1, <1>0, BoundsAssumption DEF ConnInv, BindsOK
    <3>3. CASE sent[c][r.bind] # <<>>
      <4>1. LastTo(c, r.bind) \in Nat
        BY <3>2, <3>3, LastType
      <4>2. \A p \in LastTo(c, r.bind) + 1..r.next - 1 : published'[p] = published[p]
        <5> TAKE p \in LastTo(c, r.bind) + 1..r.next - 1
        <5>1. p \in Nat /\ p > 0 /\ p <= attachedAt[c][r.bind]
          BY <3>1, <3>3, <4>1 DEF Follows, Relay
        <5>2. p <= Len(published)
          BY <3>1, <5>1, <1>0
        <5> QED BY <5>1, <5>2, <1>0
      <4> QED BY <3>1, <4>2 DEF Follows, LastTo
    <3> QED BY <3>3 DEF Follows
  <2>3. Relays(c)' = Relays(c)
    BY DEF Relays
  <2> QED BY <2>1, <2>2, <2>3 DEF GapsOK
<1> QED BY <1>1, <1>2, <1>3, <1>6 DEF ConnInv


\* A bind that begins or fails.
LEMMA LoopInv ==
  ASSUME TypeOK, NEW c \in Conn, ConnInv(c), Select(c) \/ BindFails(c)
  PROVE  ConnInv(c)'
<1>1. /\ UNCHANGED <<published, relay, aborted, backlog, attachedAt, sent>>
      /\ mode'[c] # "replaying" /\ (mode'[c] = "binding" => Bind(c) < MaxBinds)
  BY DEF Select, BindFails, turnVars, TypeOK
<1>2. Bind(c)' = Bind(c) /\ Relays(c)' = Relays(c)
  BY <1>1 DEF Bind, Relays
<1>3. BindsOK(c)'
  BY <1>1, <1>2 DEF ConnInv, BindsOK
<1>4. RelaysOK(c)'
  BY <1>1, <1>2 DEF ConnInv, RelaysOK
<1>5. ReplayOK(c)'
  BY <1>1 DEF ReplayOK
<1>6. GapsOK(c)'
  BY <1>1, <1>2 DEF ConnInv, GapsOK, Follows, LastTo
<1> QED BY <1>3, <1>4, <1>5, <1>6 DEF ConnInv

\* The relay a connection had joins the aborted ones.
LEMMA AuthenticateInv ==
  ASSUME TypeOK, NEW c \in Conn, ConnInv(c), Authenticate(c)
  PROVE  ConnInv(c)'
<1>1. /\ UNCHANGED <<published, backlog, attachedAt, sent>>
      /\ mode[c] = "open" /\ mode'[c] = "binding" /\ Bind(c) < MaxBinds
      /\ relay[c] # NoRelay /\ relay'[c] = NoRelay
      /\ aborted'[c] = aborted[c] \union {relay[c]}
  BY DEF Authenticate, turnVars, TypeOK
<1>2. Bind(c)' = Bind(c) /\ Relays(c)' = Relays(c)
  BY <1>1 DEF Bind, Relays
<1>3. BindsOK(c)'
  BY <1>1, <1>2 DEF ConnInv, BindsOK
<1>4. RelaysOK(c)'
  <2>1. \A r \in Relays(c) : r.bind \in 1..Bind(c)
    BY DEF ConnInv, RelaysOK
  <2>2. \A r, s \in aborted'[c] : r.bind = s.bind => r = s
    BY <1>1 DEF ConnInv, RelaysOK
  <2>3. \A r \in aborted'[c] : r.bind # 0
    BY <1>1, <2>1 DEF Relays
  <2> QED BY <1>1, <1>2, <2>1, <2>2, <2>3 DEF RelaysOK, NoRelay
<1>5. ReplayOK(c)'
  BY <1>1 DEF ReplayOK
<1>6. GapsOK(c)'
  BY <1>1, <1>2 DEF ConnInv, GapsOK, Follows, LastTo
<1> QED BY <1>3, <1>4, <1>5, <1>6 DEF ConnInv

\* The ring holds every recent event from its first on.
LEMMA RingIsSuffix ==
  ASSUME TypeOK, NEW p \in Ring, NEW q \in Kept, p < q
  PROVE  q \in Ring
<1>1. Kept \subseteq 1..Len(published) /\ Len(published) \in Nat
  BY DEF Kept, TypeOK
<1>2. IsFiniteSet(Kept)
  <2>1. IsFiniteSet(1..Len(published))
    BY <1>1, FS_Interval
  <2> QED BY <1>1, <2>1, FS_Subset
<1> DEFINE P == {x \in Kept : x >= p}
           Q == {x \in Kept : x >= q}
<1>3. Q \subseteq P /\ P \subseteq Kept
  <2>1. p \in Nat /\ q \in Nat /\ \A x \in Kept : x \in Nat
    BY <1>1 DEF Ring
  <2>2. \A x \in Kept : x >= q => x >= p
    BY <2>1
  <2> QED BY <2>2
<1>4. IsFiniteSet(P)
  BY <1>2, <1>3, FS_Subset
<1>5. Cardinality(Q) <= Cardinality(P) /\ Cardinality(Q) \in Nat /\ Cardinality(P) \in Nat
  BY <1>3, <1>4, FS_Subset, FS_CardinalityType
<1>6. Cardinality(P) <= RingCap
  BY DEF Ring
<1>7. RingCap \in Nat
  BY CapsAssumption
<1> QED BY <1>5, <1>6, <1>7 DEF Ring

\* What was taken from the ring leaves nothing out after its first event.
LEMMA AttachInv ==
  ASSUME TypeOK, NEW c \in Conn, ConnInv(c), Attach(c)
  PROVE  ConnInv(c)'
<1> USE BoundsAssumption
<1> DEFINE k == Bind(c) + 1
           n == Len(published)
<1>1. /\ UNCHANGED <<published, relay, aborted, sent>>
      /\ mode[c] = "binding" /\ mode'[c] = "replaying" /\ backlog'[c] = Ring
      /\ attachedAt'[c] = Append(attachedAt[c], n)
  BY DEF Attach, turnVars, TypeOK
<1>2. attachedAt[c] \in Seq(Nat) /\ Bind(c) \in Nat /\ n \in Nat /\ Bind(c) < MaxBinds
  BY <1>1 DEF TypeOK, Bind, ConnInv, BindsOK
<1>3. /\ Bind(c)' = k /\ attachedAt'[c][k] = n
      /\ \A j \in 1..Bind(c) : attachedAt'[c][j] = attachedAt[c][j]
  BY <1>1, <1>2 DEF Bind
<1>4. Relays(c)' = Relays(c)
  BY <1>1 DEF Relays
<1>5. sent[c][k] = <<>>
  BY <1>2 DEF ConnInv, BindsOK
<1>6. BindsOK(c)'
  <2>1. \A j \in 1..k : attachedAt'[c][j] <= n
    BY <1>2, <1>3 DEF ConnInv, BindsOK
  <2>2. \A j \in 1..MaxBinds : j > k => sent'[c][j] = <<>>
    BY <1>1, <1>2 DEF ConnInv, BindsOK
  <2>3. k <= MaxBinds /\ k > 0
    BY <1>2
  <2> HIDE DEF k
  <2> QED BY <1>1, <1>3, <2>1, <2>2, <2>3 DEF BindsOK
<1>7. RelaysOK(c)'
  BY <1>1, <1>2, <1>3, <1>4 DEF ConnInv, RelaysOK
<1>8. ReplayOK(c)'
  <2>1. Ring \subseteq 1..n
    BY <1>2 DEF Ring, Kept, TypeOK
  <2>2. ASSUME NEW q \in 1..n, \E p \in Ring : p < q
        PROVE  q \in Ring \/ published[q].kind = "delta"
    <3>1. q \in Kept \/ published[q].kind = "delta"
      BY <2>2 DEF Kept, TypeOK
    <3> QED BY <2>2, <3>1, RingIsSuffix
  <2> QED BY <1>1, <1>3, <1>5, <2>1, <2>2 DEF ReplayOK
<1>9. GapsOK(c)'
  <2>1. ASSUME NEW j \in 1..MaxBinds, NEW i \in 1..Len(sent[c][j]) - 1
        PROVE  j \in 1..Bind(c)
    <3>1. sent[c][j] \in Seq(Entry)
      BY DEF TypeOK
    <3>2. sent[c][j] # <<>>
      BY <3>1
    <3> QED BY <3>2, <1>2 DEF ConnInv, BindsOK
  <2>2. \A r \in Relays(c) : r.bind \in 1..Bind(c)
    BY DEF ConnInv, RelaysOK
  <2>3. \A r \in Relays(c) : Follows(c, r.bind, r.next)'
    BY <1>1, <1>3, <2>2 DEF ConnInv, GapsOK, Follows, LastTo
  <2> QED BY <1>1, <1>3, <1>4, <2>1, <2>3 DEF ConnInv, GapsOK
<1> QED BY <1>6, <1>7, <1>8, <1>9 DEF ConnInv

-----------------------------------------------------------------------------
\* One more entry after those of an attachment.
LEMMA SaysInOrder ==
  ASSUME TypeOK, NEW c \in Conn, NEW k \in 1..MaxBinds, NEW e \in Entry,
         sent' = [sent EXCEPT ![c][k] = Append(@, e)], UNCHANGED <<published, attachedAt>>,
         GapsOK(c), Follows(c, k, e.from)
  PROVE  /\ \A j \in 1..MaxBinds : \A i \in 1..Len(sent'[c][j]) - 1 :
              LET a == sent'[c][j][i]
                  b == sent'[c][j][i + 1]
              IN  /\ a.to < b.from
                  /\ \A p \in a.to + 1..b.from - 1 :
                       published'[p].kind = "delta" /\ p <= attachedAt'[c][j]
         /\ sent'[c][k] # <<>> /\ LastTo(c, k)' = e.to
<1>1. /\ sent'[c][k] = Append(sent[c][k], e) /\ sent[c][k] \in Seq(Entry)
      /\ \A j \in 1..MaxBinds : j # k => sent'[c][j] = sent[c][j]
  <2>1. sent[c][k] \in Seq(Entry)
    BY DEF TypeOK
  <2> QED BY <2>1, SaysType
<1> DEFINE s == sent[c][k]
           n == Len(s)
<1>2. /\ n \in Nat /\ Len(sent'[c][k]) = n + 1 /\ sent'[c][k][n + 1] = e
      /\ \A i \in 1..n : sent'[c][k][i] = s[i]
  BY <1>1
<1>3. sent'[c][k] # <<>> /\ LastTo(c, k)' = e.to
  BY <1>1, <1>2 DEF LastTo
<1>4. ASSUME NEW j \in 1..MaxBinds, NEW i \in 1..Len(sent'[c][j]) - 1
      PROVE  LET a == sent'[c][j][i]
                 b == sent'[c][j][i + 1]
             IN  /\ a.to < b.from
                 /\ \A p \in a.to + 1..b.from - 1 :
                      published'[p].kind = "delta" /\ p <= attachedAt'[c][j]
  <2>1. CASE j # k
    BY <2>1, <1>1 DEF GapsOK
  <2>2. CASE j = k /\ i < n
    <3>1. i \in 1..n - 1 /\ i \in 1..n /\ i + 1 \in 1..n
      BY <2>2, <1>2
    <3>2. sent'[c][j][i] = sent[c][j][i] /\ sent'[c][j][i + 1] = sent[c][j][i + 1]
      BY <2>2, <3>1, <1>2
    <3> QED BY <2>2, <3>1, <3>2 DEF GapsOK
  <2>3. CASE j = k /\ i >= n
    <3>1. i = n /\ n > 0
      BY <2>3, <1>2
    <3>2. sent'[c][j][i] = s[n] /\ sent'[c][j][i + 1] = e /\ s # <<>>
      BY <2>3, <3>1, <1>1, <1>2
    <3>3. s[n].to < e.from /\ \A p \in s[n].to + 1..e.from - 1 :
                                published[p].kind = "delta" /\ p <= attachedAt[c][k]
      BY <3>2 DEF Follows, LastTo
    <3> QED BY <2>3, <3>2, <3>3
  <2>4. i < n \/ i >= n
    BY <1>2
  <2> QED BY <2>1, <2>2, <2>3, <2>4
<1> QED BY <1>3, <1>4

\* The least position of the backlog is sent.
LEMMA ReplayInv ==
  ASSUME TypeOK, NEW c \in Conn, ConnInv(c), Replay(c)
  PROVE  ConnInv(c)'
<1> USE BoundsAssumption
<1>0. PICK k, A : k = Bind(c) /\ A = attachedAt[c][k]
  OBVIOUS
<1>1. PICK p \in backlog[c] :
        /\ \A q \in backlog[c] : p <= q
        /\ backlog' = [backlog EXCEPT ![c] = @ \ {p}]
        /\ sent' = [sent EXCEPT ![c][k] = Append(@, [from |-> p, to |-> p, missed |-> FALSE])]
        /\ UNCHANGED <<turnVars, mode, relay, aborted, attachedAt>>
  BY <1>0 DEF Replay
<1> DEFINE e == [from |-> p, to |-> p, missed |-> FALSE]
<1>2. /\ mode[c] = "replaying" /\ backlog'[c] = backlog[c] \ {p} /\ backlog[c] \subseteq Nat
      /\ published' = published
  BY <1>1 DEF TypeOK, turnVars
<1>3. k \in 1..MaxBinds /\ k \in Nat
  BY <1>0, <1>2 DEF ConnInv, BindsOK, Bind, TypeOK
<1>4. e \in Entry /\ p \in Nat
  BY <1>2 DEF Entry
<1>5. k = Bind(c)' /\ Relays(c)' = Relays(c) /\ A = attachedAt'[c][k]
  BY <1>0, <1>1 DEF Bind, Relays
<1>6. /\ p \in 1..A /\ A \in Nat
      /\ \A q \in backlog[c] : q \in 1..A
      /\ sent[c][k] # <<>> => LastTo(c, k) < p
      /\ \A q \in 1..A :
           (sent[c][k] # <<>> /\ LastTo(c, k) < q) \/ (\E x \in backlog[c] : x < q)
             => q \in backlog[c] \/ published[q].kind = "delta"
  <2>1. attachedAt[c] \in Seq(Nat) /\ k \in 1..Len(attachedAt[c])
    BY <1>0, <1>2, <1>3 DEF TypeOK, ConnInv, BindsOK, Bind
  <2> QED BY <1>0, <1>2, <2>1 DEF ConnInv, ReplayOK
<1>7. Follows(c, k, p)
  <2> SUFFICES ASSUME sent[c][k] # <<>>
               PROVE  \A q \in LastTo(c, k) + 1..p - 1 :
                        published[q].kind = "delta" /\ q <= attachedAt[c][k]
    BY <1>6 DEF Follows
  <2> TAKE q \in LastTo(c, k) + 1..p - 1
  <2>1. q \in 1..A /\ LastTo(c, k) < q /\ q < p
    BY <1>3, <1>4, <1>6, LastType
  <2>2. q \notin backlog[c]
    BY <1>1, <1>4, <2>1
  <2> QED BY <1>0, <1>6, <2>1, <2>2
<1> HIDE DEF e
<1>8. /\ \A j \in 1..MaxBinds : j # k => sent'[c][j] = sent[c][j]
      /\ sent'[c][k] # <<>> /\ LastTo(c, k)' = p
      /\ \A j \in 1..MaxBinds : \A i \in 1..Len(sent'[c][j]) - 1 :
           LET a == sent'[c][j][i]
               b == sent'[c][j][i + 1]
           IN  /\ a.to < b.from
               /\ \A x \in a.to + 1..b.from - 1 :
                    published'[x].kind = "delta" /\ x <= attachedAt'[c][j]
  <2>1. /\ sent' = [sent EXCEPT ![c][k] = Append(@, e)] /\ e.from = p /\ e.to = p
        /\ UNCHANGED <<published, attachedAt>>
    BY <1>1, <1>2 DEF e
  <2>2. GapsOK(c)
    BY DEF ConnInv
  <2>3. \A j \in 1..MaxBinds : j # k => sent'[c][j] = sent[c][j]
    BY <1>3, <1>4, <2>1, SaysType
  <2> QED BY <1>3, <1>4, <1>7, <2>1, <2>2, <2>3, SaysInOrder
<1>9. BindsOK(c)'
  BY <1>0, <1>1, <1>2, <1>3, <1>5, <1>8 DEF ConnInv, BindsOK
<1>10. RelaysOK(c)'
  BY <1>0, <1>1, <1>5 DEF ConnInv, RelaysOK
<1>11. ReplayOK(c)'
  <2>1. \A q \in backlog'[c] : q \in 1..A /\ p < q
    BY <1>1, <1>2, <1>4, <1>6
  <2>2. ASSUME NEW q \in 1..A, p < q \/ (\E x \in backlog'[c] : x < q)
        PROVE  q \in backlog'[c] \/ published'[q].kind = "delta"
    <3>1. p < q
      BY <2>1, <2>2, <1>4, <1>6
    <3> QED BY <3>1, <1>2, <1>4, <1>6
  <2>3. p <= A
    BY <1>6
  <2> QED BY <1>5, <1>8, <2>1, <2>2, <2>3 DEF ReplayOK
<1>12. GapsOK(c)'
  <2>1. ASSUME NEW r \in Relays(c) PROVE Follows(c, r.bind, r.next)'
    <3>1. Follows(c, r.bind, r.next) /\ r.bind \in 1..MaxBinds /\ r.bind # k
      BY <1>0, <1>2, <1>3 DEF ConnInv, GapsOK, RelaysOK
    <3>2. sent'[c][r.bind] = sent[c][r.bind]
      BY <3>1, <1>8
    <3> QED BY <1>1, <1>2, <3>1, <3>2 DEF Follows, LastTo
  <2> QED BY <1>5, <1>8, <2>1 DEF GapsOK
<1> QED BY <1>9, <1>10, <1>11, <1>12 DEF ConnInv


\* The new relay starts where the attachment was made, and the replay is over.
LEMMA StartRelayInv ==
  ASSUME TypeOK, NEW c \in Conn, ConnInv(c), StartRelay(c)
  PROVE  ConnInv(c)'
<1> USE BoundsAssumption
<1>0. PICK k, A : k = Bind(c) /\ A = attachedAt[c][k]
  OBVIOUS
<1> DEFINE r == [next |-> A + 1, bind |-> k]
<1>1. /\ UNCHANGED <<published, backlog, attachedAt, sent>>
      /\ mode[c] = "replaying" /\ mode'[c] = "open" /\ backlog[c] = {}
      /\ aborted'[c] = aborted[c] \union ({relay[c]} \ {NoRelay}) /\ relay'[c] = r
  BY <1>0 DEF StartRelay, turnVars, TypeOK
<1>2. Bind(c)' = k /\ k \in 1..MaxBinds /\ A \in Nat
  BY <1>0, <1>1 DEF Bind, ConnInv, BindsOK, TypeOK
<1>3. r # NoRelay /\ r.bind = k /\ r.next = A + 1
  BY <1>2 DEF NoRelay
<1>4. Relays(c)' = Relays(c) \union {r} /\ aborted'[c] = Relays(c)
  BY <1>1, <1>3 DEF Relays
<1>5. BindsOK(c)'
  BY <1>0, <1>1, <1>2 DEF ConnInv, BindsOK
<1>6. RelaysOK(c)'
  <2>1. \A s \in Relays(c) : s.bind \in 1..k /\ s.bind # k
    BY <1>0, <1>1 DEF ConnInv, RelaysOK
  <2>2. \A s, u \in Relays(c) : s.bind = u.bind => s = u
    BY DEF ConnInv, RelaysOK, Relays
  <2> HIDE DEF r
  <2> QED BY <1>1, <1>2, <1>3, <1>4, <2>1, <2>2 DEF RelaysOK
<1>7. ReplayOK(c)'
  BY <1>1 DEF ReplayOK
<1>8. Follows(c, k, r.next)
  <2>1. PICK n : n = r.next /\ n = A + 1
    BY <1>3
  <2> SUFFICES ASSUME sent[c][k] # <<>>
               PROVE  /\ LastTo(c, k) < n
                      /\ \A q \in LastTo(c, k) + 1..n - 1 :
                           published[q].kind = "delta" /\ q <= attachedAt[c][k]
    BY <2>1 DEF Follows
  <2>2. /\ LastTo(c, k) <= A
        /\ \A q \in 1..A : LastTo(c, k) < q => published[q].kind = "delta"
    BY <1>0, <1>1 DEF ConnInv, ReplayOK
  <2>3. LastTo(c, k) \in Nat
    BY <1>2, LastType
  <2>4. LastTo(c, k) < n
    BY <1>2, <2>1, <2>2, <2>3
  <2>5. ASSUME NEW q \in LastTo(c, k) + 1..n - 1
        PROVE  q \in 1..A /\ LastTo(c, k) < q /\ q <= A
    BY <1>2, <2>1, <2>3
  <2> QED BY <1>0, <2>2, <2>4, <2>5
<1>9. GapsOK(c)'
  <2>1. \A s \in Relays(c) \union {r} : Follows(c, s.bind, s.next)
    BY <1>3, <1>8 DEF ConnInv, GapsOK
  <2>2. \A s \in Relays(c)' : Follows(c, s.bind, s.next)'
    BY <1>1, <1>4, <2>1 DEF Follows, LastTo
  <2> QED BY <1>1, <2>2 DEF ConnInv, GapsOK
<1> QED BY <1>5, <1>6, <1>7, <1>9 DEF ConnInv

\* A relay, aborted or not, sends what it is given and goes on after it.
LEMMA SendsInv ==
  ASSUME TypeOK, NEW c \in Conn, ConnInv(c), NEW r \in Relays(c), Forward(c, r),
         Relays(c)' = (Relays(c) \ {r}) \union {Past(r)},
         UNCHANGED <<published, attachedAt, mode, backlog>>,
         RelaysOK(c)'
  PROVE  ConnInv(c)'
<1> USE BoundsAssumption
<1>1. /\ r \in Relay /\ r.next <= Len(published) /\ r.bind \in 1..Bind(c)
      /\ mode[c] = "replaying" => r.bind # Bind(c)
  BY DEF Relays, TypeOK, ConnInv, RelaysOK, Forward
<1>2. Bind(c)' = Bind(c) /\ Bind(c) \in Nat /\ Bind(c) <= MaxBinds
  BY DEF Bind, TypeOK, ConnInv, BindsOK
<1>3. PICK k, e : k = r.bind /\ e = Received(r)
  OBVIOUS
<1>4. k \in 1..MaxBinds /\ k \in 1..Bind(c)
  BY <1>1, <1>2, <1>3
<1>5. /\ e \in Entry /\ e.from = r.next /\ e.to >= r.next
      /\ Past(r).bind = k /\ Past(r).next = e.to + 1
  BY <1>1, <1>3, ReceivedType
<1>6. sent' = [sent EXCEPT ![c][k] = Append(@, e)] /\ UNCHANGED <<published, attachedAt>>
  BY <1>3 DEF Forward
<1>7. \A j \in 1..MaxBinds : j # k => sent'[c][j] = sent[c][j]
  BY <1>4, <1>5, <1>6, SaysType
<1>8. GapsOK(c) /\ Follows(c, k, e.from)
  BY <1>3, <1>5 DEF ConnInv, GapsOK
<1>9. /\ sent'[c][k] # <<>> /\ LastTo(c, k)' = e.to
      /\ \A j \in 1..MaxBinds : \A i \in 1..Len(sent'[c][j]) - 1 :
           LET a == sent'[c][j][i]
               b == sent'[c][j][i + 1]
           IN  /\ a.to < b.from
               /\ \A x \in a.to + 1..b.from - 1 :
                    published'[x].kind = "delta" /\ x <= attachedAt'[c][j]
  BY <1>4, <1>5, <1>6, <1>8, SaysInOrder
<1>10. BindsOK(c)'
  <2>1. \A j \in 1..MaxBinds : j > Bind(c) => j # k
    BY <1>2, <1>4
  <2> QED BY <1>2, <1>7, <2>1 DEF ConnInv, BindsOK
<1>11. ReplayOK(c)'
  <2> SUFFICES ASSUME mode[c] = "replaying" PROVE ReplayOK(c)'
    BY DEF ReplayOK
  <2>1. PICK b : b = Bind(c) /\ b = Bind(c)'
    BY <1>2
  <2>2. sent'[c][b] = sent[c][b]
    <3>1. b \in 1..MaxBinds
      BY <1>2, <2>1 DEF ConnInv, BindsOK
    <3> QED BY <1>1, <1>3, <1>7, <2>1, <3>1
  <2>3. LastTo(c, b)' = LastTo(c, b)
    BY <2>2 DEF LastTo
  <2> QED BY <2>1, <2>2, <2>3 DEF ConnInv, ReplayOK
<1>12. ASSUME NEW s \in Relays(c)' PROVE Follows(c, s.bind, s.next)'
  <2>1. CASE s = Past(r)
    <3>1. e.to \in Nat
      BY <1>5 DEF Entry
    <3>2. Follows(c, k, e.to + 1)'
      BY <1>9, <3>1 DEF Follows
    <3> QED BY <2>1, <1>5, <3>2
  <2>2. CASE s # Past(r)
    <3>1. s \in Relays(c) /\ s # r /\ Past(r) \in Relays(c)'
      BY <2>2
    <3>2. s.bind # k
      <4>1. \A x, y \in Relays(c) : x.bind = y.bind => x = y
        BY DEF ConnInv, RelaysOK, Relays
      <4> QED BY <1>3, <3>1, <4>1
    <3>3. s.bind \in 1..MaxBinds
      BY <3>1, <1>2 DEF ConnInv, RelaysOK
    <3>4. Follows(c, s.bind, s.next)
      BY <3>1 DEF ConnInv, GapsOK
    <3>5. sent'[c][s.bind] = sent[c][s.bind]
      BY <3>2, <3>3, <1>7
    <3> QED BY <3>4, <3>5 DEF Follows, LastTo
  <2> QED BY <2>1, <2>2
<1>13. GapsOK(c)'
  BY <1>9, <1>12 DEF GapsOK
<1> QED BY <1>10, <1>11, <1>13 DEF ConnInv

\* The connection's relay does so,
LEMMA RelayNextInv ==
  ASSUME TypeOK, NEW c \in Conn, ConnInv(c), RelayNext(c)
  PROVE  ConnInv(c)'
<1>1. PICK r : r = relay[c]
  OBVIOUS
<1>2. /\ r # NoRelay /\ Forward(c, r) /\ relay'[c] = Past(r) /\ aborted' = aborted
      /\ UNCHANGED <<published, attachedAt, mode, backlog>>
      /\ r \in Relay /\ r.next <= Len(published)
  BY <1>1 DEF RelayNext, turnVars, TypeOK, Forward
<1>3. r \in Relays(c) /\ Relays(c) = aborted[c] \union {r} /\ r \notin aborted[c]
  BY <1>1, <1>2 DEF Relays, ConnInv, RelaysOK
<1>4. Past(r).bind = r.bind /\ r.bind \in 1..Bind(c)
  BY <1>2, <1>3, ReceivedType DEF ConnInv, RelaysOK
<1>5. Past(r) # NoRelay
  <2>1. r.bind # 0
    BY <1>4 DEF Bind, TypeOK
  <2> QED BY <1>4, <2>1 DEF NoRelay
<1>6. Relays(c)' = (Relays(c) \ {r}) \union {Past(r)}
  BY <1>2, <1>3, <1>5 DEF Relays
<1>7. RelaysOK(c)'
  <2>1. Bind(c)' = Bind(c)
    BY <1>2 DEF Bind
  <2> QED BY <1>1, <1>2, <1>3, <1>4, <1>6, <2>1 DEF ConnInv, RelaysOK
<1> QED BY <1>2, <1>3, <1>6, <1>7, SendsInv

\* and so does one that has not noticed that it was aborted,
LEMMA AbortedSendsInv ==
  ASSUME TypeOK, NEW c \in Conn, ConnInv(c), NEW r \in aborted[c], AbortedSends(c, r)
  PROVE  ConnInv(c)'
<1>1. /\ Forward(c, r) /\ relay' = relay
      /\ aborted'[c] = (aborted[c] \ {r}) \union {Past(r)}
      /\ UNCHANGED <<published, attachedAt, mode, backlog>>
      /\ r \in Relay /\ r.next <= Len(published)
  BY DEF AbortedSends, turnVars, TypeOK, Forward
<1>2. r \in Relays(c) /\ r.bind # relay[c].bind
  BY DEF Relays, ConnInv, RelaysOK
<1>3. Past(r).bind = r.bind
  BY <1>1, ReceivedType
<1>4. Relays(c)' = (Relays(c) \ {r}) \union {Past(r)}
  BY <1>1, <1>2 DEF Relays
<1>5. RelaysOK(c)'
  <2>1. Bind(c)' = Bind(c)
    BY <1>1 DEF Bind
  <2>2. \A s \in Relays(c)' :
          s.bind \in 1..Bind(c) /\ (mode[c] = "replaying" => s.bind # Bind(c))
    BY <1>2, <1>3, <1>4 DEF ConnInv, RelaysOK
  <2>3. \A s, u \in aborted'[c] : s.bind = u.bind => s = u
    BY <1>1, <1>3 DEF ConnInv, RelaysOK
  <2>4. \A s \in aborted'[c] : s.bind # relay[c].bind
    BY <1>1, <1>2, <1>3 DEF ConnInv, RelaysOK
  <2> QED BY <1>1, <2>1, <2>2, <2>3, <2>4 DEF RelaysOK
<1> QED BY <1>1, <1>2, <1>4, <1>5, SendsInv

\* until it stops.
LEMMA AbortedStopsInv ==
  ASSUME TypeOK, NEW c \in Conn, ConnInv(c), NEW r \in aborted[c], AbortedStops(c, r)
  PROVE  ConnInv(c)'
<1>1. /\ UNCHANGED <<published, relay, mode, backlog, attachedAt, sent>>
      /\ aborted'[c] = aborted[c] \ {r}
  BY DEF AbortedStops, turnVars, TypeOK
<1>2. Bind(c)' = Bind(c) /\ Relays(c)' \subseteq Relays(c)
  BY <1>1 DEF Bind, Relays
<1>3. BindsOK(c)'
  BY <1>1, <1>2 DEF ConnInv, BindsOK
<1>4. RelaysOK(c)'
  BY <1>1, <1>2 DEF ConnInv, RelaysOK
<1>5. ReplayOK(c)'
  BY <1>1, <1>2 DEF ConnInv, ReplayOK, LastTo
<1>6. GapsOK(c)'
  BY <1>1, <1>2 DEF ConnInv, GapsOK, Follows, LastTo
<1> QED BY <1>3, <1>4, <1>5, <1>6 DEF ConnInv

\* A connection without attachments has nothing to answer for.
LEMMA FreshConn ==
  ASSUME NEW c \in Conn, mode'[c] \in {"open", "closed"}, relay'[c] = NoRelay,
         aborted'[c] = {}, attachedAt'[c] = <<>>, sent'[c] = NothingSent
  PROVE  ConnInv(c)'
<1> USE BoundsAssumption
<1>1. Bind(c)' = 0 /\ Relays(c)' = {}
  BY DEF Bind, Relays
<1>2. \A k \in 1..MaxBinds : sent'[c][k] = <<>>
  BY DEF NothingSent
<1>3. BindsOK(c)'
  BY <1>1, <1>2 DEF BindsOK
<1>4. RelaysOK(c)'
  BY <1>1 DEF RelaysOK
<1>5. ReplayOK(c)'
  BY DEF ReplayOK
<1>6. GapsOK(c)'
  BY <1>1, <1>2 DEF GapsOK
<1> QED BY <1>3, <1>4, <1>5, <1>6 DEF ConnInv

\* Every step of a connection keeps what holds of it,
LEMMA ConnStepInv ==
  ASSUME TypeOK, NEW c \in Conn, ConnInv(c), ConnStep(c)
  PROVE  ConnInv(c)'
<1>1. CASE Close(c)
  <2>1. /\ mode'[c] = "closed" /\ relay'[c] = NoRelay /\ aborted'[c] = {}
        /\ attachedAt'[c] = <<>> /\ sent'[c] = NothingSent
    BY <1>1 DEF Close, TypeOK
  <2> QED BY <2>1, FreshConn
<1> QED
  BY <1>1, LoopInv, AuthenticateInv, AttachInv, ReplayInv, StartRelayInv, RelayNextInv,
     AbortedSendsInv, AbortedStopsInv DEF ConnStep

\* and leaves the other connections alone.
LEMMA OthersUnchanged ==
  ASSUME TypeOK, NEW c \in Conn, ConnStep(c), NEW d \in Conn, d # c, ConnInv(c)
  PROVE  UNCHANGED <<mode[d], relay[d], aborted[d], backlog[d], attachedAt[d], sent[d]>>
<1>1. CASE Replay(c)
  BY <1>1 DEF Replay, TypeOK
<1>2. CASE RelayNext(c)
  BY <1>2 DEF RelayNext, Forward, TypeOK
<1>3. ASSUME NEW r \in aborted[c], AbortedSends(c, r)
      PROVE  UNCHANGED <<mode[d], relay[d], aborted[d], backlog[d], attachedAt[d], sent[d]>>
  BY <1>3 DEF AbortedSends, Forward, TypeOK
<1>4. CASE Select(c) \/ Authenticate(c) \/ BindFails(c) \/ Attach(c) \/ StartRelay(c) \/ Close(c)
  BY <1>4 DEF Select, Authenticate, BindFails, Attach, StartRelay, Close, TypeOK
<1>5. ASSUME NEW r \in aborted[c], AbortedStops(c, r)
      PROVE  UNCHANGED <<mode[d], relay[d], aborted[d], backlog[d], attachedAt[d], sent[d]>>
  BY <1>5 DEF AbortedStops, TypeOK
<1> QED BY <1>1, <1>2, <1>3, <1>4, <1>5 DEF ConnStep

-----------------------------------------------------------------------------
\* The inductive invariant of the feed.
FeedInv ==
  /\ TypeOK
  /\ \A t \in Turn : TurnInOrder(t)
  /\ \A c \in Conn : ConnInv(c)

\* The invariant holds at first,
LEMMA FeedInit == ASSUME Init PROVE FeedInv
<1>1. \A t \in Turn : TurnInOrder(t)
  BY DEF Init, TurnInOrder, Begun
<1>2. ASSUME NEW c \in Conn PROVE ConnInv(c)
  <2> USE BoundsAssumption DEF Init
  <2>1. Bind(c) = 0 /\ Relays(c) = {}
    BY DEF Bind, Relays
  <2>2. \A k \in 1..MaxBinds : sent[c][k] = <<>>
    BY DEF NothingSent
  <2>3. BindsOK(c)
    BY <2>1, <2>2 DEF BindsOK
  <2>4. RelaysOK(c)
    BY <2>1 DEF RelaysOK
  <2>5. ReplayOK(c)
    BY DEF ReplayOK
  <2>6. GapsOK(c)
    BY <2>1, <2>2 DEF GapsOK
  <2> QED BY <2>3, <2>4, <2>5, <2>6 DEF ConnInv
<1> QED BY <1>1, <1>2, FeedInitType DEF FeedInv

\* and every step keeps it,
LEMMA FeedNext == ASSUME FeedInv, [Next]_vars PROVE FeedInv'
<1>0. TypeOK
  BY DEF FeedInv
<1>1. ASSUME NEW t \in Turn, TurnStep(t) PROVE FeedInv'
  <2>1. TypeOK'
    BY <1>0, <1>1, TurnType
  <2>2. \A u \in Turn : TurnInOrder(u)'
    BY <1>0, <1>1, TurnsInOrder DEF FeedInv
  <2>3. ASSUME NEW c \in Conn PROVE ConnInv(c)'
    <3>1. ConnInv(c)
      BY DEF FeedInv
    <3>2. UNCHANGED <<mode[c], relay[c], aborted[c], backlog[c], attachedAt[c], sent[c]>>
      BY <1>0, <1>1, PublishedGrows DEF connVars
    <3> QED BY <1>0, <1>1, <3>1, <3>2, PublishedGrows, ConnKept
  <2> QED BY <2>1, <2>2, <2>3 DEF FeedInv
<1>2. ASSUME NEW c \in Conn, ConnStep(c) PROVE FeedInv'
  <2>1. ConnInv(c)
    BY DEF FeedInv
  <2>2. TypeOK'
    BY <1>0, <1>2, <2>1, ConnType DEF ConnInv
  <2>3. UNCHANGED <<stage, queue, published>>
    BY <1>2, ConnLeavesTurns DEF turnVars
  <2>4. \A u \in Turn : TurnInOrder(u)'
    BY <2>3, OrderKept DEF FeedInv
  <2>5. ASSUME NEW d \in Conn PROVE ConnInv(d)'
    <3>1. CASE d = c
      BY <1>0, <1>2, <2>1, <3>1, ConnStepInv
    <3>2. CASE d # c
      <4>1. UNCHANGED <<mode[d], relay[d], aborted[d], backlog[d], attachedAt[d], sent[d]>>
        BY <1>0, <1>2, <2>1, <3>2, OthersUnchanged
      <4>2. ConnInv(d) /\ Len(published) \in Nat
        BY DEF FeedInv, TypeOK
      <4> QED BY <1>0, <2>3, <4>1, <4>2, ConnKept
    <3> QED BY <3>1, <3>2
  <2> QED BY <2>2, <2>4, <2>5 DEF FeedInv
<1>3. CASE UNCHANGED vars
  <2>1. UNCHANGED <<stage, queue, published, mode, relay, aborted, backlog, attachedAt, sent>>
    BY <1>3 DEF vars, turnVars, connVars
  <2>2. TypeOK'
    BY <1>3 DEF FeedInv, TypeOK, vars, turnVars, connVars
  <2>3. \A u \in Turn : TurnInOrder(u)'
    BY <2>1, OrderKept DEF FeedInv
  <2>4. Len(published) \in Nat
    BY DEF FeedInv, TypeOK
  <2>5. \A d \in Conn : ConnInv(d)'
    BY <1>0, <2>1, <2>4, ConnKept DEF FeedInv
  <2> QED BY <2>2, <2>3, <2>5 DEF FeedInv
<1> QED BY <1>1, <1>2, <1>3 DEF Next

\* so it holds in every reachable state.
LEMMA FeedHolds == Spec => []FeedInv
<1>1. Init => FeedInv
  BY FeedInit
<1>2. FeedInv /\ [Next]_vars => FeedInv'
  BY FeedNext
<1> QED BY <1>1, <1>2, PTL DEF Spec

\* The state of the turns, the feed and the connections keeps its types: no turn's
\* channel holds more than its capacity.
THEOREM FeedTypeCorrect == Spec => []TypeOK
<1>1. FeedInv => TypeOK
  BY DEF FeedInv
<1> QED BY <1>1, FeedHolds, PTL

\* A set without two different members.
LEMMA AtMostOne ==
  ASSUME NEW S, S \subseteq Nat, \A p, q \in S : p = q
  PROVE  Cardinality(S) <= 1
<1>1. CASE S = {}
  BY <1>1, FS_EmptySet
<1>2. CASE S # {}
  <2>1. PICK p : p \in S
    BY <1>2
  <2>2. S = {p}
    BY <2>1
  <2>3. Cardinality({p}) = 1
    BY FS_Singleton
  <2> QED BY <2>2, <2>3
<1> QED BY <1>1, <1>2

\* In the feed TurnStarted is a turn's first event and TurnComplete its last, each
\* at most once, though a task of its own sends TurnComplete (session.rs, TurnEnd).
THEOREM TurnBracketsHolds == Spec => []TurnBrackets
<1>1. ASSUME FeedInv PROVE TurnBrackets
  <2> SUFFICES ASSUME NEW t \in Turn
               PROVE  /\ Cardinality(Positions(t, "started")) <= 1
                      /\ Cardinality(Positions(t, "complete")) <= 1
                      /\ \A p \in DOMAIN published :
                           published[p].turn = t =>
                             /\ \A q \in Positions(t, "started") : q <= p
                             /\ \A q \in Positions(t, "complete") : p <= q
    BY DEF TurnBrackets
  <2>1. DOMAIN published \subseteq Nat
    BY <1>1 DEF FeedInv, TypeOK
  <2>2. \A p \in DOMAIN published :
          published[p].turn = t =>
            /\ \A q \in Positions(t, "started") : q <= p
            /\ \A q \in Positions(t, "complete") : p <= q
    BY <1>1 DEF FeedInv, TurnInOrder, Positions
  <2>3. ASSUME NEW kind \in {"started", "complete"}
        PROVE  Cardinality(Positions(t, kind)) <= 1
    <3>1. Positions(t, kind) \subseteq Nat
      BY <2>1 DEF Positions
    <3>2. \A p, q \in Positions(t, kind) : p = q
      <4> TAKE p, q \in Positions(t, kind)
      <4>1. p \in Nat /\ q \in Nat
        BY <3>1
      <4>2. p <= q /\ q <= p
        BY <2>2 DEF Positions
      <4> QED BY <4>1, <4>2
    <3> QED BY <3>1, <3>2, AtMostOne
  <2> QED BY <2>2, <2>3
<1> QED BY <1>1, FeedHolds, PTL

\* No client sees the end of a turn that the session still counts as running.
THEOREM CompleteIsNotRunningHolds == Spec => []CompleteIsNotRunning
<1>1. ASSUME FeedInv PROVE CompleteIsNotRunning
  BY <1>1 DEF FeedInv, TurnInOrder, CompleteIsNotRunning, Positions, Registered
<1> QED BY <1>1, FeedHolds, PTL

\* Whatever a connection binds again, and however its relays race the aborts of
\* them, an attachment sends what was published after it, or how much it missed.
THEOREM NothingLostUnsaidHolds == Spec => []NothingLostUnsaid
<1>1. ASSUME FeedInv PROVE NothingLostUnsaid
  BY <1>1 DEF FeedInv, ConnInv, GapsOK, NothingLostUnsaid
<1> QED BY <1>1, FeedHolds, PTL
=============================================================================
