-------------------------- MODULE CoordinatorProofs --------------------------
(***************************************************************************)
(* What the API server tells its clients and its log, for any clients, any *)
(* reports, and any requests, signers, documents and bounds of the session *)
(* manager: the handlers only do what the manager can do, answers come in  *)
(* order, and a challenge gets one verdict.                                *)
(***************************************************************************)
EXTENDS CoordinatorAPI, SessionPhaseProofs

(* A handler's step is a step of the manager or leaves it alone. *)
LEMMA ManagerStep == ASSUME [APINext]_apiVars PROVE [Next]_vars
<1>1. ASSUME NEW c \in Clients, NEW req \in Requests, APICreateSession(c, req) PROVE [Next]_vars
  BY <1>1 DEF APICreateSession, Next
<1>2. ASSUME NEW c \in Clients, NEW s \in SessionIDs, NEW a \in Signers,
             APIIssueChallenge(c, s, a)
      PROVE  [Next]_vars
  BY <1>2 DEF APIIssueChallenge, Next
<1>3. ASSUME NEW c \in Clients, NEW s \in SessionIDs, NEW a \in Signers, NEW r \in Reports,
             APISubmit(c, s, a, r)
      PROVE  [Next]_vars
  <2>1. /\ Document(r) \in Docs /\ Document(r).nonce \in NM!Nonces
    BY APIConstants DEF Document
  <2>2. \/ SubmitAccepted(s, a, Document(r), Document(r).nonce)
        \/ SubmitRejected(s, a, Document(r), Document(r).nonce)
        \/ SubmitLate(s) \/ UNCHANGED vars
    BY <1>3 DEF APISubmit, SubmitRefused
  <2> QED
    BY <2>1, <2>2 DEF Next
<1>4. ASSUME NEW c \in Clients,
             \/ Emit(c) \/ Answer(c) \/ AnswerCreate(c)
             \/ \E s \in SessionIDs : APIGetSession(c, s)
      PROVE  [Next]_vars
  BY <1>4 DEF Emit, Answer, AnswerCreate, APIGetSession
<1>5. CASE Elsewhere \/ UNCHANGED apiVars
  BY <1>5 DEF Elsewhere, apiVars
<1> QED
  BY <1>1, <1>2, <1>3, <1>4, <1>5 DEF APINext

(* server.go, the whole of it: whatever handlers do and however they          *)
(* interleave, the manager does nothing it does not do by itself; so          *)
(* everything that is proved of SessionManager holds behind the API.          *)
THEOREM HandlersUseManager == APISpec => Spec
<1>1. APIInit => Init
  BY DEF APIInit
<1>2. [APINext]_apiVars => [Next]_vars
  BY ManagerStep
<1> QED
  BY <1>1, <1>2, PTL DEF APISpec, Spec

-----------------------------------------------------------------------------
(* Phases are ranked by numbers. *)
LEMMA RankIsNumber == \A status \in Status : Rank[status] \in Nat
BY DEF Status, Rank

(* An answer that comes later, and shows the marks the earlier one rests on. *)
Follows(old, new) == InOrder(old, new) /\ Explained(old, new)

(* The value of a session that is there: of one moment, so it explains itself. *)
Whole(v) ==
  /\ v \in Views /\ v.status \in Status
  /\ IsFiniteSet(v.attested) /\ IsFiniteSet(v.committed) /\ IsFiniteSet(v.shared)
  /\ Explained(v, v)

LEMMA OrderReflexive == ASSUME NEW v, Whole(v) PROVE InOrder(v, v)
BY RankIsNumber DEF Whole, InOrder

LEMMA OrderTransitive ==
  ASSUME NEW u, NEW v, NEW w, Whole(v), InOrder(u, v), InOrder(v, w) PROVE InOrder(u, w)
<1>1. u.status \in Status /\ w.status \in Status => Rank[u.status] <= Rank[w.status]
  <2> SUFFICES ASSUME u.status \in Status, w.status \in Status
               PROVE  Rank[u.status] <= Rank[w.status]
    OBVIOUS
  <2>1. Rank[u.status] <= Rank[v.status] /\ Rank[v.status] <= Rank[w.status]
    BY DEF InOrder, Whole
  <2>2. Rank[u.status] \in Nat /\ Rank[v.status] \in Nat /\ Rank[w.status] \in Nat
    BY RankIsNumber DEF Whole
  <2> QED
    BY <2>1, <2>2
<1> QED
  BY <1>1 DEF InOrder

(* More marks explain what fewer did. *)
LEMMA ExplainedGrows ==
  ASSUME NEW u, NEW v, NEW w, Explained(u, v),
         v.attested \subseteq w.attested, IsFiniteSet(w.attested),
         v.committed \subseteq w.committed, IsFiniteSet(w.committed),
         v.shared \subseteq w.shared, IsFiniteSet(w.shared)
  PROVE  Explained(u, w)
<1>1. ASSUME NEW P, NEW Q, P \subseteq Q, IsFiniteSet(Q), Cardinality(P) >= Threshold
      PROVE  Cardinality(Q) >= Threshold
  <2>1. Cardinality(P) <= Cardinality(Q) /\ Cardinality(P) \in Nat /\ Cardinality(Q) \in Nat
    BY <1>1, FS_Subset, FS_CardinalityType
  <2> QED
    BY <1>1, <2>1, ManagerConstants
<1> QED
  BY <1>1 DEF Explained

LEMMA FollowsOn ==
  ASSUME NEW u, NEW v, NEW w, Whole(v), Whole(w), Follows(u, v), InOrder(v, w)
  PROVE  Follows(u, w)
<1>1. InOrder(u, w)
  BY OrderTransitive DEF Follows
<1>2. Explained(u, w)
  BY ExplainedGrows DEF Follows, Whole, InOrder
<1> QED
  BY <1>1, <1>2 DEF Follows

-----------------------------------------------------------------------------
(* The view of a session shows a whole value of it. *)
LEMMA ViewIsWhole == ASSUME NEW x, WellFormed(x), Backed(x) PROVE Whole(View(x))
<1>1. /\ x.status \in Status /\ x.participants \in Selections
      /\ x.attested \in SUBSET Positions /\ x.committed \in SUBSET Positions
      /\ x.shared \in SUBSET Positions
      /\ x.attested \cup x.committed \cup x.shared \subseteq DOMAIN x.participants
  BY DEF WellFormed, Session
<1>2. IsFiniteSet(x.attested) /\ IsFiniteSet(x.committed) /\ IsFiniteSet(x.shared)
  BY <1>1, FiniteSelection, FS_Subset
<1>3. View(x) \in Views
  BY <1>1 DEF View, Views
<1>4. Explained(View(x), View(x))
  BY DEF Explained, View, Backed
<1> QED
  BY <1>1, <1>2, <1>3, <1>4 DEF Whole, View

(* A session's flags are only ever set, and its phase only moves on. *)
LEMMA FlagsGrow ==
  ASSUME TypeOK, [Next]_vars, NEW t \in DOMAIN sessions \cap DOMAIN sessions'
  PROVE  /\ sessions[t].attested \subseteq sessions'[t].attested
         /\ sessions[t].committed \subseteq sessions'[t].committed
         /\ sessions[t].shared \subseteq sessions'[t].shared
<1> DEFINE Grown == /\ sessions[t].attested \subseteq sessions'[t].attested
                    /\ sessions[t].committed \subseteq sessions'[t].committed
                    /\ sessions[t].shared \subseteq sessions'[t].shared
<1>1. ASSUME sessions'[t] = sessions[t] PROVE Grown
  BY <1>1
<1>2. ASSUME NEW s \in DOMAIN sessions, NEW y, sessions' = [sessions EXCEPT ![s] = y],
             sessions[s].attested \subseteq y.attested,
             sessions[s].committed \subseteq y.committed, sessions[s].shared \subseteq y.shared
      PROVE  Grown
  <2>1. CASE t = s
    BY <1>2, <2>1
  <2>2. CASE t # s
    BY <1>1, <1>2, <2>2
  <2> QED
    BY <2>1, <2>2
<1> HIDE DEF Grown
<1>3. ASSUME UNCHANGED <<sessions, sessionCount>> PROVE Grown
  BY <1>1, <1>3
<1>4. ASSUME CreateNew PROVE Grown
  BY <1>1, <1>4, NewID DEF CreateNew, Put
<1>5. ASSUME CleanupExpired PROVE Grown
  BY <1>1, <1>5 DEF CleanupExpired, Restrict
<1>6. ASSUME NEW s \in SessionIDs, SubmitLate(s) PROVE Grown
  <2>1. PICK y : /\ s \in DOMAIN sessions /\ sessions' = [sessions EXCEPT ![s] = y]
                 /\ y.attested = sessions[s].attested
                 /\ y.committed = sessions[s].committed /\ y.shared = sessions[s].shared
    BY <1>6, LateValue
  <2> QED
    BY <1>2, <2>1
<1>7. ASSUME NEW s \in SessionIDs, NEW a \in Signers, RecordCommitment(s, a) PROVE Grown
  <2>1. PICK y : /\ s \in DOMAIN sessions /\ sessions' = [sessions EXCEPT ![s] = y]
                 /\ y.attested = sessions[s].attested
                 /\ y.committed = sessions[s].committed \cup First(s, a)
                 /\ y.shared = sessions[s].shared
    BY <1>7, CommitmentValue
  <2> QED
    BY <1>2, <2>1
<1>8. ASSUME NEW s \in SessionIDs, NEW a \in Signers, RecordShare(s, a) PROVE Grown
  <2>1. PICK y : /\ s \in DOMAIN sessions /\ sessions' = [sessions EXCEPT ![s] = y]
                 /\ y.attested = sessions[s].attested /\ y.committed = sessions[s].committed
                 /\ y.shared = sessions[s].shared \cup First(s, a)
    BY <1>8, ShareValue
  <2> QED
    BY <1>2, <2>1
<1>9. ASSUME NEW s \in SessionIDs, NEW a \in Signers, NEW doc \in Docs, NEW n \in NM!Nonces,
             SubmitAccepted(s, a, doc, n)
      PROVE  Grown
  <2>1. PICK y : /\ s \in DOMAIN sessions /\ sessions' = [sessions EXCEPT ![s] = y]
                 /\ y.attested = sessions[s].attested \cup First(s, a)
                 /\ y.committed = sessions[s].committed /\ y.shared = sessions[s].shared
    BY <1>9, AcceptedValue
  <2> QED
    BY <1>2, <2>1
<1>10. Grown
  BY <1>3, <1>4, <1>5, <1>6, <1>7, <1>8, <1>9, SessionSteps
<1> QED
  BY <1>10 DEF Grown

LEMMA SessionMovesOn ==
  ASSUME TypeOK, TypeOK', [Next]_vars, NEW t \in DOMAIN sessions \cap DOMAIN sessions'
  PROVE  InOrder(View(sessions[t]), View(sessions'[t]))
<1>1. sessions[t].status \in Status /\ sessions'[t].status \in Status
  BY DEF TypeOK, SessionsOK, WellFormed, Session
<1>2. \/ sessions[t].status = sessions'[t].status
      \/ <<sessions[t].status, sessions'[t].status>> \in NextStatus
      \/ sessions'[t].status = "expired"
  BY PhaseStep DEF OnePhaseOn
<1>3. \A old, new \in Status :
        old = new \/ <<old, new>> \in NextStatus \/ new = "expired" => Rank[old] <= Rank[new]
  BY DEF Status, NextStatus, Rank
<1>4. Rank[sessions[t].status] <= Rank[sessions'[t].status]
  BY <1>1, <1>2, <1>3
<1> QED
  BY <1>4, FlagsGrow DEF InOrder, View

(* A session that appears has an ID nobody was told of. *)
LEMMA SessionAppears ==
  ASSUME TypeOK, [Next]_vars
  PROVE  /\ sessionCount \in Nat /\ sessionCount' \in Nat /\ sessionCount <= sessionCount'
         /\ \A t \in DOMAIN sessions' : t \in 1 .. sessionCount => t \in DOMAIN sessions
<1>0. sessionCount \in Nat
  BY ManagerConstants DEF TypeOK, SessionsOK
<1>1. ASSUME UNCHANGED sessionCount, DOMAIN sessions' \subseteq DOMAIN sessions
      PROVE  /\ sessionCount' \in Nat /\ sessionCount <= sessionCount'
             /\ \A t \in DOMAIN sessions' : t \in 1 .. sessionCount => t \in DOMAIN sessions
  BY <1>0, <1>1
<1>2. CASE CreateNew
  BY <1>0, <1>2 DEF CreateNew, Put
<1>3. CASE ~CreateNew
  <2>1. UNCHANGED sessionCount /\ DOMAIN sessions' \subseteq DOMAIN sessions
    <3>1. CASE CleanupExpired
      BY <3>1 DEF CleanupExpired, Restrict
    <3>2. CASE UNCHANGED <<sessions, sessionCount>>
      BY <3>2
    <3>3. ASSUME NEW s \in SessionIDs, SubmitLate(s)
          PROVE  UNCHANGED sessionCount /\ DOMAIN sessions' = DOMAIN sessions
      BY <3>3 DEF SubmitLate
    <3>4. ASSUME NEW s \in SessionIDs, NEW a \in Signers,
                 \/ RecordCommitment(s, a) \/ RecordShare(s, a)
                 \/ \E doc \in Docs, n \in NM!Nonces : SubmitAccepted(s, a, doc, n)
          PROVE  UNCHANGED sessionCount /\ DOMAIN sessions' = DOMAIN sessions
      BY <3>4 DEF RecordCommitment, RecordShare, SubmitAccepted, Submit
    <3> QED
      BY <1>3, <3>1, <3>2, <3>3, <3>4, SessionSteps
  <2> QED
    BY <1>1, <2>1, <1>0
<1> QED
  BY <1>2, <1>3, <1>0

-----------------------------------------------------------------------------
(* A call of CreateSession stays for the same request. *)
LEMMA CallStays ==
  ASSUME TypeOK, [Next]_vars, ~Free, ~Free' PROVE call'.req = call.req
<1>1. call \in Call
  BY DEF TypeOK, Free
<1>2. ASSUME UNCHANGED call PROVE call'.req = call.req
  BY <1>2
<1>3. CASE CreateStep
  <2>1. CASE ReadRequired \/ ReadActive
    BY <1>1, <2>1 DEF ReadRequired, ReadActive, Call
  <2>2. CASE RefuseRequired \/ CreateFails \/ CreateReuses \/ CreateNew
    BY <2>2 DEF RefuseRequired, CreateFails, CreateReuses, CreateNew, Free
  <2> QED
    BY <1>3, <2>1, <2>2 DEF CreateStep
<1>4. CASE \E c \in challenges : IssueNonce(c) \/ IssueFails(c)
  BY <1>2, <1>4 DEF IssueNonce, IssueFails
<1>5. CASE CleanupNonces \/ Tick \/ PolicyChange \/ UNCHANGED vars
  BY <1>2, <1>5 DEF CleanupNonces, Tick, PolicyChange, vars
<1>6. CASE CleanupExpired \/ \E req \in Requests : CreateSession(req)
  BY <1>6 DEF CleanupExpired, CreateSession
<1>7. ASSUME NEW s \in SessionIDs,
             \/ SubmitLate(s)
             \/ \E a \in Signers :
                  \/ IssueChallenge(s, a) \/ RecordCommitment(s, a) \/ RecordShare(s, a)
                  \/ \E doc \in Docs, n \in NM!Nonces :
                       SubmitRejected(s, a, doc, n) \/ SubmitAccepted(s, a, doc, n)
      PROVE  Free
  BY <1>7 DEF SubmitLate, IssueChallenge, RecordCommitment, RecordShare, SubmitRejected,
              SubmitAccepted, Submit
<1> QED
  BY <1>3, <1>4, <1>5, <1>6, <1>7 DEF Next

(* A handler that holds a session: the values it can come to read of it lie  *)
(* in a row, from a first one to a last, and the session is past them all.    *)
Watches(w) == w.op \in {"get", "status"}

Span(values) ==
  \E first, last \in values : \A v \in values : InOrder(first, v) /\ InOrder(v, last)

HandlerOK(w) ==
  /\ ServingOK(w)
  /\ w.op = "create" => ~Free
  /\ Watches(w) =>
       /\ w = [op |-> w.op, session |-> w.session, values |-> w.values]
       /\ Span(w.values) /\ \A v \in w.values : Whole(v)
       /\ w.session \in DOMAIN sessions =>
            \A v \in w.values : InOrder(v, View(sessions[w.session]))

(* What a client was shown: the session, and whatever its handler can come    *)
(* to read of it, follow.                                                     *)
SeenOK(sh) ==
  /\ sh.session \in 0 .. sessionCount /\ sh.view \in Views
  /\ sh.session \in DOMAIN sessions => Follows(sh.view, View(sessions[sh.session]))

AheadOK(w, sh) ==
  Watches(w) /\ w.session = sh.session => \A v \in w.values : Follows(sh.view, v)

(* All that a step of anybody leaves behind is well formed. *)
Steady == /\ TypeOK /\ SessionsBacked /\ [Next]_vars
          /\ TypeOK' /\ SessionsBacked'

LEMMA SteadyStep == ASSUME TypeOK, SessionsBacked, [Next]_vars PROVE Steady
BY TypeStep, BackedStep DEF Steady

LEMMA WholeViews ==
  ASSUME Steady
  PROVE  /\ \A s \in DOMAIN sessions : Whole(View(sessions[s]))
         /\ \A s \in DOMAIN sessions' : Whole(View(sessions'[s]))
BY ViewIsWhole DEF Steady, TypeOK, SessionsOK, SessionsBacked

LEMMA SeenStep == ASSUME Steady, NEW sh, SeenOK(sh) PROVE SeenOK(sh)'
<1>1. sh.session \in 0 .. sessionCount' /\ sh.view \in Views
  BY SessionAppears DEF Steady, SeenOK
<1>2. ASSUME sh.session \in DOMAIN sessions'
      PROVE  Follows(sh.view, View(sessions'[sh.session]))
  <2>1. sh.session \in 1 .. sessionCount'
    BY <1>2 DEF Steady, TypeOK, SessionsOK
  <2>2. sh.session \in DOMAIN sessions
    BY <1>2, <2>1, SessionAppears DEF Steady, SeenOK
  <2>3. Follows(sh.view, View(sessions[sh.session]))
    BY <2>2 DEF SeenOK
  <2>4. InOrder(View(sessions[sh.session]), View(sessions'[sh.session]))
    BY <1>2, <2>2, SessionMovesOn DEF Steady
  <2> QED
    BY <1>2, <2>2, <2>3, <2>4, WholeViews, FollowsOn
<1> QED
  BY <1>1, <1>2 DEF SeenOK

-----------------------------------------------------------------------------
(* A handler that is given a session to read. *)
LEMMA HoldingOK ==
  ASSUME TypeOK', SessionsBacked', NEW s \in DOMAIN sessions', NEW op \in {"get", "status"},
         NEW w, w = Holding(op, s, sessions'[s]), NEW sh, SeenOK(sh)'
  PROVE  HandlerOK(w)' /\ AheadOK(w, sh)
<1> DEFINE x == View(sessions'[s])
<1>1. Whole(x)
  BY ViewIsWhole DEF TypeOK, SessionsOK, SessionsBacked
<1>2. w = [op |-> op, session |-> s, values |-> {x}]
  BY DEF Holding
<1> HIDE DEF x
<1>3. InOrder(x, x)
  BY <1>1, OrderReflexive
<1>4. Span({x})
  BY <1>3 DEF Span
<1>5. w.op = op /\ w.session = s /\ w.values = {x}
  BY <1>2
<1>6. ServingOK(w)'
  BY <1>1, <1>5 DEF ServingOK, TypeOK, SessionsOK, Whole
<1>7. \A v \in w.values : Whole(v) /\ InOrder(v, View(sessions'[s]))
  BY <1>1, <1>3, <1>5 DEF x
<1>8. HandlerOK(w)'
  BY <1>2, <1>4, <1>5, <1>6, <1>7 DEF HandlerOK, Watches
<1>9. AheadOK(w, sh)
  BY <1>5 DEF AheadOK, SeenOK, x
<1> QED
  BY <1>8, <1>9

(* One more value, that the session has come to, prolongs the row. *)
LEMMA SpanGrows ==
  ASSUME NEW values, Span(values), \A v \in values : Whole(v),
         NEW x, Whole(x), \A v \in values : InOrder(v, x)
  PROVE  Span(values \cup {x})
<1>1. PICK first, last \in values : \A v \in values : InOrder(first, v) /\ InOrder(v, last)
  BY DEF Span
<1>2. InOrder(x, x)
  BY OrderReflexive
<1>3. \A v \in values \cup {x} : InOrder(first, v) /\ InOrder(v, x)
  BY <1>1, <1>2
<1> QED
  BY <1>3 DEF Span

LEMMA IdleOK == ASSUME NEW v, v = Idle, NEW sh PROVE HandlerOK(v)' /\ AheadOK(v, sh)
<1>1. v.op = "idle"
  BY DEF Idle
<1> QED
  BY <1>1 DEF HandlerOK, ServingOK, AheadOK, Watches

(* While others act, a handler that waits for the manager, or reads. *)
LEMMA LaterCreate ==
  ASSUME Steady, NEW w, w.op = "create", HandlerOK(w), NEW v, v = Later(w),
         NEW sh, SeenOK(sh)'
  PROVE  HandlerOK(v)' /\ AheadOK(v, sh)
<1>1. ~Free /\ w = [op |-> "create", req |-> call.req]
  BY DEF HandlerOK, ServingOK, Idle
<1>2. CASE ~Free'
  <2>1. v = w
    BY <1>2 DEF Later
  <2>2. call'.req = call.req
    BY <1>1, <1>2, CallStays DEF Steady
  <2> QED
    BY <1>1, <1>2, <2>1, <2>2 DEF HandlerOK, ServingOK, AheadOK, Watches
<1>3. CASE Free'
  <2>1. v = Returned(w.req)
    BY <1>3 DEF Later
  <2>2. CASE v = Idle
    BY <2>2, IdleOK
  <2>3. CASE v # Idle
    <3>1. PICK s \in DOMAIN sessions' : v = Holding("status", s, sessions'[s])
      BY <2>1, <2>3 DEF Returned
    <3> QED
      BY <3>1, HoldingOK DEF Steady
  <2> QED
    BY <2>2, <2>3
<1> QED
  BY <1>2, <1>3

LEMMA LaterWatches ==
  ASSUME Steady, NEW w, Watches(w), HandlerOK(w), NEW v, v = Later(w),
         NEW sh, SeenOK(sh)', AheadOK(w, sh)
  PROVE  /\ HandlerOK(v)' /\ AheadOK(v, sh)
         /\ v.op = w.op /\ v.session = w.session
<1>1. /\ w = [op |-> w.op, session |-> w.session, values |-> w.values]
      /\ Span(w.values) /\ \A u \in w.values : Whole(u)
      /\ w.session \in DOMAIN sessions =>
           \A u \in w.values : InOrder(u, View(sessions[w.session]))
      /\ w.session \in 1 .. sessionCount /\ w.op \in {"get", "status"}
  <2>1. w.op \in {"get", "status"} /\ w # Idle
    BY DEF Watches, Idle
  <2>2. w.session \in 1 .. sessionCount
    BY <2>1 DEF HandlerOK, ServingOK
  <2> QED
    BY <2>1, <2>2 DEF HandlerOK
<1>2. w.session \in 1 .. sessionCount'
  BY <1>1, SessionAppears DEF Steady
<1>3. CASE w.session \notin DOMAIN sessions'
  <2>1. v = w
    BY <1>1, <1>3 DEF Later
  <2> QED
    BY <1>1, <1>2, <1>3, <2>1 DEF HandlerOK, ServingOK, Watches, Whole
<1>4. CASE w.session \in DOMAIN sessions'
  <2> DEFINE x == View(sessions'[w.session])
  <2>1. v = [w EXCEPT !.values = w.values \cup {x}]
    BY <1>1, <1>4 DEF Later
  <2>2. Whole(x)
    BY <1>4, WholeViews
  <2>3. w.session \in DOMAIN sessions
    BY <1>1, <1>4, SessionAppears DEF Steady
  <2>4. InOrder(View(sessions[w.session]), x)
    BY <1>4, <2>3, SessionMovesOn DEF Steady
  <2>5. \A u \in w.values : InOrder(u, x)
    BY <1>1, <2>3, <2>4, OrderTransitive, WholeViews
  <2>6. sh.session = w.session => Follows(sh.view, x)
    BY <1>4 DEF SeenOK
  <2>7. InOrder(x, View(sessions'[w.session]))
    BY <2>2, OrderReflexive
  <2> HIDE DEF x
  <2>8. /\ v.op = w.op /\ v.session = w.session /\ v.values = w.values \cup {x}
        /\ v = [op |-> v.op, session |-> v.session, values |-> v.values]
    BY <1>1, <2>1
  <2>9. Span(v.values)
    BY <1>1, <2>2, <2>5, <2>8, SpanGrows
  <2>10. ServingOK(v)'
    BY <1>1, <1>2, <2>2, <2>8 DEF ServingOK, Whole
  <2>11. \A u \in v.values : Whole(u) /\ InOrder(u, View(sessions'[w.session]))
    BY <1>1, <2>2, <2>5, <2>7, <2>8 DEF x
  <2>12. HandlerOK(v)'
    BY <1>1, <2>8, <2>9, <2>10, <2>11 DEF HandlerOK, Watches
  <2>13. AheadOK(v, sh)
    BY <2>6, <2>8 DEF AheadOK, Watches
  <2> QED
    BY <2>8, <2>12, <2>13
<1> QED
  BY <1>3, <1>4

(* Whatever the handler of a client is at when others act. *)
LEMMA LaterOK ==
  ASSUME Steady, NEW w, HandlerOK(w), NEW v, v = Later(w), NEW sh, SeenOK(sh)', AheadOK(w, sh)
  PROVE  HandlerOK(v)' /\ AheadOK(v, sh)
<1>1. CASE w.op \notin {"create", "challenge", "get", "status"}
  <2>1. v = w
    BY <1>1 DEF Later
  <2> QED
    BY <1>1, <2>1 DEF HandlerOK, ServingOK, AheadOK, Watches
<1>2. CASE w.op = "challenge"
  <2>1. v = Idle \/ (v = w /\ w.asked \in challenges')
    BY <1>2 DEF Later
  <2>2. CASE v = Idle
    BY <2>2, IdleOK
  <2>3. CASE v = w /\ w.asked \in challenges'
    <3>1. ServingOK(v)'
      BY <1>2, <2>3 DEF ServingOK
    <3> QED
      BY <1>2, <2>3, <3>1 DEF HandlerOK, AheadOK, Watches
  <2> QED
    BY <2>1, <2>2, <2>3
<1> QED
  BY <1>1, <1>2, LaterCreate, LaterWatches DEF Watches

-----------------------------------------------------------------------------
(* What a handler reads, field by field, lies between the first and the last *)
(* value; the status it reads is that of one of them, or torn.               *)
LEMMA ReadBetween ==
  ASSUME NEW values, NEW first \in values, NEW last \in values, NEW view \in Read(values),
         \A v \in values : InOrder(first, v) /\ InOrder(v, last)
  PROVE  /\ first.attested \subseteq view.attested /\ view.attested \subseteq last.attested
         /\ first.committed \subseteq view.committed /\ view.committed \subseteq last.committed
         /\ first.shared \subseteq view.shared /\ view.shared \subseteq last.shared
         /\ view.status = "torn" \/ \E v \in values : view.status = v.status
<1> DEFINE Statuses == {x.status : x \in values}
           Flags(field) == LET seen == {x[field] : x \in values}
                               low == {i \in UNION seen : \A f \in seen : i \in f}
                           IN  {f \in SUBSET UNION seen : Between(f, low, UNION seen)}
<1>1. view \in [status : Statuses \cup (IF Cardinality(Statuses) > 1 THEN {"torn"} ELSE {}),
                 attested : Flags("attested"), committed : Flags("committed"),
                 shared : Flags("shared")]
  BY DEF Read
<1>2. ASSUME NEW field, NEW f \in Flags(field),
             \A v \in values : first[field] \subseteq v[field] /\ v[field] \subseteq last[field]
      PROVE  first[field] \subseteq f /\ f \subseteq last[field]
  BY <1>2 DEF Between
<1>3. view.attested \in Flags("attested") /\ view.committed \in Flags("committed")
      /\ view.shared \in Flags("shared")
      /\ view.status \in Statuses \cup {"torn"}
  <2> HIDE DEF Flags
  <2> QED
    BY <1>1
<1> HIDE DEF Flags
<1>4. first.attested \subseteq view.attested /\ view.attested \subseteq last.attested
  BY <1>2, <1>3 DEF InOrder
<1>5. first.committed \subseteq view.committed /\ view.committed \subseteq last.committed
  BY <1>2, <1>3 DEF InOrder
<1>6. first.shared \subseteq view.shared /\ view.shared \subseteq last.shared
  BY <1>2, <1>3 DEF InOrder
<1> QED
  BY <1>3, <1>4, <1>5, <1>6

(* So an answer follows what the client was shown of the session, and the    *)
(* session follows the answer.                                               *)
LEMMA ReadFollows ==
  ASSUME TypeOK, SessionsBacked, NEW w, Watches(w), HandlerOK(w), NEW sh, AheadOK(w, sh),
         NEW view \in Read(w.values)
  PROVE  /\ view \in Views
         /\ w.session \in DOMAIN sessions => Follows(view, View(sessions[w.session]))
         /\ w.session = sh.session => Follows(sh.view, view)
<1>1. /\ \A u \in w.values : Whole(u)
      /\ w.session \in DOMAIN sessions =>
           \A u \in w.values : InOrder(u, View(sessions[w.session]))
  BY DEF HandlerOK
<1>2. PICK first, last \in w.values : \A v \in w.values : InOrder(first, v) /\ InOrder(v, last)
  BY DEF HandlerOK, Span
<1>3. /\ first.attested \subseteq view.attested /\ view.attested \subseteq last.attested
      /\ first.committed \subseteq view.committed /\ view.committed \subseteq last.committed
      /\ first.shared \subseteq view.shared /\ view.shared \subseteq last.shared
      /\ view.status = "torn" \/ \E v \in w.values : view.status = v.status
  BY <1>2, ReadBetween
<1>4. /\ IsFiniteSet(view.attested) /\ IsFiniteSet(view.committed) /\ IsFiniteSet(view.shared)
  BY <1>1, <1>3, FS_Subset DEF Whole
<1>5. view \in Views
  <2>1. last \in Views
    BY <1>1 DEF Whole
  <2>2. DOMAIN view = {"status", "attested", "committed", "shared"}
        /\ view = [status |-> view.status, attested |-> view.attested,
                   committed |-> view.committed, shared |-> view.shared]
    BY DEF Read
  <2>3. view.status \in Status \cup {"", "torn"}
    BY <1>1, <1>3 DEF Whole
  <2> QED
    BY <1>3, <2>1, <2>2, <2>3 DEF Views
<1>6. ASSUME w.session \in DOMAIN sessions
      PROVE  Follows(view, View(sessions[w.session]))
  <2> DEFINE x == View(sessions[w.session])
  <2>1. Whole(x)
    BY <1>6, ViewIsWhole DEF TypeOK, SessionsOK, SessionsBacked
  <2> HIDE DEF x
  <2>2. \A u \in w.values : InOrder(u, x) /\ Explained(u, x)
    <3>1. \A u \in w.values : InOrder(u, x)
      BY <1>1, <1>6 DEF x
    <3> QED
      BY <1>1, <2>1, <3>1, ExplainedGrows DEF Whole, InOrder
  <2>3. InOrder(view, x)
    BY <1>3, <2>2 DEF InOrder, Status
  <2>4. Explained(view, x)
    BY <1>3, <2>2 DEF Explained
  <2> QED
    BY <2>3, <2>4 DEF Follows, x
<1>7. ASSUME w.session = sh.session PROVE Follows(sh.view, view)
  <2>1. \A u \in w.values : InOrder(sh.view, u) /\ Explained(sh.view, u)
    BY <1>7 DEF AheadOK, Follows
  <2>2. InOrder(sh.view, view)
    <3>1. InOrder(sh.view, first)
      BY <2>1
    <3>2. sh.view.status \in Status /\ view.status \in Status
          => Rank[sh.view.status] <= Rank[view.status]
      BY <1>3, <2>1 DEF InOrder, Status
    <3> QED
      BY <1>3, <3>1, <3>2 DEF InOrder
  <2>3. Explained(sh.view, view)
    BY <1>3, <1>4, <2>1, ExplainedGrows
  <2> QED
    BY <2>2, <2>3 DEF Follows
<1> QED
  BY <1>5, <1>6, <1>7

-----------------------------------------------------------------------------
(* All of it, for one client. *)
ClientOK(c) == HandlerOK(serving[c]) /\ SeenOK(shown[c]) /\ AheadOK(serving[c], shown[c])

ClientsOK ==
  /\ shown \in [Clients -> [session : 0 .. sessionCount, view : Views]]
  /\ \A c \in Clients : ClientOK(c)

(* It is about what the client is at and what it was shown. *)
LEMMA ClientNext ==
  ASSUME NEW c, NEW v, v = serving'[c], NEW sh, sh = shown'[c],
         HandlerOK(v)', SeenOK(sh)', AheadOK(v, sh)
  PROVE  ClientOK(c)'
BY DEF ClientOK, HandlerOK, ServingOK, SeenOK, AheadOK

LEMMA Bystander ==
  ASSUME Steady, NEW c, ClientOK(c), serving'[c] = Later(serving[c]), shown'[c] = shown[c]
  PROVE  ClientOK(c)'
<1>1. PICK w, v, sh : w = serving[c] /\ v = serving'[c] /\ sh = shown[c]
  OBVIOUS
<1>2. HandlerOK(w) /\ SeenOK(sh) /\ AheadOK(w, sh) /\ v = Later(w) /\ sh = shown'[c]
  BY <1>1 DEF ClientOK
<1>3. SeenOK(sh)'
  BY <1>2, SeenStep
<1> QED
  BY <1>1, <1>2, <1>3, LaterOK, ClientNext

(* The client whose handler acts, and is shown nothing. *)
LEMMA Actor ==
  ASSUME Steady, NEW c, ClientOK(c), shown'[c] = shown[c], NEW v, v = serving'[c],
         \/ v = Idle
         \/ HandlerOK(v)' /\ v.op \notin {"get", "status"}
         \/ \E op \in {"get", "status"}, s \in DOMAIN sessions' : v = Holding(op, s, sessions'[s])
  PROVE  ClientOK(c)'
<1>1. PICK sh : sh = shown[c]
  OBVIOUS
<1>2. SeenOK(sh)'
  BY <1>1, SeenStep DEF ClientOK
<1>3. HandlerOK(v)' /\ AheadOK(v, sh)
  <2>1. CASE v = Idle
    BY <2>1, IdleOK
  <2>2. CASE HandlerOK(v)' /\ v.op \notin {"get", "status"}
    BY <2>2 DEF AheadOK, Watches
  <2>3. ASSUME NEW op \in {"get", "status"}, NEW s \in DOMAIN sessions',
               v = Holding(op, s, sessions'[s])
        PROVE  HandlerOK(v)' /\ AheadOK(v, sh)
    BY <1>2, <2>3, HoldingOK DEF Steady
  <2> QED
    BY <2>1, <2>2, <2>3
<1> QED
  BY <1>1, <1>2, <1>3, ClientNext

(* A handler's step that shows nothing. *)
LEMMA QuietClients ==
  ASSUME Steady, ClientsOK, UNCHANGED shown, NEW c \in Clients,
         \A d \in Clients : d # c => serving'[d] = Later(serving[d]), ClientOK(c)'
  PROVE  ClientsOK'
<1>1. shown' \in [Clients -> [session : 0 .. sessionCount', view : Views]]
  BY SessionAppears DEF Steady, ClientsOK
<1>2. \A d \in Clients : ClientOK(d)'
  BY Bystander DEF ClientsOK
<1> QED
  BY <1>1, <1>2 DEF ClientsOK

LEMMA ClientsCreate ==
  ASSUME Steady, ClientsOK, NEW c \in Clients, NEW req \in Requests, APICreateSession(c, req)
  PROVE  ClientsOK'
<1>1. CASE Known(req)
  <2> DEFINE s == requestIndex[req.id]
  <2>1. s \in DOMAIN sessions' /\ serving'[c] = Holding("status", s, sessions'[s])
    BY <1>1 DEF APICreateSession, Known, Serve, vars
  <2>2. ClientOK(c)'
    BY <2>1, Actor DEF APICreateSession, ClientsOK
  <2> QED
    BY <1>1, <2>2, QuietClients DEF APICreateSession, Serve
<1>2. CASE ~Known(req)
  <2>1. serving'[c] = [op |-> "create", req |-> req] /\ CreateSession(req)
    BY <1>2 DEF APICreateSession, Serve
  <2>2. call'.req = req /\ ~Free'
    BY <2>1 DEF CreateSession, Free, NoCall
  <2>3. PICK v : v = serving'[c]
    OBVIOUS
  <2>4. v = [op |-> "create", req |-> req] /\ v.op = "create"
    BY <2>1, <2>3
  <2>5. HandlerOK(v)'
    BY <2>2, <2>4 DEF HandlerOK, ServingOK, Watches
  <2>6. ClientOK(c)'
    BY <2>3, <2>4, <2>5, Actor DEF APICreateSession, ClientsOK
  <2> QED
    BY <1>2, <2>6, QuietClients DEF APICreateSession, Serve
<1> QED
  BY <1>1, <1>2

LEMMA ClientsChallenge ==
  ASSUME Steady, ClientsOK, NEW c \in Clients, NEW s \in SessionIDs, NEW a \in Signers,
         APIIssueChallenge(c, s, a)
  PROVE  ClientsOK'
<1>1. PICK v : v = serving'[c]
  OBVIOUS
<1>2. v = [op |-> "challenge", asked |-> <<s, a>>] /\ <<s, a>> \in challenges'
  BY <1>1 DEF APIIssueChallenge, Serve, IssueChallenge
<1>3. v.op = "challenge" /\ v.asked = <<s, a>>
  BY <1>2
<1>4. HandlerOK(v)'
  BY <1>2, <1>3 DEF HandlerOK, ServingOK, Watches
<1>5. ClientOK(c)'
  BY <1>1, <1>3, <1>4, Actor DEF APIIssueChallenge, ClientsOK
<1> QED
  BY <1>5, QuietClients DEF APIIssueChallenge, Serve

(* The code of an attestation that is not accepted. *)
LEMMA RejectCode ==
  ASSUME NEW r \in Reports, Verify(Document(r), Document(r).nonce) # ""
  PROVE  extractRejectCode("attestation rejected", Verify(Document(r), Document(r).nonce))
           \in Verdicts \ {"accepted"}
BY DEF extractRejectCode, Verify, Document, NoDoc, Verdicts

LEMMA SubmitServes ==
  ASSUME NEW c \in Clients, NEW s \in SessionIDs, NEW a \in Signers, NEW r \in Reports,
         APISubmit(c, s, a, r)
  PROVE  \E verdict \in Verdicts \cup {""} :
           /\ serving'[c] = [op |-> "emit", nonce |-> r.nonce, verdict |-> verdict]
           /\ \/ SubmitAccepted(s, a, Document(r), r.nonce) /\ verdict = "accepted"
              \/ SubmitRejected(s, a, Document(r), r.nonce) /\ verdict \notin {"accepted", ""}
              \/ (SubmitLate(s) \/ UNCHANGED vars) /\ verdict = ""
<1>1. Document(r).nonce = r.nonce
  BY DEF Document
<1>0. \/ /\ SubmitAccepted(s, a, Document(r), r.nonce)
         /\ serving'[c] = [op |-> "emit", nonce |-> r.nonce, verdict |-> "accepted"]
      \/ /\ SubmitRejected(s, a, Document(r), r.nonce)
         /\ serving'[c] = [op |-> "emit", nonce |-> r.nonce, verdict |->
              extractRejectCode("attestation rejected", Verify(Document(r), r.nonce))]
      \/ /\ SubmitLate(s) \/ UNCHANGED vars
         /\ serving'[c] = [op |-> "emit", nonce |-> r.nonce, verdict |-> ""]
  <2>1. extractRejectCode("other", "") = ""
    BY DEF extractRejectCode
  <2> QED
    BY <1>1, <2>1 DEF APISubmit, Serve, SubmitRefused
<1>2. CASE SubmitAccepted(s, a, Document(r), r.nonce)
            /\ serving'[c] = [op |-> "emit", nonce |-> r.nonce, verdict |-> "accepted"]
  BY <1>2 DEF Verdicts
<1>3. CASE /\ SubmitRejected(s, a, Document(r), r.nonce)
           /\ serving'[c] = [op |-> "emit", nonce |-> r.nonce, verdict |->
                extractRejectCode("attestation rejected", Verify(Document(r), r.nonce))]
  <2> DEFINE code == extractRejectCode("attestation rejected", Verify(Document(r), r.nonce))
  <2>1. code \in Verdicts \ {"accepted"} /\ code # ""
    BY <1>1, <1>3, RejectCode DEF SubmitRejected, Verdicts
  <2> HIDE DEF code
  <2>2. serving'[c] = [op |-> "emit", nonce |-> r.nonce, verdict |-> code]
    BY <1>3 DEF code
  <2> QED
    BY <1>3, <2>1, <2>2
<1>4. CASE /\ SubmitLate(s) \/ UNCHANGED vars
           /\ serving'[c] = [op |-> "emit", nonce |-> r.nonce, verdict |-> ""]
  BY <1>4
<1> QED
  BY <1>0, <1>2, <1>3, <1>4

LEMMA ClientsSubmit ==
  ASSUME Steady, ClientsOK, NEW c \in Clients, NEW s \in SessionIDs, NEW a \in Signers,
         NEW r \in Reports, APISubmit(c, s, a, r)
  PROVE  ClientsOK'
<1>1. PICK v : v = serving'[c]
  OBVIOUS
<1>2. \E verdict \in Verdicts \cup {""} :
        v = [op |-> "emit", nonce |-> r.nonce, verdict |-> verdict]
  <2>1. PICK verdict \in Verdicts \cup {""} :
           /\ serving'[c] = [op |-> "emit", nonce |-> r.nonce, verdict |-> verdict]
           /\ \/ SubmitAccepted(s, a, Document(r), r.nonce) /\ verdict = "accepted"
              \/ SubmitRejected(s, a, Document(r), r.nonce) /\ verdict \notin {"accepted", ""}
              \/ (SubmitLate(s) \/ UNCHANGED vars) /\ verdict = ""
    BY SubmitServes
  <2> QED
    BY <1>1, <2>1
<1>3. v.op = "emit" /\ v.nonce \in NM!Nonces /\ v.verdict \in Verdicts \cup {""}
  <2>1. r.nonce \in NM!Nonces
    BY APIConstants
  <2>2. PICK verdict \in Verdicts \cup {""} :
          v = [op |-> "emit", nonce |-> r.nonce, verdict |-> verdict]
    BY <1>2
  <2> QED
    BY <2>1, <2>2
<1>4. HandlerOK(v)'
  BY <1>3 DEF HandlerOK, ServingOK, Watches
<1>5. ClientOK(c)'
  BY <1>1, <1>3, <1>4, Actor DEF APISubmit, ClientsOK
<1> QED
  BY <1>5, QuietClients DEF APISubmit, Serve

LEMMA ClientsGetSession ==
  ASSUME Steady, ClientsOK, NEW c \in Clients, NEW s \in SessionIDs, APIGetSession(c, s)
  PROVE  ClientsOK'
<1>1. s \in DOMAIN sessions' /\ serving'[c] = Holding("get", s, sessions'[s])
  BY DEF APIGetSession, Found, Serve, vars
<1>2. ClientOK(c)'
  BY <1>1, Actor DEF APIGetSession, ClientsOK
<1> QED
  BY <1>2, QuietClients DEF APIGetSession, Serve

LEMMA ClientsEmit ==
  ASSUME Steady, ClientsOK, NEW c \in Clients, Emit(c) PROVE ClientsOK'
<1>1. serving'[c] = Idle
  BY DEF Emit, Serve
<1>2. ClientOK(c)'
  BY <1>1, Actor DEF Emit, ClientsOK
<1> QED
  BY <1>2, QuietClients DEF Emit, Serve

LEMMA ClientsElsewhere == ASSUME Steady, ClientsOK, Elsewhere PROVE ClientsOK'
<1>1. shown' \in [Clients -> [session : 0 .. sessionCount', view : Views]]
  BY SessionAppears DEF Steady, ClientsOK, Elsewhere
<1>2. \A d \in Clients : ClientOK(d)'
  BY Bystander DEF ClientsOK, Elsewhere
<1> QED
  BY <1>1, <1>2 DEF ClientsOK

-----------------------------------------------------------------------------
(* The client that is shown something. *)
LEMMA ClientShown ==
  ASSUME Steady, ClientsOK, NEW c \in Clients, UNCHANGED sessions, UNCHANGED sessionCount,
         serving' = [d \in Clients |-> IF d = c THEN Idle ELSE Later(serving[d])],
         NEW s \in 1 .. sessionCount, NEW view \in Views,
         shown' = [shown EXCEPT ![c] = [session |-> s, view |-> view]],
         s \in DOMAIN sessions => Follows(view, View(sessions[s]))
  PROVE  ClientsOK'
<1>1. PICK sh : sh = [session |-> s, view |-> view]
  OBVIOUS
<1>2. sh.session = s /\ sh.view = view /\ sh \in [session : 0 .. sessionCount', view : Views]
  BY <1>1, SessionAppears DEF Steady
<1>3. shown'[c] = sh /\ \A d \in Clients : d # c => shown'[d] = shown[d]
  BY <1>1 DEF ClientsOK
<1>4. shown' \in [Clients -> [session : 0 .. sessionCount', view : Views]]
  BY <1>1, <1>2 DEF ClientsOK
<1>5. SeenOK(sh)'
  BY <1>2 DEF SeenOK
<1>6. PICK v : v = Idle
  OBVIOUS
<1>7. HandlerOK(v)' /\ AheadOK(v, sh) /\ v = serving'[c]
  BY <1>6, IdleOK
<1>8. ClientOK(c)'
  BY <1>3, <1>5, <1>7, ClientNext
<1>9. \A d \in Clients : d # c => ClientOK(d)'
  BY <1>3, Bystander DEF ClientsOK
<1> QED
  BY <1>4, <1>8, <1>9 DEF ClientsOK

(* What Answer shows: a view that was read of the session, which follows what *)
(* was shown of it before.                                                    *)
LEMMA AnswerShows ==
  ASSUME TypeOK, SessionsBacked, ClientsOK, NEW c \in Clients, Answer(c)
  PROVE  \E view \in Views :
           LET s == serving[c].session
           IN  /\ shown' = [shown EXCEPT ![c] = [session |-> s, view |-> view]]
               /\ s \in 1 .. sessionCount
               /\ s \in DOMAIN sessions => Follows(view, View(sessions[s]))
               /\ s = shown[c].session => Follows(shown[c].view, view)
<1>1. PICK w, sh : w = serving[c] /\ sh = shown[c]
  OBVIOUS
<1>2. HandlerOK(w) /\ AheadOK(w, sh) /\ w.op = "get" /\ Watches(w)
  BY <1>1 DEF ClientsOK, ClientOK, Answer, Watches
<1>3. PICK view \in Read(w.values) :
        shown' = [shown EXCEPT ![c] = [session |-> w.session, view |-> view]]
  BY <1>1 DEF Answer
<1>4. /\ view \in Views
      /\ w.session \in DOMAIN sessions => Follows(view, View(sessions[w.session]))
      /\ w.session = sh.session => Follows(sh.view, view)
  BY <1>2, ReadFollows
<1>5. w.session \in 1 .. sessionCount
  BY <1>2 DEF HandlerOK, ServingOK, Idle
<1> QED
  BY <1>1, <1>3, <1>4, <1>5

(* AnswerCreate shows the status alone, beside the marks shown before.        *)
LEMMA AnswerCreateShows ==
  ASSUME TypeOK, SessionsBacked, ClientsOK, NEW c \in Clients, AnswerCreate(c)
  PROVE  \E view \in Views :
           LET s == serving[c].session
           IN  /\ shown' = [shown EXCEPT ![c] = [session |-> s, view |-> view]]
               /\ s \in 1 .. sessionCount
               /\ s \in DOMAIN sessions => Follows(view, View(sessions[s]))
               /\ s = shown[c].session => InOrder(shown[c].view, view)
<1>1. PICK w, sh : w = serving[c] /\ sh = shown[c]
  OBVIOUS
<1>2. HandlerOK(w) /\ SeenOK(sh) /\ AheadOK(w, sh) /\ w.op = "status" /\ Watches(w)
  BY <1>1 DEF ClientsOK, ClientOK, AnswerCreate, Watches
<1>3. PICK before : before = IF sh.session = w.session THEN sh.view ELSE Nothing
  OBVIOUS
<1>4. PICK read \in Read(w.values) :
        shown' = [shown EXCEPT ![c] = [session |-> w.session,
                                       view |-> [before EXCEPT !.status = read.status]]]
  BY <1>1, <1>3 DEF AnswerCreate
<1>5. PICK view : view = [before EXCEPT !.status = read.status]
  OBVIOUS
<1>6. /\ read \in Views
      /\ w.session \in DOMAIN sessions => Follows(read, View(sessions[w.session]))
      /\ w.session = sh.session => Follows(sh.view, read)
  BY <1>2, ReadFollows
<1>7. before \in Views
  BY <1>2, <1>3 DEF SeenOK, Nothing, Views
<1>8. /\ view \in Views /\ view.status = read.status /\ view.attested = before.attested
      /\ view.committed = before.committed /\ view.shared = before.shared
  BY <1>5, <1>6, <1>7 DEF Views
<1>9. w.session \in 1 .. sessionCount
  BY <1>2 DEF HandlerOK, ServingOK, Idle
<1>10. ASSUME w.session \in DOMAIN sessions PROVE Follows(view, View(sessions[w.session]))
  <2> DEFINE x == View(sessions[w.session])
  <2>1. Follows(read, x)
    BY <1>6, <1>10
  <2>2. sh.session = w.session => InOrder(sh.view, x)
    BY <1>2, <1>10 DEF SeenOK, Follows
  <2> HIDE DEF x
  <2>3. /\ before.attested \subseteq x.attested /\ before.committed \subseteq x.committed
        /\ before.shared \subseteq x.shared
    BY <1>3, <2>2 DEF InOrder, Nothing
  <2> QED
    BY <1>8, <2>1, <2>3 DEF Follows, InOrder, Explained, x
<1>11. ASSUME w.session = sh.session PROVE InOrder(sh.view, view)
  BY <1>3, <1>6, <1>8, <1>11 DEF Follows, InOrder
<1> QED
  BY <1>1, <1>4, <1>5, <1>8, <1>9, <1>10, <1>11

LEMMA ClientsAnswer ==
  ASSUME Steady, ClientsOK, NEW c \in Clients, Answer(c) \/ AnswerCreate(c) PROVE ClientsOK'
<1>1. PICK s \in 1 .. sessionCount, view \in Views :
        /\ shown' = [shown EXCEPT ![c] = [session |-> s, view |-> view]]
        /\ s \in DOMAIN sessions => Follows(view, View(sessions[s]))
  <2>1. CASE Answer(c)
    <3>1. PICK view \in Views :
           LET s == serving[c].session
           IN  /\ shown' = [shown EXCEPT ![c] = [session |-> s, view |-> view]]
               /\ s \in 1 .. sessionCount
               /\ s \in DOMAIN sessions => Follows(view, View(sessions[s]))
               /\ s = shown[c].session => Follows(shown[c].view, view)
      BY <2>1, AnswerShows DEF Steady
    <3> QED
      BY <3>1
  <2>2. CASE AnswerCreate(c)
    <3>1. PICK view \in Views :
           LET s == serving[c].session
           IN  /\ shown' = [shown EXCEPT ![c] = [session |-> s, view |-> view]]
               /\ s \in 1 .. sessionCount
               /\ s \in DOMAIN sessions => Follows(view, View(sessions[s]))
               /\ s = shown[c].session => InOrder(shown[c].view, view)
      BY <2>2, AnswerCreateShows DEF Steady
    <3> QED
      BY <3>1
  <2> QED
    BY <2>1, <2>2
<1>2. /\ UNCHANGED sessions /\ UNCHANGED sessionCount
      /\ serving' = [d \in Clients |-> IF d = c THEN Idle ELSE Later(serving[d])]
  BY DEF Answer, AnswerCreate, Serve, vars
<1> QED
  BY <1>1, <1>2, ClientShown

LEMMA ClientsStep ==
  ASSUME TypeOK, SessionsBacked, ClientsOK, [APINext]_apiVars PROVE ClientsOK'
<1>1. Steady
  BY ManagerStep, SteadyStep
<1>2. ASSUME NEW c \in Clients, NEW req \in Requests, APICreateSession(c, req) PROVE ClientsOK'
  BY <1>1, <1>2, ClientsCreate
<1>3. ASSUME NEW c \in Clients, NEW s \in SessionIDs, APIGetSession(c, s) PROVE ClientsOK'
  BY <1>1, <1>3, ClientsGetSession
<1>4. ASSUME NEW c \in Clients, NEW s \in SessionIDs, NEW a \in Signers,
             APIIssueChallenge(c, s, a)
      PROVE  ClientsOK'
  BY <1>1, <1>4, ClientsChallenge
<1>5. ASSUME NEW c \in Clients, NEW s \in SessionIDs, NEW a \in Signers, NEW r \in Reports,
             APISubmit(c, s, a, r)
      PROVE  ClientsOK'
  BY <1>1, <1>5, ClientsSubmit
<1>6. ASSUME NEW c \in Clients, Emit(c) PROVE ClientsOK'
  BY <1>1, <1>6, ClientsEmit
<1>7. ASSUME NEW c \in Clients, Answer(c) \/ AnswerCreate(c) PROVE ClientsOK'
  BY <1>1, <1>7, ClientsAnswer
<1>8. CASE Elsewhere
  BY <1>1, <1>8, ClientsElsewhere
<1>9. ASSUME UNCHANGED apiVars PROVE ClientsOK'
  <2>1. UNCHANGED <<sessions, sessionCount, call, challenges, serving, shown>>
    BY <1>9 DEF apiVars, vars
  <2>2. ASSUME NEW c \in Clients PROVE ClientOK(c)'
    <3>1. PICK w, sh : w = serving[c] /\ sh = shown[c]
      OBVIOUS
    <3>2. HandlerOK(w) /\ SeenOK(sh) /\ AheadOK(w, sh)
      BY <3>1 DEF ClientsOK, ClientOK
    <3>3. HandlerOK(w)'
      BY <2>1, <3>2 DEF HandlerOK, ServingOK, Free
    <3>4. SeenOK(sh)'
      BY <2>1, <3>2 DEF SeenOK
    <3> QED
      BY <2>1, <3>1, <3>2, <3>3, <3>4, ClientNext
  <2> QED
    BY <2>1, <2>2 DEF ClientsOK
<1>10. ASSUME NEW c \in Clients, NEW s \in SessionIDs,
              \/ APIGetSession(c, s)
              \/ \E a \in Signers : \/ APIIssueChallenge(c, s, a)
                                    \/ \E r \in Reports : APISubmit(c, s, a, r)
       PROVE  ClientsOK'
  BY <1>3, <1>4, <1>5, <1>10
<1>11. ASSUME APINext PROVE ClientsOK'
  BY <1>2, <1>6, <1>7, <1>8, <1>10, <1>11 DEF APINext
<1> QED
  BY <1>9, <1>11

LEMMA ClientsInit == APIInit => ClientsOK
<1> SUFFICES ASSUME APIInit PROVE ClientsOK
  OBVIOUS
<1>1. sessionCount = 0 /\ DOMAIN sessions = {}
  BY DEF APIInit, Init
<1>2. Nothing \in Views
  BY DEF Nothing, Views
<1>3. shown \in [Clients -> [session : 0 .. sessionCount, view : Views]]
  BY <1>1, <1>2 DEF APIInit
<1>4. ASSUME NEW c \in Clients PROVE ClientOK(c)
  <2>1. serving[c] = Idle /\ serving[c].op = "idle" /\ shown[c].session = 0
        /\ shown[c].view \in Views
    BY <1>2 DEF APIInit, Idle
  <2>2. HandlerOK(serving[c])
    BY <2>1 DEF HandlerOK, ServingOK, Watches
  <2> QED
    BY <1>1, <2>1, <2>2 DEF ClientOK, SeenOK, AheadOK, Watches
<1> QED
  BY <1>3, <1>4 DEF ClientsOK

LEMMA ClientsAlwaysOK == APISpec => [](TypeOK /\ SessionsBacked /\ ClientsOK)
<1>1. APIInit => ClientsOK
  BY ClientsInit
<1>2. TypeOK /\ SessionsBacked /\ ClientsOK /\ [APINext]_apiVars => ClientsOK'
  BY ClientsStep
<1> QED
  BY <1>1, <1>2, HandlersUseManager, SessionTypeCorrect, AlwaysBacked, PTL DEF APISpec

-----------------------------------------------------------------------------
(* Who is shown what, and when a handler of GetSession is done. *)
LEMMA ShownOrNot ==
  ASSUME ClientsOK, [APINext]_apiVars, NEW c \in Clients, ~Answer(c), ~AnswerCreate(c)
  PROVE  shown'[c] = shown[c]
<1>1. ASSUME NEW d \in Clients, Answer(d) \/ AnswerCreate(d) PROVE shown'[c] = shown[c]
  <2>1. d # c
    BY <1>1
  <2>2. \E x : shown' = [shown EXCEPT ![d] = x]
    <3>1. CASE Answer(d)
      BY <3>1 DEF Answer
    <3>2. CASE AnswerCreate(d)
      BY <3>2 DEF AnswerCreate
    <3> QED
      BY <1>1, <3>1, <3>2
  <2> QED
    BY <2>1, <2>2 DEF ClientsOK
<1>2. CASE UNCHANGED shown
  BY <1>2
<1>3. UNCHANGED shown \/ \E d \in Clients : Answer(d) \/ AnswerCreate(d)
  <2>1. ASSUME NEW d \in Clients, NEW s \in SessionIDs,
               \/ APIGetSession(d, s)
               \/ \E a \in Signers : \/ APIIssueChallenge(d, s, a)
                                     \/ \E r \in Reports : APISubmit(d, s, a, r)
        PROVE  UNCHANGED shown
    <3>1. ASSUME NEW a, APIIssueChallenge(d, s, a) PROVE UNCHANGED shown
      BY <3>1 DEF APIIssueChallenge
    <3>2. ASSUME NEW a, NEW r, APISubmit(d, s, a, r) PROVE UNCHANGED shown
      BY <3>2, Zenon DEF APISubmit
    <3>3. ASSUME APIGetSession(d, s) PROVE UNCHANGED shown
      BY <3>3 DEF APIGetSession
    <3> QED
      BY <2>1, <3>1, <3>2, <3>3
  <2>2. ASSUME NEW d \in Clients, \/ \E req \in Requests : APICreateSession(d, req)
                                  \/ Emit(d)
        PROVE  UNCHANGED shown
    BY <2>2 DEF APICreateSession, Emit
  <2>3. ASSUME Elsewhere \/ UNCHANGED apiVars PROVE UNCHANGED shown
    BY <2>3 DEF Elsewhere, apiVars
  <2> QED
    BY <2>1, <2>2, <2>3 DEF APINext
<1> QED
  BY <1>1, <1>2, <1>3

LEMMA ReadsUntilAnswer ==
  ASSUME Steady, ClientsOK, [APINext]_apiVars, NEW c \in Clients,
         serving[c].op = "get", serving'[c] = Idle
  PROVE  Answer(c)
<1>1. serving'[c].op # "get" /\ serving[c] # Idle
  BY DEF Idle
<1>2. serving'[c] # Later(serving[c])
  <2>1. PICK w, v, sh : w = serving[c] /\ v = serving'[c] /\ sh = shown[c]
    OBVIOUS
  <2>2. Watches(w) /\ HandlerOK(w) /\ AheadOK(w, sh) /\ SeenOK(sh)
    BY <2>1 DEF ClientsOK, ClientOK, Watches
  <2>3. SeenOK(sh)'
    BY <2>2, SeenStep
  <2> QED
    BY <1>1, <2>1, <2>2, <2>3, LaterWatches
<1>3. ASSUME NEW d \in Clients, d # c, NEW w, Serve(d, w) PROVE FALSE
  BY <1>2, <1>3 DEF Serve
<1>4. ~Elsewhere /\ ~UNCHANGED apiVars
  BY <1>1, <1>2 DEF Elsewhere, apiVars
<1>5. ASSUME NEW d \in Clients, NEW req \in Requests, APICreateSession(d, req) PROVE FALSE
  BY <1>1, <1>3, <1>5 DEF APICreateSession, Calling
<1>6. ASSUME NEW d \in Clients, NEW s \in SessionIDs, APIGetSession(d, s) PROVE FALSE
  BY <1>1, <1>3, <1>6 DEF APIGetSession, Calling
<1>7. ASSUME NEW d \in Clients, NEW s \in SessionIDs, NEW a \in Signers,
             \/ APIIssueChallenge(d, s, a)
             \/ \E r \in Reports : APISubmit(d, s, a, r)
      PROVE  FALSE
  BY <1>1, <1>3, <1>7 DEF APIIssueChallenge, APISubmit, Calling
<1>8. ASSUME NEW d \in Clients, Emit(d) \/ AnswerCreate(d) PROVE FALSE
  BY <1>3, <1>8 DEF Emit, AnswerCreate
<1>9. ASSUME NEW d \in Clients, d # c, Answer(d) PROVE FALSE
  BY <1>3, <1>9 DEF Answer
<1> QED
  BY <1>4, <1>5, <1>6, <1>7, <1>8, <1>9 DEF APINext

(* What one step shows is in order, and an answer of GetSession explains what *)
(* the client was shown before.                                               *)
ShownInOrder == \A c \in Clients :
  shown[c].session = shown'[c].session => InOrder(shown[c].view, shown'[c].view)

AnswerExplains == \A c \in Clients :
  /\ shown[c].session = shown'[c].session /\ serving[c].op = "get" /\ serving'[c] = Idle
  => Explained(shown[c].view, shown'[c].view)

LEMMA ShownStep ==
  ASSUME TypeOK, SessionsBacked, ClientsOK, [APINext]_apiVars
  PROVE  ShownInOrder /\ AnswerExplains
<1>1. ASSUME NEW c \in Clients, Answer(c), shown[c].session = shown'[c].session
      PROVE  Follows(shown[c].view, shown'[c].view)
  <2>1. PICK view \in Views :
           LET s == serving[c].session
           IN  /\ shown' = [shown EXCEPT ![c] = [session |-> s, view |-> view]]
               /\ s \in 1 .. sessionCount
               /\ s \in DOMAIN sessions => Follows(view, View(sessions[s]))
               /\ s = shown[c].session => Follows(shown[c].view, view)
    BY <1>1, AnswerShows
  <2>2. shown'[c] = [session |-> serving[c].session, view |-> view]
    BY <2>1 DEF ClientsOK
  <2> QED
    BY <1>1, <2>1, <2>2
<1>2. ASSUME NEW c \in Clients, AnswerCreate(c), shown[c].session = shown'[c].session
      PROVE  InOrder(shown[c].view, shown'[c].view)
  <2>1. PICK view \in Views :
           LET s == serving[c].session
           IN  /\ shown' = [shown EXCEPT ![c] = [session |-> s, view |-> view]]
               /\ s \in 1 .. sessionCount
               /\ s \in DOMAIN sessions => Follows(view, View(sessions[s]))
               /\ s = shown[c].session => InOrder(shown[c].view, view)
    BY <1>2, AnswerCreateShows
  <2>2. shown'[c] = [session |-> serving[c].session, view |-> view]
    BY <2>1 DEF ClientsOK
  <2> QED
    BY <1>2, <2>1, <2>2
<1>3. ASSUME NEW c \in Clients, ~Answer(c), ~AnswerCreate(c)
      PROVE  InOrder(shown[c].view, shown'[c].view)
  <2>1. shown'[c] = shown[c]
    BY <1>3, ShownOrNot
  <2> QED
    BY <2>1, RankIsNumber DEF InOrder
<1>4. ShownInOrder
  BY <1>1, <1>2, <1>3 DEF ShownInOrder, Follows
<1>5. AnswerExplains
  BY <1>1, ReadsUntilAnswer, ManagerStep, SteadyStep DEF AnswerExplains, Follows
<1> QED
  BY <1>4, <1>5

(* server.go:205, handlers read sessions without the manager's lock: still no  *)
(* client is shown a mark cleared or a phase gone back, for any interleaving   *)
(* of any clients with the steps of the manager.                               *)
THEOREM AnswersComeInOrder == APISpec => AnswersInOrder
<1>1. TypeOK /\ SessionsBacked /\ ClientsOK /\ [APINext]_apiVars => [ShownInOrder]_apiVars
  BY ShownStep
<1> QED
  BY <1>1, ClientsAlwaysOK, PTL DEF APISpec, AnswersInOrder, ShownInOrder

(* server.go:205-219: a phase that is shown before its marks is explained by   *)
(* the next answer of GetSession to that client.                               *)
THEOREM AnswersAreExplained == APISpec => NextAnswerExplains
<1>1. TypeOK /\ SessionsBacked /\ ClientsOK /\ [APINext]_apiVars => [AnswerExplains]_apiVars
  BY ShownStep
<1> QED
  BY <1>1, ClientsAlwaysOK, PTL DEF APISpec, NextAnswerExplains, AnswerExplains

-----------------------------------------------------------------------------
(* A nonce that will not be accepted any more. *)
Spent(n) == n \in 1 .. nonceCount /\ (n \in DOMAIN issued => issued[n].used)

LEMMA SpentIsNotAnswerable == ASSUME NEW n, Spent(n) PROVE ~NM!Answerable(n)
BY DEF Spent, NM!Answerable

(* No step makes the table take a used nonce again. *)
LEMMA TableStep == ASSUME TypeOK, [Next]_vars PROVE TableKeepsUsed
<1>1. CASE UNCHANGED nonceVars
  BY <1>1, TableOperations
<1>2. CASE CreateStep
  <2>1. UNCHANGED nonceVars
    BY <1>2 DEF CreateStep, ReadRequired, RefuseRequired, ReadActive, CreateFails,
                CreateReuses, CreateNew
  <2> QED
    BY <1>1, <2>1
<1>3. CASE \E req \in Requests : CreateSession(req)
  BY <1>1, <1>3 DEF CreateSession
<1>4. CASE \E c \in challenges : IssueNonce(c) \/ IssueFails(c)
  BY <1>1, <1>4, TableOperations DEF IssueNonce, IssueFails
<1>5. CASE CleanupExpired \/ Tick \/ PolicyChange \/ UNCHANGED vars
  BY <1>1, <1>5 DEF CleanupExpired, Tick, NM!Tick, PolicyChange, vars, nonceVars
<1>6. CASE CleanupNonces
  BY <1>6, TableOperations DEF CleanupNonces
<1>7. ASSUME NEW s \in SessionIDs,
             \/ SubmitLate(s)
             \/ \E a \in Signers : IssueChallenge(s, a) \/ RecordCommitment(s, a) \/ RecordShare(s, a)
      PROVE  UNCHANGED nonceVars
  BY <1>7 DEF SubmitLate, IssueChallenge, RecordCommitment, RecordShare
<1>8. ASSUME NEW s \in SessionIDs, NEW a \in Signers, NEW doc \in Docs, NEW n \in NM!Nonces,
             SubmitRejected(s, a, doc, n) \/ SubmitAccepted(s, a, doc, n)
      PROVE  TableKeepsUsed
  BY <1>8, TableOperations DEF SubmitRejected, SubmitAccepted, Submit
<1> QED
  BY <1>1, <1>2, <1>3, <1>4, <1>5, <1>6, <1>7, <1>8 DEF Next

LEMMA SpentStays == ASSUME TypeOK, [Next]_vars, NEW n, Spent(n) PROVE Spent(n)'
<1>1. TableKeepsUsed /\ nonceCount \in Nat
  BY TableStep, ManagerConstants DEF TypeOK, NM!TypeOK
<1> QED
  BY <1>1 DEF Spent, TableKeepsUsed

(* A nonce that is accepted or rejected could be answered, and no more. *)
LEMMA ValidateSpends ==
  ASSUME TypeOK, NEW n \in NM!Nonces, NM!Validate(n)
  PROVE  NM!Answerable(n) /\ Spent(n)'
<1>1. NM!Answerable(n) /\ n \in DOMAIN issued
  BY DEF NM!Validate, NM!Answerable
<1>2. n \in 1 .. nonceCount /\ nonceCount' = nonceCount /\ issued[n] \in NM!NonceEntry
  BY <1>1 DEF TypeOK, NM!TypeOK, NM!Validate
<1>3. issued'[n].used
  BY <1>1, <1>2 DEF NM!Validate, NM!Store, NM!NonceEntry
<1> QED
  BY <1>1, <1>2, <1>3 DEF Spent

(* Only an attestation that is accepted comes to rest on a nonce. *)
LEMMA RecordedByAccepting ==
  ASSUME TypeOK, [Next]_vars, NEW n, Recorded(n)', ~Recorded(n)
  PROVE  \E s \in SessionIDs, a \in Signers, doc \in Docs : SubmitAccepted(s, a, doc, n)
<1>1. ~RecordsNothing
  BY DEF Recorded, RecordsNothing
<1>2. ASSUME NEW s \in SessionIDs, NEW a \in Signers,
             RecordCommitment(s, a) \/ RecordShare(s, a)
      PROVE  RecordsNothing
  BY <1>2 DEF RecordCommitment, RecordShare, RecordsNothing, TypeOK, SessionsOK,
              WellFormed, Session
<1>3. ASSUME NEW s \in SessionIDs, SubmitLate(s) PROVE RecordsNothing
  BY <1>3 DEF SubmitLate, RecordsNothing, TypeOK, SessionsOK, WellFormed, Session
<1>4. ASSUME CreateNew PROVE FALSE
  <2>1. RecordsNothing
    BY <1>4, NewID DEF CreateNew, Put, NewSession, RecordsNothing
  <2> QED
    BY <1>1, <2>1
<1>5. ASSUME CleanupExpired PROVE FALSE
  <2>1. RecordsNothing
    BY <1>5 DEF CleanupExpired, Restrict, RecordsNothing
  <2> QED
    BY <1>1, <2>1
<1>6. ASSUME UNCHANGED <<sessions, sessionCount>> PROVE FALSE
  BY <1>6 DEF Recorded
<1>7. PICK s \in SessionIDs, a \in Signers, doc \in Docs, m \in NM!Nonces :
        SubmitAccepted(s, a, doc, m)
  BY <1>1, <1>2, <1>3, <1>4, <1>5, <1>6, SessionSteps
<1>8. m = n
  <2>1. s \in DOMAIN sessions /\ sessions' = [sessions EXCEPT ![s] = MaybeAdvance(Attest(s, a, m))]
    BY <1>7, AcceptedUpdate
  <2>2. sessions'[s].attestations = Put(sessions[s].attestations, a, m)
    <3>1. MaybeAdvance(Attest(s, a, m)).attestations = Put(sessions[s].attestations, a, m)
      BY <2>1, AttestFields DEF TypeOK
    <3> QED
      BY <2>1, <3>1
  <2>3. PICK t, b : /\ t \in DOMAIN sessions' /\ b \in DOMAIN sessions'[t].attestations
                    /\ sessions'[t].attestations[b] = n
    BY DEF Recorded
  <2>4. CASE t # s
    BY <2>1, <2>3, <2>4 DEF Recorded
  <2>5. CASE t = s
    BY <2>1, <2>2, <2>3, <2>5 DEF Recorded, Put
  <2> QED
    BY <2>4, <2>5
<1> QED
  BY <1>7, <1>8

-----------------------------------------------------------------------------
(* The verdicts on a challenge: those in the log and those on their way.     *)
Given(n) == Len(audited[n]) + Cardinality(VerdictsOn(n))
Rejected(n) == \/ \E i \in DOMAIN audited[n] : audited[n][i] # "accepted"
               \/ \E c \in VerdictsOn(n) : serving[c].verdict # "accepted"

OneVerdict(n) == /\ Given(n) <= 1
                 /\ Given(n) > 0 => Spent(n)
                 /\ Rejected(n) => ~Recorded(n)

VerdictsOK ==
  /\ audited \in [NM!Nonces -> Seq(Verdicts)]
  /\ \A n \in NM!Nonces : OneVerdict(n)

(* What the step leaves on its way. *)
EmitKept(c) == \/ serving[c].op = "emit" /\ serving'[c] = serving[c]
               \/ serving[c].op # "emit" /\ serving'[c].op # "emit"

LEMMA EmitLater ==
  ASSUME Steady, ClientsOK, NEW c \in Clients, serving'[c] = Later(serving[c]) PROVE EmitKept(c)
<1>1. PICK w, v, sh : w = serving[c] /\ v = serving'[c] /\ sh = shown[c]
  OBVIOUS
<1>2. HandlerOK(w) /\ SeenOK(sh) /\ AheadOK(w, sh) /\ v = Later(w)
  BY <1>1 DEF ClientsOK, ClientOK
<1>3. SeenOK(sh)'
  BY <1>2, SeenStep
<1>4. CASE w.op \notin {"create", "challenge", "get", "status"}
  BY <1>1, <1>2, <1>4 DEF Later, EmitKept
<1>5. CASE w.op = "challenge"
  BY <1>1, <1>2, <1>5 DEF Later, EmitKept, Idle
<1>6. CASE w.op = "create"
  <2>1. v = w \/ v = Returned(w.req)
    BY <1>2, <1>6 DEF Later
  <2>2. v = Returned(w.req) => v.op \in {"idle", "status"}
    BY DEF Returned, Idle, Holding
  <2> QED
    BY <1>1, <1>6, <2>1, <2>2 DEF EmitKept
<1>7. CASE Watches(w)
  <2>1. v.op = w.op
    BY <1>2, <1>3, <1>7, LaterWatches
  <2> QED
    BY <1>1, <1>7, <2>1 DEF EmitKept, Watches
<1> QED
  BY <1>4, <1>5, <1>6, <1>7 DEF Watches

(* Only SubmitAttestation puts a verdict on its way, and only Emit ends it.   *)
LEMMA EmitsKept ==
  ASSUME Steady, ClientsOK, [APINext]_apiVars, NEW c \in Clients,
         ~Emit(c), ~\E s \in SessionIDs, a \in Signers, r \in Reports : APISubmit(c, s, a, r)
  PROVE  EmitKept(c)
<1> USE DEF Idle
<1>1. ASSUME serving'[c] = Later(serving[c]) PROVE EmitKept(c)
  BY <1>1, EmitLater
<1>2. ASSUME NEW d \in Clients, d # c, NEW w, Serve(d, w) PROVE EmitKept(c)
  BY <1>1, <1>2 DEF Serve
<1>3. ASSUME NEW w, Serve(c, w), w.op # "emit", serving[c].op # "emit" PROVE EmitKept(c)
  BY <1>3 DEF Serve, EmitKept
<1>4. ASSUME NEW d \in Clients, NEW req \in Requests, APICreateSession(d, req)
      PROVE  EmitKept(c)
  <2>1. \E w : Serve(d, w) /\ w.op # "emit" /\ serving[d].op # "emit"
    BY <1>4 DEF APICreateSession, Calling, Holding
  <2> QED
    BY <1>2, <1>3, <2>1
<1>5. ASSUME NEW d \in Clients, NEW s \in SessionIDs, APIGetSession(d, s) PROVE EmitKept(c)
  <2>1. \E w : Serve(d, w) /\ w.op # "emit" /\ serving[d].op # "emit"
    BY <1>5 DEF APIGetSession, Calling, Holding
  <2> QED
    BY <1>2, <1>3, <2>1
<1>6. ASSUME NEW d \in Clients, NEW s \in SessionIDs, NEW a \in Signers,
             APIIssueChallenge(d, s, a)
      PROVE  EmitKept(c)
  <2>1. \E w : Serve(d, w) /\ w.op # "emit" /\ serving[d].op # "emit"
    BY <1>6 DEF APIIssueChallenge, Calling
  <2> QED
    BY <1>2, <1>3, <2>1
<1>7. ASSUME NEW d \in Clients, Answer(d) \/ AnswerCreate(d) PROVE EmitKept(c)
  <2>1. \E w : Serve(d, w) /\ w.op # "emit" /\ serving[d].op # "emit"
    BY <1>7 DEF Answer, AnswerCreate
  <2> QED
    BY <1>2, <1>3, <2>1
<1>8. ASSUME NEW d \in Clients, d # c,
             Emit(d) \/ \E s \in SessionIDs, a \in Signers, r \in Reports : APISubmit(d, s, a, r)
      PROVE  EmitKept(c)
  <2>1. \E w : Serve(d, w)
    BY <1>8 DEF Emit, APISubmit
  <2> QED
    BY <1>2, <1>8, <2>1
<1>9. CASE Elsewhere
  BY <1>1, <1>9 DEF Elsewhere
<1>10. CASE UNCHANGED apiVars
  BY <1>10 DEF apiVars, EmitKept
<1> QED
  BY <1>4, <1>5, <1>6, <1>7, <1>8, <1>9, <1>10 DEF APINext

LEMMA VerdictsFinite ==
  ASSUME NEW n PROVE IsFiniteSet(VerdictsOn(n)) /\ IsFiniteSet(VerdictsOn(n)')
BY APIConstants, FS_Subset DEF VerdictsOn

(* A step that leaves the verdicts on a challenge alone: the challenge stays  *)
(* spent if it was, and a rejected one is recorded by nobody.                 *)
SameVerdicts(n) ==
  /\ audited'[n] = audited[n]
  /\ VerdictsOn(n)' = VerdictsOn(n)
  /\ \A c \in VerdictsOn(n) : serving'[c].verdict = serving[c].verdict

LEMMA KeptVerdicts ==
  ASSUME NEW n, audited'[n] = audited[n],
         \A c \in Clients : EmitKept(c) \/ (c \notin VerdictsOn(n) /\ c \notin VerdictsOn(n)')
  PROVE  SameVerdicts(n)
BY DEF SameVerdicts, VerdictsOn, EmitKept

LEMMA RejectedIsGiven ==
  ASSUME VerdictsOK, NEW n \in NM!Nonces, Rejected(n) PROVE Given(n) > 0
<1>1. audited[n] \in Seq(Verdicts) /\ Len(audited[n]) \in Nat /\ Cardinality(VerdictsOn(n)) \in Nat
  BY VerdictsFinite, FS_CardinalityType DEF VerdictsOK
<1>2. CASE \E i \in DOMAIN audited[n] : audited[n][i] # "accepted"
  BY <1>1, <1>2 DEF Given
<1>3. CASE \E c \in VerdictsOn(n) : serving[c].verdict # "accepted"
  <2>1. Cardinality(VerdictsOn(n)) # 0
    BY <1>3, VerdictsFinite, FS_EmptySet
  <2> QED
    BY <1>1, <2>1 DEF Given
<1> QED
  BY <1>2, <1>3 DEF Rejected

LEMMA SameVerdictsStep ==
  ASSUME TypeOK, [Next]_vars, VerdictsOK, NEW n \in NM!Nonces, SameVerdicts(n)
  PROVE  OneVerdict(n)'
<1>1. Given(n)' = Given(n) /\ (Rejected(n)' <=> Rejected(n))
  BY DEF SameVerdicts, Given, Rejected
<1>2. Given(n) <= 1 /\ (Given(n) > 0 => Spent(n)) /\ (Rejected(n) => ~Recorded(n))
  BY DEF VerdictsOK, OneVerdict
<1>3. Rejected(n) => ~Recorded(n)'
  <2>1. SUFFICES ASSUME Rejected(n), Recorded(n)' PROVE FALSE
    OBVIOUS
  <2>2. ~NM!Answerable(n)
    BY <1>2, <2>1, RejectedIsGiven, SpentIsNotAnswerable
  <2>3. PICK s \in SessionIDs, a \in Signers, doc \in Docs : SubmitAccepted(s, a, doc, n)
    BY <1>2, <2>1, RecordedByAccepting
  <2> QED
    BY <2>2, <2>3, ValidateSpends DEF SubmitAccepted, Submit
<1>4. Given(n) > 0 => Spent(n)'
  BY <1>2, SpentStays
<1> QED
  BY <1>1, <1>2, <1>3, <1>4 DEF OneVerdict

-----------------------------------------------------------------------------
(* SubmitAttestation gives the first verdict on its nonce, or none.          *)
LEMMA LogAndWay ==
  ASSUME VerdictsOK, NEW n \in NM!Nonces
  PROVE  /\ audited[n] \in Seq(Verdicts) /\ Len(audited[n]) \in Nat
         /\ Cardinality(VerdictsOn(n)) \in Nat
         /\ Given(n) = Len(audited[n]) + Cardinality(VerdictsOn(n))
BY VerdictsFinite, FS_CardinalityType DEF VerdictsOK, Given

LEMMA FirstVerdict ==
  ASSUME NoncesOnce, VerdictsOK, NEW n \in NM!Nonces, NM!Answerable(n), Spent(n)',
         NEW c, VerdictsOn(n)' = VerdictsOn(n) \cup {c}, audited'[n] = audited[n],
         serving'[c].verdict # "accepted" => UNCHANGED sessions
  PROVE  OneVerdict(n)'
<1>1. Len(audited[n]) = 0 /\ Cardinality(VerdictsOn(n)) = 0
  <2>1. Given(n) > 0 => Spent(n)
    BY DEF VerdictsOK, OneVerdict
  <2>2. ~Spent(n)
    BY SpentIsNotAnswerable
  <2> QED
    BY <2>1, <2>2, LogAndWay
<1>2. VerdictsOn(n)' = {c}
  BY <1>1, VerdictsFinite, FS_EmptySet
<1>3. Given(n)' = 1
  <2>1. Given(n)' = Len(audited'[n]) + Cardinality(VerdictsOn(n)')
    BY DEF Given
  <2>2. Cardinality(VerdictsOn(n)') = 1
    BY <1>2, FS_Singleton
  <2> QED
    BY <1>1, <2>1, <2>2
<1>4. Rejected(n)' => ~Recorded(n)'
  <2>1. DOMAIN audited'[n] = {}
    BY <1>1, LogAndWay
  <2>2. SUFFICES ASSUME serving'[c].verdict # "accepted" PROVE ~Recorded(n)'
    BY <1>2, <2>1 DEF Rejected
  <2>3. ~Recorded(n)
    BY DEF NoncesOnce, RecordedNoncesSpent, Recorded, NM!Answerable
  <2> QED
    BY <2>2, <2>3 DEF Recorded
<1>5. Given(n)' <= 1
  BY <1>3
<1> QED
  BY <1>4, <1>5 DEF OneVerdict

LEMMA IdleEmitsNothing == Idle.op # "emit"
BY DEF Idle

LEMMA VerdictsSubmit ==
  ASSUME Steady, ClientsOK, NoncesOnce, VerdictsOK, NEW c \in Clients, NEW s \in SessionIDs,
         NEW a \in Signers, NEW r \in Reports, APISubmit(c, s, a, r)
  PROVE  VerdictsOK'
<1>1. PICK verdict \in Verdicts \cup {""} :
        /\ serving'[c] = [op |-> "emit", nonce |-> r.nonce, verdict |-> verdict]
        /\ \/ SubmitAccepted(s, a, Document(r), r.nonce) /\ verdict = "accepted"
           \/ SubmitRejected(s, a, Document(r), r.nonce) /\ verdict \notin {"accepted", ""}
           \/ (SubmitLate(s) \/ UNCHANGED vars) /\ verdict = ""
  BY SubmitServes
<1>2. serving[c] = Idle /\ audited' = audited
  BY DEF APISubmit, Calling
<1>3. \A d \in Clients : d # c => EmitKept(d)
  BY EmitLater DEF APISubmit, Serve
<1>4. serving'[c].op = "emit" /\ serving'[c].nonce = r.nonce /\ serving'[c].verdict = verdict
  <2>1. PICK v : v = serving'[c]
    OBVIOUS
  <2>2. v = [op |-> "emit", nonce |-> r.nonce, verdict |-> verdict]
    BY <1>1, <2>1
  <2>3. v.op = "emit" /\ v.nonce = r.nonce /\ v.verdict = verdict
    BY <2>2
  <2> QED
    BY <2>1, <2>3
<1>5. r.nonce \in NM!Nonces /\ Document(r) \in Docs
  BY APIConstants
<1>6. ASSUME NEW n \in NM!Nonces, n # r.nonce \/ verdict = "" PROVE OneVerdict(n)'
  <2>1. c \notin VerdictsOn(n) /\ c \notin VerdictsOn(n)'
    <3>1. serving[c].op # "emit"
      BY <1>2, IdleEmitsNothing
    <3> QED
      BY <1>4, <1>6, <3>1 DEF VerdictsOn
  <2>2. SameVerdicts(n)
    BY <1>2, <1>3, <2>1, KeptVerdicts
  <2> QED
    BY <2>2, SameVerdictsStep DEF Steady
<1>7. ASSUME verdict # "" PROVE OneVerdict(r.nonce)'
  <2>1. PICK n \in NM!Nonces : n = r.nonce
    BY <1>5
  <2>2. NM!Validate(n) /\ (verdict # "accepted" => UNCHANGED sessions)
    BY <1>1, <1>7, <2>1 DEF SubmitAccepted, SubmitRejected, Submit
  <2>3. NM!Answerable(n) /\ Spent(n)'
    BY <2>2, ValidateSpends DEF Steady
  <2>4. VerdictsOn(n)' = VerdictsOn(n) \cup {c}
    BY <1>3, <1>4, <1>7, <2>1 DEF VerdictsOn, EmitKept
  <2>5. OneVerdict(n)'
    BY <1>2, <1>4, <2>2, <2>3, <2>4, FirstVerdict
  <2> QED
    BY <2>1, <2>5
<1>8. \A n \in NM!Nonces : OneVerdict(n)'
  BY <1>6, <1>7
<1> QED
  BY <1>2, <1>8 DEF VerdictsOK

(* Emit moves a verdict from its way to the log. *)
LEMMA LogGrows ==
  ASSUME NEW log \in Seq(Verdicts), NEW verdict \in Verdicts
  PROVE  /\ Append(log, verdict) \in Seq(Verdicts)
         /\ Len(Append(log, verdict)) = Len(log) + 1
         /\ \A i \in DOMAIN Append(log, verdict) :
              \/ i \in DOMAIN log /\ log[i] = Append(log, verdict)[i]
              \/ Append(log, verdict)[i] = verdict
OBVIOUS

LEMMA VerdictLogged ==
  ASSUME VerdictsOK, NEW n \in NM!Nonces, NEW verdict \in Verdicts, NEW c \in VerdictsOn(n),
         audited'[n] = Append(audited[n], verdict), VerdictsOn(n)' = VerdictsOn(n) \ {c}
  PROVE  Given(n)' = Given(n)
<1>1. Len(audited'[n]) = Len(audited[n]) + 1
  BY LogGrows, LogAndWay
<1>2. Cardinality(VerdictsOn(n)) = Cardinality(VerdictsOn(n)') + 1
  <2>1. VerdictsOn(n) = VerdictsOn(n)' \cup {c} /\ c \notin VerdictsOn(n)'
    OBVIOUS
  <2> QED
    BY <2>1, VerdictsFinite, FS_AddElement
<1>3. PICK l \in Nat, k \in Nat : l = Len(audited[n]) /\ k = Cardinality(VerdictsOn(n)')
  BY LogAndWay, VerdictsFinite, FS_CardinalityType
<1>4. Given(n) = l + (k + 1) /\ Given(n)' = (l + 1) + k
  BY <1>1, <1>2, <1>3 DEF Given
<1>5. l + (k + 1) = (l + 1) + k
  BY SMT
<1> QED
  BY <1>4, <1>5, Zenon

LEMMA VerdictsEmit ==
  ASSUME Steady, ClientsOK, VerdictsOK, NEW c \in Clients, Emit(c) PROVE VerdictsOK'
<1>1. serving[c].op = "emit" /\ serving[c].nonce \in NM!Nonces
      /\ serving[c].verdict \in Verdicts \cup {""}
  <2>1. PICK w : w = serving[c]
    OBVIOUS
  <2>2. ServingOK(w) /\ w.op = "emit"
    BY <2>1 DEF Emit, ClientsOK, ClientOK, HandlerOK
  <2>3. w # Idle
    BY <2>2 DEF Idle
  <2>4. w.nonce \in NM!Nonces /\ w.verdict \in Verdicts \cup {""}
    BY <2>2, <2>3 DEF ServingOK
  <2> QED
    BY <2>1, <2>2, <2>4
<1>2. serving'[c].op = "idle" /\ UNCHANGED vars
  BY DEF Emit, Serve, Idle
<1>3. \A d \in Clients : d # c => EmitKept(d)
  BY EmitLater DEF Emit, Serve
<1>4. PICK m \in NM!Nonces, verdict \in Verdicts \cup {""} :
        m = serving[c].nonce /\ verdict = serving[c].verdict
  BY <1>1
<1>5. audited' = IF verdict = "" THEN audited
                 ELSE [audited EXCEPT ![m] = Append(audited[m], verdict)]
  BY <1>4 DEF Emit
<1>6. audited' \in [NM!Nonces -> Seq(Verdicts)]
  BY <1>4, <1>5, LogGrows DEF VerdictsOK
<1>7. ASSUME NEW n \in NM!Nonces, n # m \/ verdict = "" PROVE OneVerdict(n)'
  <2>1. c \notin VerdictsOn(n) /\ c \notin VerdictsOn(n)'
    BY <1>2, <1>4, <1>7 DEF VerdictsOn
  <2>2. audited'[n] = audited[n]
    BY <1>5, <1>7 DEF VerdictsOK
  <2>3. SameVerdicts(n)
    BY <1>3, <2>1, <2>2, KeptVerdicts
  <2> QED
    BY <2>3, SameVerdictsStep DEF Steady
<1>8. ASSUME verdict # "" PROVE OneVerdict(m)'
  <2>1. audited'[m] = Append(audited[m], verdict) /\ audited[m] \in Seq(Verdicts) /\ verdict \in Verdicts
    BY <1>5, <1>8 DEF VerdictsOK
  <2>2. c \in VerdictsOn(m) /\ VerdictsOn(m)' = VerdictsOn(m) \ {c}
    <3>1. c \in VerdictsOn(m) /\ c \notin VerdictsOn(m)'
      BY <1>1, <1>2, <1>4, <1>8 DEF VerdictsOn
    <3>2. ASSUME NEW d, d # c PROVE d \in VerdictsOn(m)' <=> d \in VerdictsOn(m)
      BY <1>3, <3>2 DEF VerdictsOn, EmitKept
    <3> QED
      BY <3>1, <3>2
  <2>3. Given(m)' = Given(m)
    BY <2>1, <2>2, VerdictLogged
  <2>4. Rejected(m)' => Rejected(m)
    <3>1. ASSUME NEW i \in DOMAIN audited'[m], audited'[m][i] # "accepted" PROVE Rejected(m)
      <4>1. \/ i \in DOMAIN audited[m] /\ audited[m][i] = audited'[m][i]
            \/ audited'[m][i] = verdict
        BY <2>1, <3>1, LogGrows
      <4> QED
        BY <1>4, <2>2, <3>1, <4>1 DEF Rejected
    <3>2. ASSUME NEW d \in VerdictsOn(m)', serving'[d].verdict # "accepted" PROVE Rejected(m)
      <4>1. d \in VerdictsOn(m) /\ d # c /\ d \in Clients
        BY <2>2, <3>2 DEF VerdictsOn
      <4>2. serving[d].verdict # "accepted"
        BY <1>3, <3>2, <4>1 DEF VerdictsOn, EmitKept
      <4> QED
        BY <4>1, <4>2 DEF Rejected
    <3> QED
      BY <3>1, <3>2 DEF Rejected
  <2>5. (Spent(m)' <=> Spent(m)) /\ (Recorded(m)' <=> Recorded(m))
    BY <1>2 DEF vars, nonceVars, Spent, Recorded
  <2> QED
    BY <2>3, <2>4, <2>5 DEF VerdictsOK, OneVerdict
<1>9. \A n \in NM!Nonces : OneVerdict(n)'
  BY <1>7, <1>8
<1> QED
  BY <1>6, <1>9 DEF VerdictsOK

LEMMA VerdictsStep ==
  ASSUME TypeOK, SessionsBacked, ClientsOK, NoncesOnce, VerdictsOK, [APINext]_apiVars
  PROVE  VerdictsOK'
<1>1. Steady
  BY ManagerStep, SteadyStep
<1>2. ASSUME NEW c \in Clients, NEW s \in SessionIDs, NEW a \in Signers, NEW r \in Reports,
             APISubmit(c, s, a, r)
      PROVE  VerdictsOK'
  BY <1>1, <1>2, VerdictsSubmit
<1>3. ASSUME NEW c \in Clients, Emit(c) PROVE VerdictsOK'
  BY <1>1, <1>3, VerdictsEmit
<1>4. ASSUME \A c \in Clients :
               /\ ~Emit(c)
               /\ ~\E s \in SessionIDs, a \in Signers, r \in Reports : APISubmit(c, s, a, r)
      PROVE  VerdictsOK'
  <2>1. audited' = audited
    BY <1>4 DEF APINext, APICreateSession, APIIssueChallenge, APIGetSession, Answer,
                AnswerCreate, Elsewhere, apiVars
  <2>2. \A c \in Clients : EmitKept(c)
    BY <1>1, <1>4, EmitsKept
  <2>3. \A n \in NM!Nonces : SameVerdicts(n)
    BY <2>1, <2>2, KeptVerdicts
  <2>4. \A n \in NM!Nonces : OneVerdict(n)'
    BY <1>1, <2>3, SameVerdictsStep DEF Steady
  <2> QED
    BY <2>1, <2>4 DEF VerdictsOK
<1> QED
  BY <1>2, <1>3, <1>4

LEMMA VerdictsInit == APIInit => VerdictsOK
<1> SUFFICES ASSUME APIInit PROVE VerdictsOK
  OBVIOUS
<1>1. audited \in [NM!Nonces -> Seq(Verdicts)] /\ \A n \in NM!Nonces : audited[n] = <<>>
  BY DEF APIInit
<1>2. ASSUME NEW n \in NM!Nonces PROVE OneVerdict(n)
  <2>1. VerdictsOn(n) = {}
    BY DEF VerdictsOn, APIInit, Idle
  <2>2. Given(n) = 0
    BY <1>1, <2>1, FS_EmptySet DEF Given
  <2>3. ~Rejected(n)
    BY <1>1, <2>1 DEF Rejected
  <2> QED
    BY <2>2, <2>3 DEF OneVerdict
<1> QED
  BY <1>1, <1>2 DEF VerdictsOK

LEMMA AlwaysVerdictsOK == APISpec => []VerdictsOK
<1>1. APIInit => VerdictsOK
  BY VerdictsInit
<1>2. /\ TypeOK /\ SessionsBacked /\ ClientsOK /\ NoncesOnce /\ VerdictsOK
      /\ [APINext]_apiVars
      => VerdictsOK'
  BY VerdictsStep
<1> QED
  BY <1>1, <1>2, HandlersUseManager, AlwaysNoncesOnce, ClientsAlwaysOK, PTL DEF APISpec

(* types/attestation.go:67, server.go:167: whoever submits whatever against a  *)
(* challenge, it gets one verdict, which is the last word on it; a challenge   *)
(* the log shows as rejected is not what any session's attestation rests on.   *)
THEOREM ChallengeGetsOneVerdict == APISpec => []OneVerdictPerChallenge
<1>1. VerdictsOK => OneVerdictPerChallenge
  <2> SUFFICES ASSUME VerdictsOK, NEW n \in NM!Nonces
               PROVE  /\ Given(n) <= 1 /\ (Given(n) > 0 => ~NM!Answerable(n))
                      /\ (Rejected(n) => ~Recorded(n))
    BY DEF OneVerdictPerChallenge, Given, Rejected
  <2> QED
    BY SpentIsNotAnswerable DEF VerdictsOK, OneVerdict
<1> QED
  BY <1>1, AlwaysVerdictsOK, PTL

(* server.go: what the handlers hold, what clients were shown and what the log *)
(* has are always things the code can be at.                                   *)
THEOREM APITypeCorrect == APISpec => []APITypeOK
<1>1. ClientsOK /\ VerdictsOK => APITypeOK
  BY DEF ClientsOK, ClientOK, HandlerOK, VerdictsOK, APITypeOK
<1> QED
  BY <1>1, ClientsAlwaysOK, AlwaysVerdictsOK, PTL

=============================================================================
