--------------------------- MODULE SessionsProofs ---------------------------
(***************************************************************************)
(* Single use and browser binding of login flows, and the end of replaced  *)
(* sessions, for any browsers, requests and histories.                     *)
(***************************************************************************)
EXTENDS Sessions, SequenceTheorems, TLAPS

FlowRow == [browser : Browsers, left : 0..FlowLife]
SessionRow == [user : Users, left : 0..SessionLife, of : FlowIds,
               previous : Tokens \cup {None}]

(* A flow that a session came of, or a request is to make one of, has no   *)
(* row any more, and no other session or request has it.                   *)
FlowsSpent ==
  /\ \A t \in Tokens : session[t].of \notin open
  /\ \A r \in Requests : req[r].at = "create" =>
       /\ req[r].state \notin open
       /\ \A t \in Tokens : session[t].of # req[r].state
       /\ \A u \in Requests \ {r} : req[u].at = "create" => req[u].state # req[r].state

(* Cookies and requests stay with the browser that began the login.        *)
Bound(q) ==
  /\ q.at \in {"redirect", "create"} => flow[q.state].browser = q.browser
  /\ q.at = "consume" => flow[q.cookie].browser = q.browser
  /\ q.at = "arrive" => flow[session[q.token].of].browser = q.browser

StayingPut ==
  /\ \A r \in Requests : Bound(req[r])
  /\ \A b \in Browsers : flowCookie[b] # None => flow[flowCookie[b]].browser = b

IInv == /\ TypeOK /\ OneSessionPerFlow /\ RightBrowser /\ EndedIsDead
        /\ FlowsSpent /\ StayingPut

-----------------------------------------------------------------------------
LEMMA Sizes == TypeOK => /\ Len(flow) \in Nat /\ Len(session) \in Nat
                         /\ None \notin FlowIds /\ None \notin Tokens
                         /\ DOMAIN flow = FlowIds /\ DOMAIN session = Tokens
                         /\ \A f \in FlowIds : flow[f] \in FlowRow
                         /\ \A t \in Tokens : session[t] \in SessionRow
<1> SUFFICES ASSUME TypeOK
             PROVE  /\ Len(flow) \in Nat /\ Len(session) \in Nat
                    /\ None \notin FlowIds /\ None \notin Tokens
                    /\ DOMAIN flow = FlowIds /\ DOMAIN session = Tokens
                    /\ \A f \in FlowIds : flow[f] \in FlowRow
                    /\ \A t \in Tokens : session[t] \in SessionRow
  OBVIOUS
<1>1. flow \in Seq(FlowRow) /\ session \in Seq(SessionRow)
  BY DEF TypeOK, FlowRow, SessionRow
<1>2. Len(flow) \in Nat /\ DOMAIN flow = FlowIds /\ \A f \in FlowIds : flow[f] \in FlowRow
  BY <1>1, LenProperties, ElementOfSeq DEF FlowIds
<1>3. Len(session) \in Nat /\ DOMAIN session = Tokens
      /\ \A t \in Tokens : session[t] \in SessionRow
  BY <1>1, LenProperties, ElementOfSeq DEF Tokens
<1> QED BY <1>2, <1>3 DEF FlowIds, Tokens, None

(* What a request may look like depends on the histories only, which grow. *)
LEMMA ShapesGrow ==
  ASSUME FlowIds \subseteq FlowIds', Tokens \subseteq Tokens'
  PROVE  RequestShapes \subseteq RequestShapes'
BY DEF RequestShapes, Idle

(* The fields of a request, by where it is.                                *)
LEMMA Shapes ==
  ASSUME TypeOK, NEW r \in Requests
  PROVE  /\ req[r].at # "idle" => req[r].browser \in Browsers
         /\ req[r].at \in {"redirect", "consume", "create"} => req[r].state \in FlowIds
         /\ req[r].at = "consume" => req[r].cookie \in FlowIds
         /\ req[r].at \in {"consume", "create", "delete", "forget"} =>
              req[r].previous \in Tokens \cup {None}
         /\ req[r].at = "arrive" => req[r].token \in Tokens
         /\ req[r].at \in {"idle", "redirect", "consume", "create", "arrive",
                           "delete", "forget"}
<1>1. req[r] \in RequestShapes
  BY DEF TypeOK
<1> QED BY <1>1 DEF RequestShapes, Idle

(* The rest of a step that only puts one request elsewhere.                *)
LEMMA Others ==
  ASSUME TypeOK, NEW r \in Requests, NEW q, Becomes(r, q)
  PROVE  /\ req'[r] = q /\ \A u \in Requests \ {r} : req'[u] = req[u]
         /\ q \in RequestShapes' /\ FlowIds \subseteq FlowIds' /\ Tokens \subseteq Tokens'
              => req' \in [Requests -> RequestShapes']
<1>1. req \in [Requests -> RequestShapes]
  BY DEF TypeOK
<1>2. FlowIds \subseteq FlowIds' /\ Tokens \subseteq Tokens'
        => RequestShapes \subseteq RequestShapes'
  BY ShapesGrow
<1> QED BY <1>1, <1>2 DEF Becomes

(* Steps that neither begin a flow nor create a session nor take time.     *)
LEMMA SameHistories ==
  ASSUME TypeOK, UNCHANGED <<flow, session>>
  PROVE  /\ FlowIds' = FlowIds /\ Tokens' = Tokens
         /\ flow' \in Seq([browser : Browsers, left : 0..FlowLife])
         /\ session' \in Seq([user : Users, left : 0..SessionLife, of : FlowIds',
                              previous : Tokens' \cup {None}])
BY DEF TypeOK, FlowIds, Tokens

-----------------------------------------------------------------------------
LEMMA InitInv == Init => IInv
<1> SUFFICES ASSUME Init PROVE IInv
  OBVIOUS
<1>1. flow = <<>> /\ session = <<>> /\ Len(flow) = 0 /\ Len(session) = 0
  BY DEF Init
<1>2. TypeOK
  BY <1>1 DEF Init, TypeOK, RequestShapes, FlowIds, Tokens
<1>3. \A r \in Requests : req[r].at = "idle"
  BY DEF Init, Idle
<1>4. Tokens = {}
  BY <1>1 DEF Tokens
<1> QED BY <1>2, <1>3, <1>4 DEF Init, IInv, OneSessionPerFlow, RightBrowser, EndedIsDead,
                             FlowsSpent, StayingPut, Bound

(* A flow drawn is new; the old ones are as they were.                     *)
LEMMA LoginInv ==
  ASSUME IInv, NEW r \in Requests, NEW b \in Browsers, Login(r, b) PROVE IInv'
<1> USE DEF IInv
<1> DEFINE new == Len(flow) + 1
           q == [at |-> "redirect", browser |-> b, state |-> new]
<1>1. Len(flow) \in Nat /\ FlowIds = 1..Len(flow) /\ flow \in Seq(FlowRow)
  BY Sizes DEF FlowIds, TypeOK, FlowRow
<1>2. /\ flow' = Append(flow, [browser |-> b, left |-> FlowLife])
      /\ [browser |-> b, left |-> FlowLife] \in FlowRow
  BY LivesAssumption DEF Login, FlowRow
<1>3. /\ flow' \in Seq(FlowRow) /\ Len(flow') = new
      /\ \A f \in FlowIds : flow'[f] = flow[f]
      /\ flow'[new].browser = b
  BY <1>1, <1>2
<1>4. FlowIds' = FlowIds \cup {new} /\ new \notin FlowIds
  BY <1>1, <1>3 DEF FlowIds
<1>5. /\ Tokens' = Tokens
      /\ UNCHANGED <<away, session, live, flowCookie, sessionCookie>>
      /\ open' = open \cup {new} /\ Becomes(r, q) /\ req[r].at = "idle"
  BY DEF Login, Tokens, cookies
<1> HIDE DEF new
<1>6. /\ req'[r] = q /\ \A u \in Requests \ {r} : req'[u] = req[u]
  BY <1>5, Others
<1>7. req' \in [Requests -> RequestShapes']
  <2>1. q \in RequestShapes'
    BY <1>4 DEF RequestShapes
  <2> QED BY <2>1, <1>4, <1>5, Others
<1>8. TypeOK'
  <2>1. session \in Seq(SessionRow)
    BY DEF TypeOK, SessionRow
  <2>2. SessionRow \subseteq SessionRow'
    BY <1>4, <1>5 DEF SessionRow
  <2>3. session' \in Seq(SessionRow')
    BY <2>1, <2>2, <1>5, SeqMonotonic
  <2>4. /\ open' \subseteq FlowIds' /\ away' \subseteq FlowIds' /\ live' \subseteq Tokens'
        /\ flowCookie' \in [Browsers -> FlowIds' \cup {None}]
        /\ sessionCookie' \in [Browsers -> Tokens' \cup {None}]
    BY <1>4, <1>5 DEF TypeOK
  <2> QED BY <1>3, <1>7, <2>3, <2>4 DEF TypeOK, FlowRow, SessionRow
<1>9. \A t \in Tokens : session[t].of \in FlowIds
  BY Sizes DEF SessionRow
<1>10. OneSessionPerFlow' /\ EndedIsDead'
  BY <1>5, <1>6 DEF OneSessionPerFlow, EndedIsDead
<1>11. RightBrowser'
  BY <1>3, <1>5, <1>9 DEF RightBrowser, TypeOK
<1>12. FlowsSpent'
  <2>1. \A u \in Requests : req[u].at = "create" => req[u].state \in FlowIds
    BY Shapes
  <2> QED BY <1>4, <1>5, <1>6, <1>9, <2>1 DEF FlowsSpent
<1>13. StayingPut'
  <2>1. \A u \in Requests \ {r} : Bound(req[u])'
    BY <1>3, <1>5, <1>6, <1>9, Shapes DEF StayingPut, Bound
  <2>2. Bound(req[r])'
    BY <1>3, <1>6 DEF Bound
  <2> QED BY <1>3, <1>5, <2>1, <2>2 DEF StayingPut, TypeOK
<1> QED BY <1>8, <1>10, <1>11, <1>12, <1>13

(* A new session has a token of its own and spends the request's flow.     *)
LEMMA CreateInv ==
  ASSUME IInv, NEW r \in Requests, NEW u \in Users, Create(r, u) PROVE IInv'
<1> USE DEF IInv
<1> DEFINE new == Len(session) + 1
           q == Arriving(req[r], new)
           s == NewSession(req[r], u)
<1>1. Len(session) \in Nat /\ Tokens = 1..Len(session) /\ session \in Seq(SessionRow)
  BY Sizes DEF Tokens, TypeOK, SessionRow
<1>2. /\ req[r].at = "create" /\ req[r].browser \in Browsers /\ req[r].state \in FlowIds
      /\ req[r].previous \in Tokens \cup {None}
  BY Shapes DEF Create
<1>3. session' = Append(session, s) /\ s \in SessionRow
  BY <1>2, LivesAssumption DEF Create, NewSession, SessionRow
<1>4. /\ session' \in Seq(SessionRow) /\ Len(session') = new
      /\ \A t \in Tokens : session'[t] = session[t]
      /\ session'[new] = s
  BY <1>1, <1>3
<1>5. Tokens' = Tokens \cup {new} /\ new \notin Tokens /\ new # None
  BY <1>1, <1>4 DEF Tokens, None
<1>6. /\ FlowIds' = FlowIds
      /\ UNCHANGED <<flow, open, away, flowCookie, sessionCookie>>
      /\ live' = (live \ {req[r].previous}) \cup {new} /\ Becomes(r, q)
  BY DEF Create, FlowIds, cookies
<1>7. s.of = req[r].state /\ s.previous = req[r].previous
  BY DEF NewSession
<1> HIDE DEF new, s
<1>8. q = [at |-> "arrive", browser |-> req[r].browser, token |-> new]
  BY DEF Arriving
<1>9. /\ req'[r] = q /\ \A v \in Requests \ {r} : req'[v] = req[v]
  BY <1>6, Others
<1>10. req' \in [Requests -> RequestShapes']
  <2>1. q \in RequestShapes'
    BY <1>2, <1>5, <1>8 DEF RequestShapes
  <2> QED BY <2>1, <1>5, <1>6, Others
<1>11. TypeOK'
  <2>1. SessionRow \subseteq SessionRow'
    BY <1>5, <1>6 DEF SessionRow
  <2>2. session' \in Seq(SessionRow')
    BY <2>1, <1>4, SeqMonotonic
  <2>3. /\ open' \subseteq FlowIds' /\ away' \subseteq FlowIds' /\ live' \subseteq Tokens'
        /\ flowCookie' \in [Browsers -> FlowIds' \cup {None}]
        /\ sessionCookie' \in [Browsers -> Tokens' \cup {None}]
        /\ flow' \in Seq([browser : Browsers, left : 0..FlowLife])
    BY <1>5, <1>6 DEF TypeOK
  <2> QED BY <1>10, <2>2, <2>3 DEF TypeOK, SessionRow
<1>12. OneSessionPerFlow'
  BY <1>2, <1>4, <1>5, <1>7 DEF OneSessionPerFlow, FlowsSpent
<1>13. \A t \in Tokens : session[t] \in SessionRow
  BY Sizes
<1>14. EndedIsDead'
  <2>1. \A t \in live' : session'[t].previous \notin live'
    <3>1. live \subseteq Tokens
      BY DEF TypeOK
    <3>2. \A t \in live : session[t].previous # new
      BY <1>5, <1>13, <3>1 DEF SessionRow
    <3> QED BY <1>2, <1>4, <1>5, <1>6, <1>7, <3>1, <3>2 DEF EndedIsDead
  <2>2. \A v \in Requests \ {r} : req[v].at = "forget" => req[v].previous # new
    BY <1>5, Shapes
  <2> QED BY <1>6, <1>8, <1>9, <2>1, <2>2 DEF EndedIsDead
<1>15. RightBrowser'
  BY <1>4, <1>6 DEF RightBrowser, TypeOK
<1>16. FlowsSpent'
  <2>1. \A t \in Tokens' : session'[t].of \notin open'
    BY <1>2, <1>4, <1>5, <1>6, <1>7 DEF FlowsSpent
  <2>2. req'[r].at # "create"
    BY <1>8, <1>9
  <2>3. ASSUME NEW v \in Requests, req'[v].at = "create"
        PROVE  /\ req'[v].state \notin open'
               /\ \A t \in Tokens' : session'[t].of # req'[v].state
               /\ \A w \in Requests \ {v} : req'[w].at = "create" =>
                    req'[w].state # req'[v].state
    <3>1. v # r /\ req'[v] = req[v]
      BY <2>2, <2>3, <1>9
    <3> QED BY <1>2, <1>4, <1>5, <1>6, <1>7, <1>9, <2>2, <2>3, <3>1 DEF FlowsSpent
  <2> QED BY <2>1, <2>3 DEF FlowsSpent
<1>17. StayingPut'
  <2>1. flow[req[r].state].browser = req[r].browser
    BY <1>2 DEF StayingPut, Bound
  <2>2. Bound(req[r])'
    BY <1>4, <1>6, <1>7, <1>8, <1>9, <2>1 DEF Bound
  <2>3. \A v \in Requests \ {r} : Bound(req[v])'
    BY <1>4, <1>6, <1>9, Shapes DEF StayingPut, Bound
  <2> QED BY <1>6, <2>2, <2>3 DEF StayingPut
<1> QED BY <1>11, <1>12, <1>14, <1>15, <1>16, <1>17

(* Time changes nothing but the time left.                                 *)
LEMMA TickInv == ASSUME IInv, Tick PROVE IInv'
<1> USE DEF IInv
<1>1. /\ Len(flow) \in Nat /\ DOMAIN flow = 1..Len(flow)
      /\ Len(session) \in Nat /\ DOMAIN session = 1..Len(session)
  BY Sizes DEF FlowIds, Tokens
<1>2. /\ flow' = [f \in 1..Len(flow) |-> Older(flow[f])]
      /\ session' = [t \in 1..Len(session) |-> Older(session[t])]
      /\ UNCHANGED <<open, away, live, flowCookie, sessionCookie, req>>
  BY <1>1 DEF Tick, cookies
<1>3. \A f \in FlowIds : Older(flow[f]) \in FlowRow /\ Older(flow[f]).browser = flow[f].browser
  <2> SUFFICES ASSUME NEW f \in FlowIds
               PROVE  Older(flow[f]) \in FlowRow /\ Older(flow[f]).browser = flow[f].browser
    OBVIOUS
  <2>1. flow[f] \in FlowRow
    BY Sizes
  <2> QED BY <2>1, LivesAssumption DEF Older, FlowRow
<1>4. \A t \in Tokens : /\ Older(session[t]) \in SessionRow
                        /\ Older(session[t]).of = session[t].of
                        /\ Older(session[t]).previous = session[t].previous
  <2> SUFFICES ASSUME NEW t \in Tokens
               PROVE  /\ Older(session[t]) \in SessionRow
                      /\ Older(session[t]).of = session[t].of
                      /\ Older(session[t]).previous = session[t].previous
    OBVIOUS
  <2>1. session[t] \in SessionRow
    BY Sizes
  <2> QED BY <2>1, LivesAssumption DEF Older, SessionRow
<1>5. /\ flow' \in Seq(FlowRow) /\ Len(flow') = Len(flow)
      /\ session' \in Seq(SessionRow) /\ Len(session') = Len(session)
  <2>1. flow' \in [1..Len(flow) -> FlowRow]
    BY <1>2, <1>3 DEF FlowIds
  <2>2. session' \in [1..Len(session) -> SessionRow]
    BY <1>2, <1>4 DEF Tokens
  <2>3. flow' \in Seq(FlowRow) /\ session' \in Seq(SessionRow)
    BY <1>1, <2>1, <2>2, SeqDef
  <2>4. DOMAIN flow' = 1..Len(flow) /\ DOMAIN session' = 1..Len(session)
    BY <2>1, <2>2
  <2> QED BY <1>1, <2>3, <2>4, LenProperties
<1>6. FlowIds' = FlowIds /\ Tokens' = Tokens
  BY <1>5 DEF FlowIds, Tokens
<1>7. /\ \A f \in FlowIds : flow'[f].browser = flow[f].browser
      /\ \A t \in Tokens : /\ session'[t].of = session[t].of
                           /\ session'[t].previous = session[t].previous
  BY <1>2, <1>3, <1>4 DEF FlowIds, Tokens
<1>8. TypeOK'
  <2>1. SessionRow' = SessionRow /\ RequestShapes' = RequestShapes
    BY <1>6 DEF SessionRow, RequestShapes
  <2> QED BY <1>2, <1>5, <1>6, <2>1 DEF TypeOK, FlowRow, SessionRow
<1>9. \A t \in Tokens : session[t].of \in FlowIds
  BY Sizes DEF SessionRow
<1>10. \A t \in Tokens : flow'[session'[t].of].browser = flow[session[t].of].browser
  BY <1>7, <1>9
<1>11. OneSessionPerFlow'
  BY <1>6, <1>7 DEF OneSessionPerFlow
<1>12. EndedIsDead'
  <2>1. live \subseteq Tokens
    BY DEF TypeOK
  <2> QED BY <1>2, <1>7, <2>1 DEF EndedIsDead
<1>13. FlowsSpent'
  <2>1. \A t \in Tokens : session'[t].of \notin open
    BY <1>7 DEF FlowsSpent
  <2>2. ASSUME NEW r \in Requests, req[r].at = "create"
        PROVE  /\ req[r].state \notin open
               /\ \A t \in Tokens : session'[t].of # req[r].state
               /\ \A u \in Requests \ {r} : req[u].at = "create" =>
                    req[u].state # req[r].state
    <3>1. /\ req[r].state \notin open
          /\ \A t \in Tokens : session[t].of # req[r].state
          /\ \A u \in Requests \ {r} : req[u].at = "create" =>
                req[u].state # req[r].state
      BY <2>2 DEF FlowsSpent
    <3>2. \A t \in Tokens : session'[t].of # req[r].state
      BY <3>1, <1>7
    <3> QED BY <3>1, <3>2
  <2> QED BY <1>2, <1>6, <2>1, <2>2 DEF FlowsSpent
<1>14. RightBrowser'
  <2> SUFFICES ASSUME NEW b \in Browsers, sessionCookie[b] # None
               PROVE  flow'[session'[sessionCookie[b]].of].browser = b
    BY <1>2 DEF RightBrowser
  <2>1. sessionCookie[b] \in Tokens
    BY DEF TypeOK
  <2>2. flow[session[sessionCookie[b]].of].browser = b
    BY DEF RightBrowser
  <2> QED BY <1>10, <2>1, <2>2
<1>15. StayingPut'
  <2>1. ASSUME NEW r \in Requests PROVE Bound(req[r])'
    <3>1. Bound(req[r])
      BY DEF StayingPut
    <3>2. CASE req[r].at \in {"redirect", "create"}
      <4>1. req[r].state \in FlowIds
        BY <3>2, Shapes
      <4> QED BY <1>2, <1>7, <3>1, <3>2, <4>1 DEF Bound
    <3>3. CASE req[r].at = "consume"
      <4>1. req[r].cookie \in FlowIds
        BY <3>3, Shapes
      <4> QED BY <1>2, <1>7, <3>1, <3>3, <4>1 DEF Bound
    <3>4. CASE req[r].at = "arrive"
      <4>1. req[r].token \in Tokens
        BY <3>4, Shapes
      <4> QED BY <1>2, <1>10, <3>1, <3>4, <4>1 DEF Bound
    <3>5. CASE req[r].at \notin {"redirect", "create", "consume", "arrive"}
      BY <1>2, <3>5 DEF Bound
    <3> QED BY <3>2, <3>3, <3>4, <3>5
  <2>2. ASSUME NEW b \in Browsers, flowCookie[b] # None
        PROVE  flow'[flowCookie[b]].browser = b
    <3>1. flowCookie[b] \in FlowIds /\ flow[flowCookie[b]].browser = b
      BY <2>2 DEF TypeOK, StayingPut
    <3> QED BY <1>7, <3>1
  <2> QED BY <1>2, <2>1, <2>2 DEF StayingPut
<1> QED BY <1>8, <1>11, <1>12, <1>13, <1>14, <1>15

(* Everything else: rows disappear, cookies and requests are taken over.   *)
LEMMA TakeOver ==
  ASSUME IInv, UNCHANGED <<flow, session>>,
         open' \subseteq open, away' \subseteq FlowIds, live' \subseteq live,
         req' \in [Requests -> RequestShapes],
         flowCookie' \in [Browsers -> FlowIds \cup {None}],
         sessionCookie' \in [Browsers -> Tokens \cup {None}],
         \A r \in Requests : req'[r].at = "create" =>
           \/ req'[r] = req[r]
           \/ /\ req'[r].state \in open \ open'
              /\ \A u \in Requests \ {r} : req'[u] = req[u],
         \A r \in Requests : req'[r].at = "forget" => req'[r].previous \notin live',
         StayingPut', RightBrowser'
  PROVE  IInv'
<1> USE DEF IInv
<1>1. FlowIds' = FlowIds /\ Tokens' = Tokens /\ flow' = flow /\ session' = session
  BY DEF FlowIds, Tokens
<1>2. TypeOK'
  <2>1. RequestShapes' = RequestShapes
    BY <1>1 DEF RequestShapes
  <2> QED BY <1>1, <2>1 DEF TypeOK
<1>3. OneSessionPerFlow' /\ EndedIsDead'
  BY <1>1 DEF OneSessionPerFlow, EndedIsDead
<1>4. FlowsSpent'
  <2>1. \A t \in Tokens : session[t].of \notin open
    BY DEF FlowsSpent
  <2>2. ASSUME NEW r \in Requests, req'[r].at = "create"
        PROVE  /\ req'[r].state \notin open'
               /\ \A t \in Tokens : session[t].of # req'[r].state
               /\ \A u \in Requests \ {r} : req'[u].at = "create" =>
                    req'[u].state # req'[r].state
    <3>1. CASE req'[r] # req[r]
      BY <2>1, <2>2, <3>1 DEF FlowsSpent
    <3>2. CASE req'[r] = req[r]
      BY <2>1, <2>2, <3>2 DEF FlowsSpent
    <3> QED BY <3>1, <3>2
  <2> QED BY <1>1, <2>1, <2>2 DEF FlowsSpent
<1> QED BY <1>2, <1>3, <1>4

(* A request gives way to one that is bound to its browser, too.           *)
LEMMA BoundStep ==
  ASSUME IInv, UNCHANGED <<flow, session>>, NEW r \in Requests, NEW q, Becomes(r, q), Bound(q)
  PROVE  \A u \in Requests : Bound(req[u])'
<1>1. req'[r] = q /\ \A u \in Requests \ {r} : req'[u] = req[u]
  BY Others DEF IInv
<1> QED BY <1>1 DEF IInv, StayingPut, Bound

LEMMA HandleInv ==
  ASSUME IInv, NEW r \in Requests,
         \/ Redirect(r) \/ Consume(r) \/ Arrive(r) \/ Delete(r) \/ Forget(r) \/ Fail(r)
         \/ \E b \in Browsers : Logout(r, b) \/ \E f \in away : Callback(r, b, f)
  PROVE  IInv'
<1> USE DEF IInv, rows, cookies
<1>1. Idle \in RequestShapes /\ Bound(Idle) /\ Idle.at = "idle"
  BY DEF RequestShapes, Bound, Idle
<1>2. UNCHANGED <<flow, session>>
  BY DEF Redirect, Consume, Arrive, Delete, Forget, Fail, Logout, Callback
<1>3. FlowIds' = FlowIds /\ Tokens' = Tokens
  BY <1>2 DEF FlowIds, Tokens
<1>4. RequestShapes' = RequestShapes
  BY <1>3 DEF RequestShapes
<1>5. ASSUME NEW q \in RequestShapes, Becomes(r, q)
      PROVE  /\ req' \in [Requests -> RequestShapes]
             /\ req'[r] = q /\ \A u \in Requests \ {r} : req'[u] = req[u]
  BY <1>3, <1>4, <1>5, Others
<1>6. CASE Fail(r)
  <2>1. Becomes(r, Idle) /\ UNCHANGED <<open, away, live, flowCookie, sessionCookie>>
    BY <1>6 DEF Fail
  <2>2. StayingPut'
    BY <1>1, <1>2, <2>1, BoundStep DEF StayingPut
  <2>3. RightBrowser'
    BY <1>2, <2>1 DEF RightBrowser
  <2> QED BY <1>1, <1>2, <1>5, <2>1, <2>2, <2>3, TakeOver DEF TypeOK, EndedIsDead
<1>7. CASE Redirect(r)
  <2>1. /\ Becomes(r, Idle) /\ UNCHANGED <<open, live, sessionCookie>>
        /\ away' = away \cup {req[r].state}
        /\ flowCookie' = [flowCookie EXCEPT ![req[r].browser] = req[r].state]
        /\ req[r].state \in FlowIds /\ req[r].browser \in Browsers
        /\ flow[req[r].state].browser = req[r].browser
    BY <1>7, Shapes DEF Redirect, StayingPut, Bound
  <2>2. StayingPut'
    BY <1>1, <1>2, <2>1, BoundStep DEF StayingPut, TypeOK
  <2>3. RightBrowser'
    BY <1>2, <2>1 DEF RightBrowser
  <2> QED BY <1>1, <1>2, <1>5, <2>1, <2>2, <2>3, TakeOver DEF TypeOK, EndedIsDead
<1>8. CASE Arrive(r)
  <2>1. /\ Becomes(r, Idle) /\ UNCHANGED <<open, away, live>>
        /\ flowCookie' = [flowCookie EXCEPT ![req[r].browser] = None]
        /\ sessionCookie' = [sessionCookie EXCEPT ![req[r].browser] = req[r].token]
        /\ req[r].token \in Tokens /\ req[r].browser \in Browsers
        /\ flow[session[req[r].token].of].browser = req[r].browser
    BY <1>8, Shapes DEF Arrive, StayingPut, Bound
  <2>2. StayingPut'
    BY <1>1, <1>2, <2>1, BoundStep DEF StayingPut, TypeOK
  <2>3. RightBrowser'
    BY <1>2, <2>1 DEF RightBrowser, TypeOK
  <2> QED BY <1>1, <1>2, <1>5, <2>1, <2>2, <2>3, TakeOver DEF TypeOK, EndedIsDead
<1>9. CASE Forget(r)
  <2>1. /\ Becomes(r, Idle) /\ UNCHANGED <<open, away, live, flowCookie>>
        /\ \/ sessionCookie' = sessionCookie
           \/ sessionCookie' = [sessionCookie EXCEPT ![req[r].browser] = None]
        /\ req[r].browser \in Browsers
    BY <1>9, Shapes DEF Forget
  <2>2. StayingPut'
    BY <1>1, <1>2, <2>1, BoundStep DEF StayingPut
  <2>3. RightBrowser'
    BY <1>2, <2>1 DEF RightBrowser, TypeOK
  <2> QED BY <1>1, <1>2, <1>5, <2>1, <2>2, <2>3, TakeOver DEF TypeOK, EndedIsDead
<1>10. CASE Consume(r)
  <2>1. /\ UNCHANGED <<away, live, flowCookie, sessionCookie>> /\ req[r].at = "consume"
        /\ req[r].browser \in Browsers /\ req[r].state \in FlowIds
        /\ req[r].cookie \in FlowIds /\ req[r].previous \in Tokens \cup {None}
        /\ flow[req[r].cookie].browser = req[r].browser
    BY <1>10, Shapes DEF Consume, StayingPut, Bound
  <2>2. RightBrowser'
    BY <1>2, <2>1 DEF RightBrowser
  <2>3. CASE Consumable(req[r])
    <3> DEFINE q == Exchanging(req[r])
    <3>1. Becomes(r, q) /\ open' = open \ {req[r].state}
      BY <1>10, <2>3 DEF Consume
    <3>2. req[r].state \in open /\ req[r].cookie = req[r].state
      BY <2>3 DEF Consumable
    <3>3. q \in RequestShapes
      BY <2>1 DEF Exchanging, RequestShapes
    <3>4. q.at = "create" /\ q.state = req[r].state /\ q.browser = req[r].browser
      BY DEF Exchanging
    <3> HIDE DEF q
    <3>5. Bound(q)
      BY <2>1, <3>2, <3>4 DEF Bound
    <3>6. StayingPut'
      BY <1>2, <2>1, <3>1, <3>5, BoundStep DEF StayingPut
    <3>7. /\ req' \in [Requests -> RequestShapes]
          /\ req'[r] = q /\ \A u \in Requests \ {r} : req'[u] = req[u]
      BY <3>1, <3>3, <1>5
    <3> QED BY <1>2, <2>1, <2>2, <3>1, <3>2, <3>4, <3>6, <3>7, TakeOver
            DEF TypeOK, EndedIsDead
  <2>4. CASE ~Consumable(req[r])
    <3>1. Becomes(r, Idle) /\ open' = open
      BY <1>10, <2>4 DEF Consume
    <3>2. StayingPut'
      BY <1>1, <1>2, <2>1, <3>1, BoundStep DEF StayingPut
    <3> QED BY <1>1, <1>2, <1>5, <2>1, <2>2, <3>1, <3>2, TakeOver DEF TypeOK, EndedIsDead
  <2> QED BY <2>3, <2>4
<1>11. CASE Delete(r)
  <2> DEFINE q == [at |-> "forget", browser |-> req[r].browser, previous |-> req[r].previous]
  <2>1. /\ Becomes(r, q) /\ UNCHANGED <<open, away, flowCookie, sessionCookie>>
        /\ live' = live \ {req[r].previous}
        /\ req[r].browser \in Browsers /\ req[r].previous \in Tokens \cup {None}
    BY <1>11, Shapes DEF Delete
  <2>2. q \in RequestShapes /\ Bound(q)
    BY <2>1 DEF RequestShapes, Bound
  <2>3. q.at = "forget" /\ q.previous = req[r].previous
    OBVIOUS
  <2> HIDE DEF q
  <2>4. StayingPut'
    BY <1>2, <2>1, <2>2, BoundStep DEF StayingPut
  <2>5. RightBrowser'
    BY <1>2, <2>1 DEF RightBrowser
  <2> QED BY <1>2, <1>5, <2>1, <2>2, <2>3, <2>4, <2>5, TakeOver DEF TypeOK, EndedIsDead
<1>12. ASSUME NEW b \in Browsers, Logout(r, b) PROVE IInv'
  <2> DEFINE q == [at |-> "delete", browser |-> b, previous |-> sessionCookie[b]]
  <2>1. /\ Becomes(r, q) /\ UNCHANGED <<open, away, live, flowCookie, sessionCookie>>
    BY <1>12 DEF Logout
  <2>2. q \in RequestShapes /\ Bound(q) /\ q.at = "delete"
    BY DEF RequestShapes, Bound, TypeOK
  <2> HIDE DEF q
  <2>3. StayingPut'
    BY <1>2, <2>1, <2>2, BoundStep DEF StayingPut
  <2>4. RightBrowser'
    BY <1>2, <2>1 DEF RightBrowser
  <2> QED BY <1>2, <1>5, <2>1, <2>2, <2>3, <2>4, TakeOver DEF TypeOK, EndedIsDead
<1>13. ASSUME NEW b \in Browsers, NEW f \in away, Callback(r, b, f) PROVE IInv'
  <2> DEFINE q == [at |-> "consume", browser |-> b, state |-> f,
                   cookie |-> flowCookie[b], previous |-> sessionCookie[b]]
  <2>1. /\ Becomes(r, q) /\ UNCHANGED <<open, away, live, flowCookie, sessionCookie>>
        /\ flowCookie[b] # None
    BY <1>13 DEF Callback
  <2>2. q \in RequestShapes /\ q.at = "consume"
    BY <2>1 DEF RequestShapes, TypeOK
  <2>3. Bound(q)
    BY <2>1 DEF Bound, StayingPut
  <2> HIDE DEF q
  <2>4. StayingPut'
    BY <1>2, <2>1, <2>3, BoundStep DEF StayingPut
  <2>5. RightBrowser'
    BY <1>2, <2>1 DEF RightBrowser
  <2> QED BY <1>2, <1>5, <2>1, <2>2, <2>4, <2>5, TakeOver DEF TypeOK, EndedIsDead
<1> QED BY <1>6, <1>7, <1>8, <1>9, <1>10, <1>11, <1>12, <1>13

LEMMA StepInv == IInv /\ [Next]_vars => IInv'
<1> SUFFICES ASSUME IInv, [Next]_vars PROVE IInv'
  OBVIOUS
<1> USE DEF IInv, cookies, rows
<1>1. ASSUME NEW b \in Browsers, DropCookies(b) PROVE IInv'
  <2>1. StayingPut' /\ RightBrowser'
    BY <1>1 DEF DropCookies, StayingPut, Bound, RightBrowser, TypeOK
  <2> QED BY <1>1, <2>1, TakeOver DEF DropCookies, TypeOK, EndedIsDead
<1>2. CASE CleanFlows
  <2>1. StayingPut' /\ RightBrowser'
    BY <1>2 DEF CleanFlows, StayingPut, Bound, RightBrowser
  <2> QED BY <1>2, <2>1, TakeOver DEF CleanFlows, TypeOK, EndedIsDead
<1>3. CASE CleanSessions
  <2>1. StayingPut' /\ RightBrowser'
    BY <1>3 DEF CleanSessions, StayingPut, Bound, RightBrowser
  <2> QED BY <1>3, <2>1, TakeOver DEF CleanSessions, TypeOK, EndedIsDead
<1>4. CASE UNCHANGED vars
  <2>1. StayingPut' /\ RightBrowser'
    BY <1>4 DEF vars, StayingPut, Bound, RightBrowser
  <2> QED BY <1>4, <2>1, TakeOver DEF vars, TypeOK, EndedIsDead
<1> QED BY <1>1, <1>2, <1>3, <1>4, TickInv, LoginInv, CreateInv, HandleInv DEF Next, Handle

LEMMA Invariance == Spec => []IInv
BY InitInv, StepInv, PTL DEF Spec

-----------------------------------------------------------------------------
(* Rows, cookies and requests always name flows and sessions that exist.   *)
THEOREM TypeCorrect == Spec => []TypeOK
<1>1. IInv => TypeOK
  BY DEF IInv
<1> QED BY Invariance, <1>1, PTL

(* A login flow is good for one session.                                   *)
THEOREM SingleUse == Spec => []OneSessionPerFlow
<1>1. IInv => OneSessionPerFlow
  BY DEF IInv
<1> QED BY Invariance, <1>1, PTL

(* A browser's session comes of a login that this browser began.           *)
THEOREM BoundToBrowser == Spec => []RightBrowser
<1>1. IInv => RightBrowser
  BY DEF IInv
<1> QED BY Invariance, <1>1, PTL

(* Sessions that were replaced or ended are not accepted.                  *)
THEOREM EndedForGood == Spec => []EndedIsDead
<1>1. IInv => EndedIsDead
  BY DEF IInv
<1> QED BY Invariance, <1>1, PTL
=============================================================================
