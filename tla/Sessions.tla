------------------------------ MODULE Sessions ------------------------------
(***************************************************************************)
(* Logins and sessions (auth/handlers.rs, auth/repository.rs, the cleanup  *)
(* task of main.rs) between browsers, the API and Google.  A login flow is *)
(* a row that binds the state sent to Google to a cookie of the browser; a *)
(* session is a row that the session cookie names.  Cookies are read when  *)
(* a request is sent and written when its answer arrives, statements run   *)
(* in between, so requests of one browser overtake each other.             *)
(*                                                                         *)
(* Random tokens are fresh numbers, places in a history of rows; state and *)
(* browser token of a flow are drawn together and are one.                 *)
(***************************************************************************)
EXTENDS Naturals, Sequences

CONSTANTS Browsers, Users,
          Requests,     \* that may be in progress at once
          MaxFlows,     \* bound: logins begun
          MaxSessions,  \* bound: sessions created
          FlowLife,     \* 10 minutes
          SessionLife   \* 7 days

ASSUME LivesAssumption ==
  /\ MaxFlows \in Nat /\ MaxSessions \in Nat
  /\ FlowLife \in Nat \ {0} /\ SessionLife \in Nat \ {0}

None == 0  \* no cookie, no token

VARIABLES
  flow,      \* every login flow drawn: for which browser, and the time it has left
  open,      \* rows of oauth_login_flows
  away,      \* flows whose browser went to Google with them
  session,   \* every session drawn: user, time left, flow, session it replaced
  live,      \* rows of sessions
  flowCookie, sessionCookie,  \* of each browser
  req        \* requests in progress

vars == <<flow, open, away, session, live, flowCookie, sessionCookie, req>>

rows == <<flow, open, session, live>>
cookies == <<flowCookie, sessionCookie>>

Idle == [at |-> "idle"]

Init ==
  /\ flow = <<>> /\ open = {} /\ away = {}
  /\ session = <<>> /\ live = {}
  /\ flowCookie = [b \in Browsers |-> None]
  /\ sessionCookie = [b \in Browsers |-> None]
  /\ req = [r \in Requests |-> Idle]

-----------------------------------------------------------------------------
Becomes(r, q) == req' = [req EXCEPT ![r] = q]

(* google_login: a new flow.                                               *)
Login(r, b) ==
  /\ req[r].at = "idle" /\ Len(flow) < MaxFlows
  /\ flow' = Append(flow, [browser |-> b, left |-> FlowLife])
  /\ open' = open \cup {Len(flow) + 1}
  /\ Becomes(r, [at |-> "redirect", browser |-> b, state |-> Len(flow) + 1])
  /\ UNCHANGED <<away, session, live, cookies>>

(* Its answer: the flow's cookie, and off to Google.                       *)
Redirect(r) ==
  /\ req[r].at = "redirect"
  /\ flowCookie' = [flowCookie EXCEPT ![req[r].browser] = req[r].state]
  /\ away' = away \cup {req[r].state}
  /\ Becomes(r, Idle)
  /\ UNCHANGED <<rows, sessionCookie>>

(* google_callback: Google sends the browser back, and the page may be     *)
(* reloaded or its address opened in another browser.                      *)
Callback(r, b, f) ==
  /\ req[r].at = "idle" /\ f \in away /\ flowCookie[b] # None
  /\ Becomes(r, [at |-> "consume", browser |-> b, state |-> f,
                 cookie |-> flowCookie[b], previous |-> sessionCookie[b]])
  /\ UNCHANGED <<rows, away, cookies>>

(* Mutated form of Consumable: the browser's cookie is not compared.       *)
ConsumableAnywhere(q) == q.state \in open /\ flow[q.state].left > 0

(* The WHERE of consume_login_flow.                                        *)
Consumable(q) == q.state \in open /\ q.cookie = q.state /\ flow[q.state].left > 0

Exchanging(q) == [at |-> "create", browser |-> q.browser, state |-> q.state,
                  previous |-> q.previous]

(* Mutated form of Consume: the row is read, not deleted.                  *)
ConsumeReading(r) ==
  /\ req[r].at = "consume"
  /\ IF Consumable(req[r]) THEN Becomes(r, Exchanging(req[r])) ELSE Becomes(r, Idle)
  /\ UNCHANGED <<rows, away, cookies>>

(* consume_login_flow: DELETE ... RETURNING.                               *)
Consume(r) ==
  /\ req[r].at = "consume"
  /\ IF Consumable(req[r])
     THEN /\ open' = open \ {req[r].state}
          /\ Becomes(r, Exchanging(req[r]))
     ELSE Becomes(r, Idle) /\ UNCHANGED open
  /\ UNCHANGED <<flow, session, live, away, cookies>>

NewSession(q, u) == [user |-> u, left |-> SessionLife, of |-> q.state,
                     previous |-> q.previous]

Arriving(q, t) == [at |-> "arrive", browser |-> q.browser, token |-> t]

(* Mutated form of Create: the previous session goes on living.            *)
CreateBeside(r, u) ==
  /\ req[r].at = "create" /\ Len(session) < MaxSessions
  /\ session' = Append(session, NewSession(req[r], u))
  /\ live' = live \cup {Len(session) + 1}
  /\ Becomes(r, Arriving(req[r], Len(session) + 1))
  /\ UNCHANGED <<flow, open, away, cookies>>

(* Google confirms the user, and create_session runs as a transaction.     *)
Create(r, u) ==
  /\ req[r].at = "create" /\ Len(session) < MaxSessions
  /\ session' = Append(session, NewSession(req[r], u))
  /\ live' = (live \ {req[r].previous}) \cup {Len(session) + 1}
  /\ Becomes(r, Arriving(req[r], Len(session) + 1))
  /\ UNCHANGED <<flow, open, away, cookies>>

(* The answer of google_callback.                                          *)
Arrive(r) ==
  /\ req[r].at = "arrive"
  /\ flowCookie' = [flowCookie EXCEPT ![req[r].browser] = None]
  /\ sessionCookie' = [sessionCookie EXCEPT ![req[r].browser] = req[r].token]
  /\ Becomes(r, Idle)
  /\ UNCHANGED <<rows, away>>

Logout(r, b) ==
  /\ req[r].at = "idle"
  /\ Becomes(r, [at |-> "delete", browser |-> b, previous |-> sessionCookie[b]])
  /\ UNCHANGED <<rows, away, cookies>>

(* delete_session                                                          *)
Delete(r) ==
  /\ req[r].at = "delete"
  /\ live' = live \ {req[r].previous}
  /\ Becomes(r, [at |-> "forget", browser |-> req[r].browser,
                 previous |-> req[r].previous])
  /\ UNCHANGED <<flow, open, session, away, cookies>>

(* The answer of logout, which removes a cookie that came with the request.*)
Forget(r) ==
  /\ req[r].at = "forget"
  /\ sessionCookie' = IF req[r].previous = None THEN sessionCookie
                      ELSE [sessionCookie EXCEPT ![req[r].browser] = None]
  /\ Becomes(r, Idle)
  /\ UNCHANGED <<rows, away, flowCookie>>

(* A statement or the exchange with Google fails, or the answer is lost.   *)
Fail(r) ==
  /\ req[r].at # "idle"
  /\ Becomes(r, Idle)
  /\ UNCHANGED <<rows, away, cookies>>

-----------------------------------------------------------------------------
(* Cookies expire, or are deleted.                                         *)
DropCookies(b) ==
  /\ flowCookie' = [flowCookie EXCEPT ![b] = None]
  /\ sessionCookie' = [sessionCookie EXCEPT ![b] = None]
  /\ UNCHANGED <<rows, away, req>>

Older(row) == [row EXCEPT !.left = IF row.left > 0 THEN row.left - 1 ELSE 0]

Tick ==
  /\ flow' = [f \in DOMAIN flow |-> Older(flow[f])]
  /\ session' = [t \in DOMAIN session |-> Older(session[t])]
  /\ UNCHANGED <<open, away, live, cookies, req>>

(* cleanup_expired, two statements.                                        *)
CleanFlows ==
  /\ open' = {f \in open : flow[f].left > 0}
  /\ UNCHANGED <<flow, away, session, live, cookies, req>>

(* Mutated form of CleanSessions: without the statement.                   *)
CleanSessionsNot == UNCHANGED vars

CleanSessions ==
  /\ live' = {t \in live : session[t].left > 0}
  /\ UNCHANGED <<flow, open, away, session, cookies, req>>

Handle(r) ==
  \/ Redirect(r) \/ Consume(r) \/ Arrive(r) \/ Delete(r) \/ Forget(r) \/ Fail(r)
  \/ \E u \in Users : Create(r, u)

Next ==
  \/ Tick \/ CleanFlows \/ CleanSessions
  \/ \E b \in Browsers : DropCookies(b)
  \/ \E r \in Requests :
       \/ Handle(r)
       \/ \E b \in Browsers : \/ Login(r, b) \/ Logout(r, b)
                              \/ \E f \in away : Callback(r, b, f)

Spec == Init /\ [][Next]_vars

(* Time passes, and the cleanup task runs every 15 minutes.                *)
FairSpec == Spec /\ WF_vars(Tick) /\ WF_vars(CleanFlows) /\ WF_vars(CleanSessions)

-----------------------------------------------------------------------------
FlowIds == 1..Len(flow)
Tokens == 1..Len(session)

RequestShapes ==
  {Idle}
  \cup [at : {"redirect"}, browser : Browsers, state : FlowIds]
  \cup [at : {"consume"}, browser : Browsers, state : FlowIds, cookie : FlowIds,
        previous : Tokens \cup {None}]
  \cup [at : {"create"}, browser : Browsers, state : FlowIds,
        previous : Tokens \cup {None}]
  \cup [at : {"arrive"}, browser : Browsers, token : Tokens]
  \cup [at : {"delete", "forget"}, browser : Browsers,
        previous : Tokens \cup {None}]

(* Rows, cookies and requests name flows and sessions that exist.          *)
TypeOK ==
  /\ flow \in Seq([browser : Browsers, left : 0..FlowLife])
  /\ session \in Seq([user : Users, left : 0..SessionLife, of : FlowIds,
                      previous : Tokens \cup {None}])
  /\ open \subseteq FlowIds /\ away \subseteq FlowIds /\ live \subseteq Tokens
  /\ flowCookie \in [Browsers -> FlowIds \cup {None}]
  /\ sessionCookie \in [Browsers -> Tokens \cup {None}]
  /\ req \in [Requests -> RequestShapes]

(* "Tek kullanimlik state": however often and in however many requests at  *)
(* once Google's answer comes in, one session comes of a flow.             *)
OneSessionPerFlow ==
  \A s, t \in Tokens : session[s].of = session[t].of => s = t

(* "tarayici bagi": the session that a browser's cookie names comes of a   *)
(* login begun in that browser, whichever answers overtook each other.     *)
RightBrowser ==
  \A b \in Browsers : sessionCookie[b] # None =>
    flow[session[sessionCookie[b]].of].browser = b

(* The session that was replaced by a live one, or that a logout confirms  *)
(* it has ended, is not accepted any more.                                 *)
EndedIsDead ==
  /\ \A t \in live : session[t].previous \notin live
  /\ \A r \in Requests : req[r].at = "forget" => req[r].previous \notin live

(* The tables do not grow for ever: flows that were given up and sessions  *)
(* that no cookie names any more are deleted in the end.                   *)
Cleaned ==
  /\ \A f \in 1..MaxFlows : f \in open ~> f \notin open
  /\ \A t \in 1..MaxSessions : t \in live ~> t \notin live
=============================================================================
