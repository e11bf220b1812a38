--------------------------- MODULE WebClientProofs ---------------------------
(***************************************************************************)
(* Proofs about WebClient, for any number of users, tasks and flows, of    *)
(* lost requests and of reopened tasks.                                    *)
(***************************************************************************)
EXTENDS WebClient, TLAPS

-----------------------------------------------------------------------------
(* Types.  What is polled, or will be when a refresh is over, is a task at *)
(* the server, and no two flows are about the same one.                    *)

Follows(g) == g.at \in {"poll", "timer"} \/ (g.then # "end" /\ g.at # "upload")

(* A flow record, when the server's tasks and their owners are st and ow.  *)
FlowOK(g, st, ow) ==
    /\ g \in Flow
    /\ g.at = "none" => g = Idle
    /\ g.at = "upload" =>
          /\ g.task \in Tasks /\ g.then = "startPolling"
          /\ \/ g.answer \in {"none", "error"} /\ st[g.task] = "absent"
             \/ g.answer \notin {"none", "error"} /\ st[g.task] # "absent" /\ ow[g.task] = g.as
    /\ Follows(g) => g.task \in Tasks /\ st[g.task] # "absent"

FlowsOK(flows, st, ow) ==
    /\ flows \in [Flows -> Flow]
    /\ \A f \in Flows : FlowOK(flows[f], st, ow)
    /\ \A f, g \in Flows : flows[f].task = flows[g].task /\ flows[f].task # NoTask => f = g

(* A polling is started once for each task.                                *)
TabOK(s, flows, st) ==
    /\ s \in Tab
    /\ s.polled # NoTask => st[s.polled] # "absent"
    /\ \A f \in Flows : flows[f].then = "startPolling" => flows[f].task # s.polled

ServerOK ==
    /\ status \in [Tasks -> {"absent", "open", "completed", "failed"}]
    /\ paid \in [Tasks -> {0, 1}]
    /\ owner \in [Tasks -> Users \cup {NoUser}]
    /\ \A t \in Tasks : status[t] = "absent" <=> owner[t] = NoUser

TypeInv ==
    /\ TypeOK
    /\ ServerOK
    /\ FlowsOK(flow, status, owner)
    /\ TabOK(tab, flow, status)

LEMMA IdleType == Idle \in Flow /\ Idle.at = "none" /\ Idle.then = "end" /\ Idle.task = NoTask
BY DEF Idle, Flow, Places, Thens, Answers

LEMMA AskType ==
    ASSUME NEW s \in Tab, NEW place \in Places, NEW t \in Tasks \cup {NoTask}, NEW then \in Thens
    PROVE  /\ Ask(s, place, t, then) \in Flow
           /\ Ask(s, place, t, then).at = place /\ Ask(s, place, t, then).task = t
           /\ Ask(s, place, t, then).then = then /\ Ask(s, place, t, then).as = s.token
           /\ Ask(s, place, t, then).answer = "none"
BY DEF Ask, Flow, Tab, Answers

LEMMA InitType == Init => TypeInv
<1> SUFFICES ASSUME Init PROVE TypeInv
  OBVIOUS
<1>1. /\ tab = [Served EXCEPT !.panels = {"guest"}] /\ flow = [f \in Flows |-> Idle]
      /\ status = [t \in Tasks |-> "absent"] /\ paid = [t \in Tasks |-> 0]
      /\ owner = [t \in Tasks |-> NoUser] /\ errors = 0 /\ reopens = 0 /\ overtaken = "nothing"
  BY DEF Init, Service!LifeInit
<1>2. tab \in Tab /\ tab.polled = NoTask
  BY <1>1 DEF Served, Tab, Panels
<1>3. ServerOK
  BY <1>1 DEF ServerOK
<1>4. FlowsOK(flow, status, owner)
  BY <1>1, IdleType DEF FlowsOK, FlowOK, Follows
<1>5. TabOK(tab, flow, status)
  BY <1>1, <1>2, IdleType DEF TabOK
<1>6. TypeOK
  BY <1>1, <1>2, <1>3, <1>4 DEF TypeOK, ServerOK, FlowsOK
<1> QED
  BY <1>3, <1>4, <1>5, <1>6 DEF TypeInv

(* One flow goes on to a record that is as good.                           *)
LEMMA FlowMoves ==
    ASSUME NEW flows, NEW st, NEW ow, FlowsOK(flows, st, ow), NEW f \in Flows, NEW g,
           FlowOK(g, st, ow),
           g.task \in {flows[f].task, NoTask} \/ \A k \in Flows : flows[k].task # g.task
    PROVE  FlowsOK([flows EXCEPT ![f] = g], st, ow)
<1> DEFINE new == [flows EXCEPT ![f] = g]
<1>1. /\ new \in [Flows -> Flow]
      /\ \A k \in Flows : new[k] = IF k = f THEN g ELSE flows[k]
  BY DEF FlowsOK, FlowOK
<1>2. \A k \in Flows : FlowOK(new[k], st, ow)
  BY <1>1 DEF FlowsOK
<1>3. ASSUME NEW k \in Flows, NEW l \in Flows, new[k].task = new[l].task, new[k].task # NoTask
      PROVE  k = l
  BY <1>1, <1>3 DEF FlowsOK
<1> QED
  BY <1>1, <1>2, <1>3 DEF FlowsOK

LEMMA ClearType ==
    ASSUME NEW s, NEW flows, NEW st, NEW ow, FlowsOK(flows, st, ow)
    PROVE  /\ FlowsOK(ClearTimer(s, flows), st, ow)
           /\ \A f \in Flows : ClearTimer(s, flows)[f] = (IF f = s.timer THEN Idle ELSE flows[f])
<1>1. /\ \A f \in Flows : ClearTimer(s, flows)[f] = IF f = s.timer THEN Idle ELSE flows[f]
      /\ ClearTimer(s, flows) \in [Flows -> Flow]
  BY IdleType DEF ClearTimer, FlowsOK
<1>2. FlowOK(Idle, st, ow)
  BY IdleType DEF FlowOK, Follows
<1>3. \A f \in Flows : FlowOK(ClearTimer(s, flows)[f], st, ow)
  BY <1>1, <1>2 DEF FlowsOK
<1> QED
  BY <1>1, <1>3, IdleType DEF FlowsOK

(* A record that waits for a timer.                                        *)
LEMMA TimerType ==
    ASSUME NEW t \in Tasks
    PROVE  LET g == [Idle EXCEPT !.at = "timer", !.task = t]
           IN  g \in Flow /\ g.at = "timer" /\ g.task = t /\ g.then = "end"
BY DEF Idle, Flow, Places, Thens, Answers

LEMMA AfterRefreshType ==
    ASSUME NEW s, NEW flows, NEW st, NEW ow, NEW f \in Flows,
           FlowsOK(flows, st, ow), TabOK(s, flows, st), flows[f].at # "upload"
    PROVE  /\ TabOK(AfterRefresh(s, flows, f).tab, AfterRefresh(s, flows, f).flow, st)
           /\ FlowsOK(AfterRefresh(s, flows, f).flow, st, ow)
<1> DEFINE r == AfterRefresh(s, flows, f)
           t == flows[f].task
<1>1. /\ flows[f] \in Flow /\ s \in Tab /\ flows[f].then \in Thens
      /\ flows[f].then # "end" => t \in Tasks /\ st[t] # "absent"
  BY DEF FlowsOK, FlowOK, Follows, TabOK, Flow
<1>2. FlowOK(Idle, st, ow)
  BY IdleType DEF FlowOK, Follows
<1>3. CASE flows[f].then = "end"
  <2>1. r = [tab |-> s, flow |-> [flows EXCEPT ![f] = Idle]]
    BY <1>3 DEF AfterRefresh
  <2>2. FlowsOK(r.flow, st, ow)
    <3>1. FlowsOK([flows EXCEPT ![f] = Idle], st, ow)
      BY <1>2, IdleType, FlowMoves
    <3> QED
      BY <2>1, <3>1
  <2>3. \A k \in Flows : r.flow[k] \in {flows[k], Idle}
    BY <2>1 DEF FlowsOK
  <2> QED
    BY <2>1, <2>2, <2>3, IdleType DEF TabOK
<1>4. CASE flows[f].then = "startPolling"
  <2> DEFINE g == Ask(s, "poll", t, "end")
             c == ClearTimer(s, flows)
  <2>1. /\ r.tab = [s EXCEPT !.polled = IF s.token = NoUser THEN NoTask ELSE t, !.timer = NoFlow]
        /\ r.flow = [c EXCEPT ![f] = g]
    BY <1>4 DEF AfterRefresh
  <2>2. t \in Tasks /\ st[t] # "absent"
    BY <1>1, <1>4
  <2>3. g \in Flow /\ g.at = "poll" /\ g.task = t /\ g.then = "end"
    BY <1>1, <2>2, AskType DEF Places, Thens
  <2>4. FlowsOK(c, st, ow) /\ \A k \in Flows : c[k] = IF k = s.timer THEN Idle ELSE flows[k]
    <3>1. FlowsOK(c, st, ow)
      BY ClearType
    <3>2. \A k \in Flows : c[k] = IF k = s.timer THEN Idle ELSE flows[k]
      BY DEF ClearTimer
    <3> QED
      BY <3>1, <3>2
  <2> HIDE DEF c, g
  <2>5. FlowOK(g, st, ow)
    BY <2>2, <2>3 DEF FlowOK, Follows
  <2>6. \A k \in Flows : r.flow[k] = IF k = f THEN g ELSE IF k = s.timer THEN Idle ELSE flows[k]
    BY <2>1, <2>4 DEF FlowsOK
  <2>7. FlowsOK(r.flow, st, ow)
    <3>1. r.flow \in [Flows -> Flow]
      BY <2>1, <2>3, <2>4 DEF FlowsOK
    <3>2. \A k \in Flows : FlowOK(r.flow[k], st, ow)
      BY <1>2, <2>5, <2>6 DEF FlowsOK
    <3>3. \A k \in Flows : r.flow[k].task \in {flows[k].task, NoTask}
      BY <2>3, <2>6, IdleType
    <3>4. \A k, l \in Flows : r.flow[k].task = r.flow[l].task /\ r.flow[k].task # NoTask => k = l
      BY <3>3 DEF FlowsOK
    <3> QED
      BY <3>1, <3>2, <3>4 DEF FlowsOK
  <2>8. /\ r.tab \in Tab
        /\ r.tab.polled = IF s.token = NoUser THEN NoTask ELSE t
    BY <1>1, <2>1, <2>2 DEF Tab
  <2>9. ASSUME NEW k \in Flows, r.flow[k].then = "startPolling" PROVE r.flow[k].task # r.tab.polled
    <3>1. k # f /\ flows[k] = r.flow[k]
      BY <2>3, <2>6, <2>9, IdleType
    <3>2. flows[k].task # NoTask /\ flows[k].task # t
      <4>1. flows[k].task \in Tasks
        BY <2>9, <3>1 DEF FlowsOK, FlowOK, Follows
      <4> QED
        BY <2>2, <3>1, <4>1, ClientAssumption DEF FlowsOK
    <3> QED
      BY <2>8, <3>1, <3>2
  <2> QED
    BY <2>2, <2>7, <2>8, <2>9 DEF TabOK
<1>5. CASE flows[f].then = "schedule"
  <2> DEFINE g == [Idle EXCEPT !.at = "timer", !.task = t]
  <2>1. r.tab = [s EXCEPT !.timer = f] /\ r.flow = [flows EXCEPT ![f] = g]
    BY <1>5 DEF AfterRefresh
  <2>2. t \in Tasks /\ st[t] # "absent"
    BY <1>1, <1>5
  <2>3. g \in Flow /\ g.at = "timer" /\ g.task = t /\ g.then = "end"
    BY <2>2, TimerType
  <2> HIDE DEF g
  <2>4. FlowOK(g, st, ow)
    BY <2>2, <2>3 DEF FlowOK, Follows
  <2>5. FlowsOK(r.flow, st, ow)
    BY <2>1, <2>3, <2>4, FlowMoves
  <2>6. r.tab \in Tab /\ r.tab.polled = s.polled
    BY <1>1, <2>1 DEF Tab
  <2>7. \A k \in Flows : r.flow[k].then = "startPolling" => r.flow[k] = flows[k]
    BY <2>1, <2>3 DEF FlowsOK
  <2> QED
    BY <2>5, <2>6, <2>7 DEF TabOK
<1> QED
  BY <1>1, <1>3, <1>4, <1>5 DEF Thens

(* refreshWorkspace, asked for by f.                                       *)
LEMMA RefreshType ==
    ASSUME NEW s, NEW st, NEW ow, NEW f \in Flows, NEW t \in {flow[f].task, NoTask},
           NEW then \in Thens,
           FlowsOK(flow, st, ow), TabOK(s, flow, st),
           then # "end" => t \in Tasks /\ st[t] # "absent",
           then = "startPolling" => t # s.polled
    PROVE  /\ TabOK(Refresh(s, flow, f, t, then).tab, Refresh(s, flow, f, t, then).flow, st)
           /\ FlowsOK(Refresh(s, flow, f, t, then).flow, st, ow)
<1> DEFINE g == Ask(s, "me", t, then)
           asked == [flow EXCEPT ![f] = g]
<1>1. flow[f] \in Flow /\ s \in Tab
  BY DEF FlowsOK, TabOK
<1>2. g \in Flow /\ g.at = "me" /\ g.task = t /\ g.then = then
  BY <1>1, AskType DEF Flow, Places
<1>3. /\ Refresh(s, flow, f, t, then) =
            IF s.token = NoUser THEN AfterRefresh(RenderRoute(s), asked, f)
                                ELSE [tab |-> s, flow |-> asked]
  BY DEF Refresh
<1> HIDE DEF g
<1>4. FlowOK(g, st, ow)
  BY <1>2 DEF FlowOK, Follows
<1>5. FlowsOK(asked, st, ow)
  BY <1>2, <1>4, FlowMoves
<1>6. \A k \in Flows : asked[k] = IF k = f THEN g ELSE flow[k]
  BY DEF FlowsOK
<1>7. TabOK(s, asked, st)
  BY <1>2, <1>6 DEF TabOK
<1>8. RenderRoute(s) \in Tab /\ RenderRoute(s).polled = s.polled
  BY <1>1 DEF RenderRoute, RenderSession, RenderGuestState, Tab, Panels
<1>9. TabOK(RenderRoute(s), asked, st)
  BY <1>7, <1>8 DEF TabOK
<1>10. asked[f].at # "upload"
  BY <1>2, <1>6
<1> HIDE DEF asked
<1> QED
  BY <1>3, <1>5, <1>7, <1>9, <1>10, AfterRefreshType

(* What the session's functions do to the tab keeps it well typed.         *)
LEMMA TabMoves ==
    ASSUME NEW s, TypeInv, s \in Tab, s.polled \in {tab.polled, NoTask}
    PROVE  TabOK(s, flow, status)
<1>1. \A f \in Flows : flow[f].then = "startPolling" => flow[f].task \in Tasks
  BY DEF TypeInv, FlowsOK, FlowOK, Follows
<1> QED
  BY <1>1, ClientAssumption DEF TypeInv, TabOK

LEMMA LogoutType ==
    ASSUME TypeInv
    PROVE  /\ Logout(tab) \in Tab /\ Logout(tab).polled = NoTask
           /\ Logout(tab).token = NoUser /\ Logout(tab).user = NoUser
           /\ Logout(tab).panels = {"guest"} /\ Logout(tab).timer = NoFlow
BY DEF TypeInv, TypeOK, Logout, RenderGuestState, Tab, Panels

LEMMA BecomesType ==
    ASSUME TypeInv, NEW f, NEW r, Becomes(f, r), errors' \in Nat,
           TabOK(r.tab, r.flow, status), FlowsOK(r.flow, status, owner)
    PROVE  TypeInv'
<1>1. /\ tab' = r.tab /\ flow' = r.flow
      /\ UNCHANGED <<status, paid, owner, reopens>>
      /\ overtaken' \in {"nothing", "call", "hydration"}
  BY DEF Becomes, TypeInv, TypeOK
<1>2. ServerOK'
  BY <1>1 DEF TypeInv, ServerOK
<1>3. TypeOK'
  BY <1>1 DEF TypeInv, TypeOK, TabOK, FlowsOK
<1>4. TabOK(tab', flow', status') /\ FlowsOK(flow', status', owner')
  BY <1>1
<1> QED
  BY <1>2, <1>3, <1>4 DEF TypeInv, TabOK, FlowsOK

LEMMA GiveUpType ==
    ASSUME TypeInv, NEW f \in Flows, GiveUp(f), errors' \in Nat
    PROVE  TypeInv'
<1> DEFINE r == [tab |-> tab, flow |-> [flow EXCEPT ![f] = Idle]]
<1>1. FlowOK(Idle, status, owner)
  BY IdleType DEF FlowOK, Follows
<1>2. FlowsOK(r.flow, status, owner)
  BY <1>1, IdleType, FlowMoves DEF TypeInv
<1>3. \A k \in Flows : r.flow[k] \in {flow[k], Idle}
  BY DEF TypeInv, FlowsOK
<1>4. TabOK(r.tab, r.flow, status)
  BY <1>3, IdleType DEF TypeInv, TabOK
<1>5. Becomes(f, r)
  BY DEF GiveUp
<1> HIDE DEF r
<1> QED
  BY <1>2, <1>4, <1>5, BecomesType

LEMMA SignedOutType ==
    ASSUME TypeInv, NEW f \in Flows, SignedOut(f), errors' \in Nat, flow[f].at # "upload"
    PROVE  TypeInv'
<1> DEFINE s == Logout(tab)
           c == ClearTimer(tab, flow)
           r == AfterRefresh(s, c, f)
<1>1. s \in Tab /\ s.polled = NoTask
  BY LogoutType
<1>2. FlowsOK(c, status, owner)
  BY ClearType DEF TypeInv
<1>3. \A k \in Flows : c[k] = IF k = tab.timer THEN Idle ELSE flow[k]
  BY DEF ClearTimer
<1>4. Becomes(f, r)
  BY DEF SignedOut
<1> HIDE DEF s, c
<1>5. TabOK(s, c, status)
  <2>1. \A k \in Flows : c[k].then = "startPolling" => c[k].task \in Tasks
    BY <1>2 DEF FlowsOK, FlowOK, Follows
  <2> QED
    BY <1>1, <2>1, ClientAssumption DEF TabOK
<1>6. c[f].at # "upload"
  BY <1>3, IdleType
<1>7. TabOK(r.tab, r.flow, status) /\ FlowsOK(r.flow, status, owner)
  BY <1>2, <1>5, <1>6, AfterRefreshType
<1> HIDE DEF r
<1> QED
  BY <1>4, <1>7, BecomesType

(* A refresh that f starts from the tab s.                                 *)
LEMMA RefreshStepType ==
    ASSUME TypeInv, NEW f \in Flows, NEW s, NEW t \in {flow[f].task, NoTask}, NEW then \in Thens,
           s \in Tab, s.polled \in {tab.polled, NoTask}, errors' \in Nat,
           then # "end" => t \in Tasks /\ status[t] # "absent",
           then = "startPolling" => t # s.polled,
           Becomes(f, Refresh(s, flow, f, t, then))
    PROVE  TypeInv'
<1> DEFINE r == Refresh(s, flow, f, t, then)
<1>1. TabOK(s, flow, status)
  BY TabMoves
<1>2. TabOK(r.tab, r.flow, status) /\ FlowsOK(r.flow, status, owner)
  BY <1>1, RefreshType DEF TypeInv
<1> HIDE DEF r
<1> QED
  BY <1>2, BecomesType DEF r

-----------------------------------------------------------------------------
(* Each step keeps the types.                                              *)

(* A step of the client that neither changes the session nor the polling.  *)
LEMMA AtClientType ==
    ASSUME TypeInv, AtClient, NEW f \in Flows, NEW g, flow' = [flow EXCEPT ![f] = g],
           FlowOK(g, status, owner),
           g.task \in {flow[f].task, NoTask} \/ \A k \in Flows : flow[k].task # g.task,
           g.then = "startPolling" => g.task # tab.polled,
           tab' \in Tab, tab'.polled = tab.polled
    PROVE  TypeInv'
<1>1. FlowsOK(flow', status, owner)
  BY FlowMoves DEF TypeInv
<1>2. \A k \in Flows : flow'[k] \in {flow[k], g} /\ (k # f => flow'[k] = flow[k])
  BY DEF TypeInv, FlowsOK
<1>3. TabOK(tab', flow', status)
  <2>1. flow'[f] = g
    BY DEF TypeInv, FlowsOK
  <2> QED
    BY <1>2, <2>1 DEF TypeInv, TabOK
<1>4. UNCHANGED <<status, paid, owner, errors, reopens, overtaken>>
  BY DEF AtClient
<1>5. TypeOK'
  BY <1>1, <1>4 DEF TypeInv, TypeOK, FlowsOK
<1>6. ServerOK'
  BY <1>4 DEF TypeInv, ServerOK
<1>7. FlowsOK(flow', status', owner') /\ TabOK(tab', flow', status')
  BY <1>1, <1>3, <1>4
<1> QED
  BY <1>5, <1>6, <1>7 DEF TypeInv, FlowsOK, TabOK

LEMMA UserStepType ==
    ASSUME TypeInv, UserStep
    PROVE  TypeInv'
<1>1. tab \in Tab /\ errors \in Nat /\ flow \in [Flows -> Flow]
  BY DEF TypeInv, TypeOK
<1>2. ASSUME NEW f \in Flows, NEW u \in Users, SubmitLogin(f, u) PROVE TypeInv'
  <2> DEFINE g == [Idle EXCEPT !.at = "auth", !.as = u]
  <2>1. g \in Flow /\ g.at = "auth" /\ g.then = "end" /\ g.task = NoTask
    BY DEF Idle, Flow, Places, Thens, Answers
  <2>2. flow' = [flow EXCEPT ![f] = g] /\ tab' = tab /\ AtClient
    BY <1>2 DEF SubmitLogin
  <2> HIDE DEF g
  <2> QED
    BY <1>1, <2>1, <2>2, AtClientType DEF FlowOK, Follows
<1>3. ASSUME NEW f \in Flows, SubmitAct(f) PROVE TypeInv'
  <2> DEFINE g == Ask(tab, "act", NoTask, "end")
  <2>1. g \in Flow /\ g.at = "act" /\ g.then = "end" /\ g.task = NoTask
    BY <1>1, AskType DEF Places, Thens
  <2>2. flow' = [flow EXCEPT ![f] = g] /\ tab' = tab /\ AtClient
    BY <1>3 DEF SubmitAct
  <2> HIDE DEF g
  <2> QED
    BY <1>1, <2>1, <2>2, AtClientType DEF FlowOK, Follows
<1>4. ASSUME NEW f \in Flows, NEW t \in Tasks, SubmitUpload(f, t) PROVE TypeInv'
  <2> DEFINE g == Ask(tab, "upload", t, "startPolling")
  <2>1. g \in Flow /\ g.at = "upload" /\ g.then = "startPolling" /\ g.task = t /\ g.answer = "none"
    BY <1>1, AskType DEF Places, Thens
  <2>2. /\ flow' = [flow EXCEPT ![f] = g] /\ tab' = tab /\ AtClient
        /\ status[t] = "absent" /\ \A k \in Flows : flow[k].task # t
    BY <1>4 DEF SubmitUpload
  <2> HIDE DEF g
  <2>3. t # tab.polled
    BY <2>2, ClientAssumption DEF TypeInv, TabOK
  <2>4. FlowOK(g, status, owner)
    BY <2>1, <2>2 DEF FlowOK, Follows
  <2> QED
    BY <1>1, <2>1, <2>2, <2>3, <2>4, AtClientType
<1>5. ASSUME NEW f \in Flows, Navigate(f) PROVE TypeInv'
  <2>1. Becomes(f, Refresh(tab, flow, f, NoTask, "end")) /\ errors' \in Nat
    BY <1>1, <1>5 DEF Navigate
  <2> QED
    BY <1>1, <2>1, RefreshStepType DEF Thens
<1>6. ASSUME NEW f \in Flows, Reload(f) PROVE TypeInv'
  <2> DEFINE s == [Served EXCEPT !.token = tab.token]
             g == Ask(s, "hydrate", NoTask, "end")
  <2>1. s \in Tab /\ s.polled = NoTask
    BY <1>1 DEF Served, Tab, Panels
  <2>2. RenderRoute(s) \in Tab /\ RenderRoute(s).polled = NoTask
    BY <1>1 DEF RenderRoute, RenderSession, RenderGuestState, Served, Tab, Panels
  <2>3. g \in Flow /\ g.at = "hydrate" /\ g.then = "end" /\ g.task = NoTask
    BY <2>1, AskType DEF Places, Thens
  <2>4. /\ tab' \in {s, RenderRoute(s)}
        /\ flow' = [k \in Flows |-> Idle] \/ flow' = [[k \in Flows |-> Idle] EXCEPT ![f] = g]
        /\ UNCHANGED <<status, paid, owner, errors, reopens>> /\ overtaken' = "nothing"
    BY <1>6 DEF Reload
  <2> HIDE DEF s, g
  <2>5. flow' \in [Flows -> Flow] /\ \A k \in Flows : flow'[k] \in {Idle, g}
    BY <2>3, <2>4, IdleType
  <2>6. FlowsOK(flow', status, owner)
    BY <2>3, <2>5, IdleType DEF FlowsOK, FlowOK, Follows
  <2>7. TabOK(tab', flow', status)
    BY <2>1, <2>2, <2>3, <2>4, <2>5, IdleType DEF TabOK
  <2>8. TypeOK'
    BY <2>4, <2>5, <2>7 DEF TypeInv, TypeOK, TabOK
  <2>9. ServerOK'
    BY <2>4 DEF TypeInv, ServerOK
  <2>10. FlowsOK(flow', status', owner') /\ TabOK(tab', flow', status')
    BY <2>4, <2>6, <2>7
  <2> QED
    BY <2>8, <2>9, <2>10 DEF TypeInv, FlowsOK, TabOK
<1>7. CASE ClickLogout
  <2> DEFINE r == [tab |-> Logout(tab), flow |-> ClearTimer(tab, flow)]
  <2>1. Becomes(NoFlow, r) /\ errors' \in Nat
    BY <1>1, <1>7 DEF ClickLogout
  <2>2. FlowsOK(r.flow, status, owner)
    BY ClearType DEF TypeInv
  <2>3. TabOK(r.tab, r.flow, status)
    <3>1. \A k \in Flows : r.flow[k].then = "startPolling" => r.flow[k].task \in Tasks
      BY <2>2 DEF FlowsOK, FlowOK, Follows
    <3> QED
      BY <3>1, LogoutType, ClientAssumption DEF TabOK
  <2> HIDE DEF r
  <2> QED
    BY <2>1, <2>2, <2>3, BecomesType
<1> QED
  BY <1>2, <1>3, <1>4, <1>5, <1>6, <1>7 DEF UserStep

(* The upload of h is answered, and has created t for who.                 *)
Uploaded(h, t, who) ==
    /\ status[t] = "absent"
    /\ flow[h].at = "upload" /\ flow[h].task = t /\ flow[h].as = who
    /\ \E a \in {"open", "failed"} : flow' = [flow EXCEPT ![h].answer = a]

(* A task goes on at the server: no flow notices, or it was created by an  *)
(* upload.                                                                 *)
LEMMA ServedType ==
    ASSUME TypeInv, NEW t \in Tasks,
           NEW what \in {"open", "completed", "failed"}, NEW who \in Users,
           status' = [status EXCEPT ![t] = what], owner' = [owner EXCEPT ![t] = who],
           \/ flow' = flow /\ owner[t] = who
           \/ \E h \in Flows : Uploaded(h, t, who),
           paid' \in [Tasks -> {0, 1}], errors' \in Nat, reopens' \in Nat,
           UNCHANGED <<tab, overtaken>>
    PROVE  TypeInv'
<1>1. /\ flow \in [Flows -> Flow] /\ \A k \in Flows : FlowOK(flow[k], status, owner)
      /\ \A k, l \in Flows : flow[k].task = flow[l].task /\ flow[k].task # NoTask => k = l
      /\ status \in [Tasks -> {"absent", "open", "completed", "failed"}]
      /\ owner \in [Tasks -> Users \cup {NoUser}]
      /\ \A x \in Tasks : status[x] = "absent" <=> owner[x] = NoUser
  BY DEF TypeInv, FlowsOK, ServerOK
<1>2. /\ \A x \in Tasks : status'[x] = IF x = t THEN what ELSE status[x]
      /\ \A x \in Tasks : owner'[x] = IF x = t THEN who ELSE owner[x]
      /\ status' \in [Tasks -> {"absent", "open", "completed", "failed"}]
      /\ owner' \in [Tasks -> Users \cup {NoUser}]
  BY <1>1
<1>3. who # NoUser
  BY ClientAssumption
<1>4. ServerOK'
  BY <1>1, <1>2, <1>3 DEF ServerOK
<1>5. /\ flow' \in [Flows -> Flow]
      /\ \A k \in Flows :
            /\ flow'[k].at = flow[k].at /\ flow'[k].task = flow[k].task
            /\ flow'[k].then = flow[k].then /\ flow'[k].as = flow[k].as
            /\ \/ flow'[k] = flow[k] /\ (owner[t] = who \/ flow[k].task # t)
               \/ /\ flow'[k].answer \in {"open", "failed"}
                  /\ flow[k].at = "upload" /\ flow[k].task = t /\ flow[k].as = who
  <2>1. CASE flow' = flow /\ owner[t] = who
    BY <1>1, <2>1
  <2>2. ASSUME NEW h \in Flows, Uploaded(h, t, who) PROVE <1>5
    <3>1. flow[h] \in Flow /\ flow[h].at = "upload" /\ flow[h].task = t /\ flow[h].as = who
      BY <1>1, <2>2 DEF Uploaded
    <3>2. PICK a \in {"open", "failed"} : flow' = [flow EXCEPT ![h].answer = a]
      BY <2>2 DEF Uploaded
    <3> DEFINE g == [flow[h] EXCEPT !.answer = a]
    <3>3. /\ g \in Flow /\ g.at = flow[h].at /\ g.task = flow[h].task /\ g.then = flow[h].then
          /\ g.as = flow[h].as /\ g.answer = a
      BY <3>1, <3>2 DEF Flow, Answers
    <3>4. flow' = [flow EXCEPT ![h] = g]
      BY <3>2
    <3> HIDE DEF g
    <3>5. flow' \in [Flows -> Flow] /\ \A k \in Flows : flow'[k] = IF k = h THEN g ELSE flow[k]
      BY <1>1, <3>3, <3>4
    <3>6. \A k \in Flows : k # h => flow[k].task # t
      BY <1>1, <3>1, ClientAssumption
    <3> QED
      BY <3>1, <3>2, <3>3, <3>5, <3>6
  <2> QED
    BY <2>1, <2>2
<1>6. ASSUME NEW k \in Flows PROVE FlowOK(flow'[k], status', owner')
  <2>1. FlowOK(flow[k], status, owner) /\ flow'[k] \in Flow
    BY <1>1, <1>5
  <2>2. flow'[k].at = "none" => flow'[k] = Idle
    BY <1>5, <2>1 DEF FlowOK
  <2>3. Follows(flow'[k]) => flow'[k].task \in Tasks /\ status'[flow'[k].task] # "absent"
    BY <1>2, <1>5, <2>1 DEF FlowOK, Follows
  <2>4. ASSUME flow'[k].at = "upload"
        PROVE  /\ flow'[k].task \in Tasks /\ flow'[k].then = "startPolling"
               /\ \/ flow'[k].answer \in {"none", "error"} /\ status'[flow'[k].task] = "absent"
                  \/ /\ flow'[k].answer \notin {"none", "error"}
                     /\ status'[flow'[k].task] # "absent" /\ owner'[flow'[k].task] = flow'[k].as
    <3>1. flow[k].at = "upload" /\ flow[k].task \in Tasks /\ flow'[k].task = flow[k].task
      BY <1>5, <2>1, <2>4 DEF FlowOK
    <3>2. CASE flow[k].task # t
      BY <1>2, <1>5, <2>1, <3>1, <3>2 DEF FlowOK
    <3>3. CASE flow[k].task = t /\ flow'[k] = flow[k] /\ owner[t] = who
      <4>1. status[t] # "absent"
        BY <1>1, <1>3, <3>3
      <4> QED
        BY <1>2, <2>1, <3>1, <3>3, <4>1 DEF FlowOK
    <3>4. CASE flow[k].task = t /\ flow'[k].answer \in {"open", "failed"} /\ flow[k].as = who
      <4>1. flow'[k].then = "startPolling"
        BY <1>5, <2>1, <3>1 DEF FlowOK
      <4> QED
        BY <1>2, <1>5, <3>1, <3>4, <4>1
    <3> QED
      BY <1>5, <3>2, <3>3, <3>4
  <2> QED
    BY <2>1, <2>2, <2>3, <2>4 DEF FlowOK
<1>7. FlowsOK(flow', status', owner')
  <2>1. \A k, l \in Flows : flow'[k].task = flow'[l].task /\ flow'[k].task # NoTask => k = l
    BY <1>1, <1>5
  <2> QED
    BY <1>5, <1>6, <2>1 DEF FlowsOK
<1>8. TabOK(tab', flow', status')
  BY <1>2, <1>5 DEF TypeInv, TabOK, Tab
<1>9. TypeOK'
  BY <1>2, <1>5 DEF TypeInv, TypeOK
<1> QED
  BY <1>4, <1>7, <1>8, <1>9 DEF TypeInv, FlowsOK, TabOK

(* Only the answer of one request changes.                                 *)
LEMMA RepliedType ==
    ASSUME TypeInv, NEW f \in Flows, NEW a \in Answers, Reply(f, a),
           flow[f].at = "poll" \/ (flow[f].at = "upload" /\ flow[f].answer = "none" /\ a = "error"),
           UNCHANGED <<status, paid, owner>>
    PROVE  TypeInv'
<1> DEFINE g == [flow[f] EXCEPT !.answer = a]
<1>1. flow[f] \in Flow /\ FlowOK(flow[f], status, owner) /\ flow \in [Flows -> Flow]
  BY DEF TypeInv, FlowsOK
<1>2. /\ g \in Flow /\ g.at = flow[f].at /\ g.task = flow[f].task /\ g.then = flow[f].then
      /\ g.as = flow[f].as /\ g.answer = a
  BY <1>1 DEF Flow, Answers
<1>3. flow' = [flow EXCEPT ![f] = g] /\ UNCHANGED <<tab, errors, reopens, overtaken>>
  BY DEF Reply
<1> HIDE DEF g
<1>4. FlowOK(g, status, owner)
  BY <1>1, <1>2 DEF FlowOK, Follows
<1>5. AtClient
  BY <1>3 DEF AtClient
<1>6. g.then = "startPolling" => g.task # tab.polled
  BY <1>2 DEF TypeInv, TabOK
<1> QED
  BY <1>2, <1>3, <1>4, <1>5, <1>6, AtClientType DEF TypeInv, TypeOK

LEMMA ServerType ==
    ASSUME TypeInv, (\E f \in Flows : ServeUpload(f) \/ ServePoll(f))
                    \/ (\E t \in Tasks : Settle(t) \/ Reopen(t))
    PROVE  TypeInv'
<1>1. ServerOK /\ errors \in Nat /\ reopens \in Nat
  BY DEF TypeInv, TypeOK
<1>2. ASSUME NEW f \in Flows, ServeUpload(f) PROVE TypeInv'
  <2> DEFINE t == flow[f].task
  <2>1. flow[f].at = "upload" /\ flow[f].answer = "none" /\ t \in Tasks
    BY <1>2 DEF ServeUpload, Asked, TypeInv, FlowsOK, FlowOK
  <2>2. status[t] = "absent"
    <3>1. FlowOK(flow[f], status, owner) /\ flow[f] \in Flow
      BY DEF TypeInv, FlowsOK
    <3> QED
      BY <1>2, <2>1, <3>1 DEF FlowOK, ServeUpload, TypeInv
  <2>3. CASE Reply(f, "error") /\ UNCHANGED <<status, paid, owner>>
    BY <2>1, <2>3, RepliedType DEF Answers
  <2>4. ASSUME Authorized(f), NEW a \in {"open", "failed"}, Reply(f, a),
               status' = [status EXCEPT ![t] = a],
               owner' = [owner EXCEPT ![t] = flow[f].as], UNCHANGED paid
        PROVE  TypeInv'
    <3>1. flow[f].as \in Users
      BY <2>4 DEF Authorized, TypeInv, TypeOK, Flow
    <3>2. /\ flow' = [flow EXCEPT ![f].answer = a]
          /\ UNCHANGED <<tab, errors, reopens, overtaken>>
      BY <2>4 DEF Reply
    <3>3. paid' \in [Tasks -> {0, 1}]
      BY <1>1, <2>4 DEF ServerOK
    <3>4. Uploaded(f, t, flow[f].as)
      BY <2>1, <2>2, <2>4, <3>2 DEF Uploaded
    <3> HIDE DEF t
    <3> QED
      BY <1>1, <2>1, <2>4, <3>1, <3>2, <3>3, <3>4, ServedType
  <2> QED
    BY <1>2, <2>3, <2>4 DEF ServeUpload, Service!Create
<1>3. ASSUME NEW f \in Flows, ServePoll(f) PROVE TypeInv'
  <2>1. flow[f].at = "poll" /\ flow[f].task \in Tasks /\ status[flow[f].task] # "absent"
    BY <1>3 DEF ServePoll, Asked, TypeInv, FlowsOK, FlowOK, Follows
  <2>2. status[flow[f].task] \in Answers
    BY <1>1, <2>1 DEF ServerOK, Answers
  <2>3. "error" \in Answers
    BY DEF Answers
  <2>4. PICK a \in Answers : Reply(f, a)
    BY <1>3, <2>2, <2>3 DEF ServePoll
  <2> QED
    BY <1>3, <2>1, <2>4, RepliedType DEF ServePoll
<1>4. ASSUME NEW t \in Tasks, Settle(t) \/ Reopen(t) PROVE TypeInv'
  <2>1. PICK what \in {"open", "completed", "failed"} : status' = [status EXCEPT ![t] = what]
    BY <1>4 DEF Settle, Reopen, Service!Complete, Service!Fail, Service!Reopen
  <2>2. status[t] # "absent"
    BY <1>4 DEF Settle, Reopen, Service!Complete, Service!Fail, Service!Reopen
  <2>3. owner[t] \in Users
    BY <1>1, <2>2 DEF ServerOK
  <2>4. owner' = [owner EXCEPT ![t] = owner[t]]
    BY <1>1, <1>4 DEF Settle, Reopen, ServerOK
  <2>5. paid' \in [Tasks -> {0, 1}]
    <3>1. paid' = paid \/ paid' = [paid EXCEPT ![t] = Ones[t] * 1]
      BY <1>4 DEF Settle, Reopen, Service!Complete, Service!Fail, Service!Reopen
    <3>2. Ones[t] * 1 = 1
      BY DEF Ones
    <3> QED
      BY <1>1, <3>1, <3>2 DEF ServerOK
  <2>6. UNCHANGED <<tab, flow, overtaken, errors>> /\ reopens' \in Nat
    BY <1>1, <1>4 DEF Settle, Reopen
  <2> QED
    BY <1>1, <2>1, <2>3, <2>4, <2>5, <2>6, ServedType
<1> QED
  BY <1>2, <1>3, <1>4

(* Answers arrive, are refused or are lost.                                *)
LEMMA ErrorsType ==
    ASSUME TypeInv, Lost \/ UNCHANGED errors
    PROVE  errors' \in Nat
BY DEF TypeInv, TypeOK, Lost

LEMMA ReceiveType ==
    ASSUME TypeInv, NEW f \in Flows, Receive(f)
    PROVE  TypeInv'
<1>1. /\ tab \in Tab /\ flow[f] \in Flow /\ FlowOK(flow[f], status, owner)
      /\ flow[f].then \in Thens /\ flow[f].task \in Tasks \cup {NoTask}
      /\ flow \in [Flows -> Flow]
  BY DEF TypeInv, TypeOK, FlowsOK, Flow
<1>2. Authorized(f) => flow[f].as \in Users
  BY <1>1 DEF Authorized, Flow
<1>3. errors' \in Nat
  <2>1. Lost \/ UNCHANGED errors
    BY DEF Receive, ReceiveAuth, ReceiveHydrate, ReceiveMe, ReceiveUserData, ReceiveAdminData,
           ReceiveAct, ReceiveUpload, ReceivePoll, Rejected, Granted, Refused, Arrives
  <2> QED
    BY <2>1, ErrorsType
<1>4. CASE ReceiveAuth(f)
  <2>1. CASE GiveUp(f)
    BY <1>3, <2>1, GiveUpType
  <2>2. CASE Authorized(f) /\ ~GiveUp(f)
    <3> DEFINE s == [tab EXCEPT !.token = flow[f].as, !.user = flow[f].as, !.polled = NoTask]
    <3>1. s \in Tab /\ s.polled = NoTask
      BY <1>1, <1>2, <2>2 DEF Tab
    <3>2. Becomes(f, Refresh(s, flow, f, NoTask, "end"))
      BY <1>4, <2>2 DEF ReceiveAuth
    <3> HIDE DEF s
    <3> QED
      BY <1>3, <3>1, <3>2, RefreshStepType DEF Thens
  <2> QED
    BY <1>4, <2>1, <2>2 DEF ReceiveAuth, Granted
<1>5. CASE ReceiveHydrate(f)
  <2>1. CASE SignedOut(f)
    BY <1>3, <1>5, <2>1, SignedOutType DEF ReceiveHydrate
  <2>2. CASE Authorized(f) /\ ~SignedOut(f)
    <3> DEFINE s == [tab EXCEPT !.user = flow[f].as]
    <3>1. s \in Tab /\ s.polled = tab.polled
      BY <1>1, <1>2, <2>2 DEF Tab
    <3>2. Becomes(f, Refresh(s, flow, f, NoTask, "end"))
      BY <1>5, <2>2 DEF ReceiveHydrate
    <3> HIDE DEF s
    <3> QED
      BY <1>3, <3>1, <3>2, RefreshStepType DEF Thens
  <2> QED
    BY <1>5, <2>1, <2>2 DEF ReceiveHydrate, Granted
<1>6. CASE ReceiveMe(f)
  <2>1. CASE SignedOut(f)
    BY <1>3, <1>6, <2>1, SignedOutType DEF ReceiveMe
  <2>2. CASE Authorized(f) /\ ~SignedOut(f)
    <3> DEFINE s == RenderSession([tab EXCEPT !.user = flow[f].as])
               place == IF IsAdmin(s.user) THEN "adminData" ELSE "userData"
               g == Ask(s, place, flow[f].task, flow[f].then)
    <3>1. s \in Tab /\ s.polled = tab.polled
      BY <1>1, <1>2, <2>2 DEF Tab, RenderSession, Panels
    <3>2. Becomes(f, [tab |-> s, flow |-> [flow EXCEPT ![f] = g]])
      BY <1>6, <2>2 DEF ReceiveMe
    <3> HIDE DEF s
    <3>3. place \in {"userData", "adminData"} /\ place \in Places
      BY DEF Places
    <3>4. /\ g \in Flow /\ g.at \in {"userData", "adminData"} /\ g.task = flow[f].task
          /\ g.then = flow[f].then
      <4> HIDE DEF place
      <4> QED
        BY <1>1, <3>1, <3>3, AskType
    <3> HIDE DEF g
    <3>5. FlowOK(g, status, owner)
      BY <1>1, <1>6, <3>4 DEF FlowOK, Follows, ReceiveMe
    <3>6. FlowsOK([flow EXCEPT ![f] = g], status, owner)
      BY <3>4, <3>5, FlowMoves DEF TypeInv
    <3>7. TabOK(s, [flow EXCEPT ![f] = g], status)
      <4>1. \A k \in Flows : [flow EXCEPT ![f] = g][k] = IF k = f THEN g ELSE flow[k]
        BY <1>1
      <4> QED
        BY <3>1, <3>4, <4>1 DEF TypeInv, TabOK
    <3> DEFINE r == [tab |-> s, flow |-> [flow EXCEPT ![f] = g]]
    <3>8. Becomes(f, r) /\ TabOK(r.tab, r.flow, status) /\ FlowsOK(r.flow, status, owner)
      BY <3>2, <3>6, <3>7
    <3> HIDE DEF r
    <3> QED
      BY <1>3, <3>8, BecomesType
  <2> QED
    BY <1>6, <2>1, <2>2 DEF ReceiveMe, Granted
<1>7. CASE ReceiveUserData(f) \/ ReceiveAdminData(f)
  <2>1. CASE SignedOut(f)
    BY <1>3, <1>7, <2>1, SignedOutType DEF ReceiveUserData, ReceiveAdminData
  <2>2. CASE Authorized(f) /\ ~SignedOut(f)
    <3>1. PICK s : /\ s \in {[tab EXCEPT !.userOf = flow[f].as],
                             [tab EXCEPT !.adminOf = flow[f].as, !.panels = @ \cup {"studio"}]}
                   /\ Becomes(f, AfterRefresh(s, flow, f))
      BY <1>7, <2>2 DEF ReceiveUserData, ReceiveAdminData
    <3>2. s \in Tab /\ s.polled = tab.polled
      BY <1>1, <1>2, <2>2, <3>1 DEF Tab, Panels
    <3>3. TabOK(s, flow, status)
      BY <3>2, TabMoves
    <3>4. flow[f].at # "upload"
      BY <1>7 DEF ReceiveUserData, ReceiveAdminData
    <3> DEFINE r == AfterRefresh(s, flow, f)
    <3>5. TabOK(r.tab, r.flow, status) /\ FlowsOK(r.flow, status, owner)
      BY <3>3, <3>4, AfterRefreshType DEF TypeInv
    <3> HIDE DEF r
    <3> QED
      BY <1>3, <3>1, <3>5, BecomesType DEF r
  <2> QED
    BY <1>7, <2>1, <2>2 DEF ReceiveUserData, ReceiveAdminData, Granted
<1>8. CASE ReceiveAct(f)
  <2>1. CASE GiveUp(f)
    BY <1>3, <2>1, GiveUpType
  <2>2. CASE Becomes(f, Refresh(tab, flow, f, NoTask, "end"))
    BY <1>1, <1>3, <2>2, RefreshStepType DEF Thens
  <2> QED
    BY <1>8, <2>1, <2>2 DEF ReceiveAct
<1>9. CASE ReceiveUpload(f) \/ ReceivePoll(f)
  <2> DEFINE t == flow[f].task
             s == ShowStatus(tab, t, flow[f].answer)
  <2>1. CASE GiveUp(f)
    BY <1>3, <2>1, GiveUpType
  <2>2. CASE ~GiveUp(f)
    <3>1. flow[f].answer \in {"open", "completed", "failed"} /\ flow[f].at \in {"upload", "poll"}
      BY <1>9, <2>2 DEF ReceiveUpload, ReceivePoll, Arrives
    <3>2. t \in Tasks /\ status[t] # "absent"
      BY <1>1, <3>1 DEF FlowOK, Follows
    <3>3. s \in Tab /\ s.polled = tab.polled
      BY <1>1, <3>1, <3>2 DEF ShowStatus, Tab
    <3> HIDE DEF s
    <3>4. CASE Becomes(f, Refresh(s, flow, f, NoTask, "end"))
      BY <1>3, <3>3, <3>4, RefreshStepType DEF Thens
    <3>5. CASE Becomes(f, Refresh(s, flow, f, t, "startPolling")) /\ ReceiveUpload(f)
      <4>1. flow[f].at = "upload"
        BY <3>5 DEF ReceiveUpload
      <4>2. flow[f].then = "startPolling"
        BY <1>1, <4>1 DEF FlowOK
      <4>3. t # s.polled
        BY <3>3, <4>2 DEF TypeInv, TabOK
      <4> QED
        BY <1>3, <3>2, <3>3, <3>5, <4>3, RefreshStepType DEF Thens
    <3>6. CASE Becomes(f, Refresh(s, flow, f, t, "schedule"))
      BY <1>3, <3>2, <3>3, <3>6, RefreshStepType DEF Thens
    <3> QED
      BY <1>9, <2>2, <3>4, <3>5, <3>6 DEF ReceiveUpload, ReceivePoll, s
  <2> QED
    BY <2>1, <2>2
<1> QED
  BY <1>4, <1>5, <1>6, <1>7, <1>8, <1>9 DEF Receive

LEMMA TimerFiresType ==
    ASSUME TypeInv, NEW f \in Flows, TimerFires(f)
    PROVE  TypeInv'
<1> DEFINE g == Ask(tab, "poll", flow[f].task, "end")
<1>1. tab \in Tab /\ flow[f] \in Flow /\ FlowOK(flow[f], status, owner) /\ flow[f].at = "timer"
  BY DEF TypeInv, TypeOK, FlowsOK, TimerFires
<1>2. flow[f].task \in Tasks /\ status[flow[f].task] # "absent"
  BY <1>1 DEF FlowOK, Follows
<1>3. g \in Flow /\ g.at = "poll" /\ g.task = flow[f].task /\ g.then = "end"
  BY <1>1, <1>2, AskType DEF Places, Thens
<1>4. flow' = [flow EXCEPT ![f] = g]
  BY DEF TimerFires
<1> HIDE DEF g
<1>5. FlowOK(g, status, owner)
  BY <1>2, <1>3 DEF FlowOK, Follows
<1>6. tab' \in Tab /\ tab'.polled = tab.polled /\ AtClient
  BY <1>1 DEF TimerFires, Tab
<1> QED
  BY <1>3, <1>4, <1>5, <1>6, AtClientType

LEMMA TypeStep == TypeInv /\ [Next]_vars => TypeInv'
<1> SUFFICES ASSUME TypeInv, [Next]_vars PROVE TypeInv'
  OBVIOUS
<1>1. CASE UNCHANGED vars
  BY <1>1 DEF vars, TypeInv, TypeOK, ServerOK, FlowsOK, TabOK
<1>2. CASE UserStep
  BY <1>2, UserStepType
<1>3. ASSUME NEW f \in Flows, FlowStep(f) PROVE TypeInv'
  BY <1>3, ServerType, ReceiveType, TimerFiresType DEF FlowStep
<1>4. ASSUME NEW t \in Tasks, Settle(t) \/ Reopen(t) PROVE TypeInv'
  BY <1>4, ServerType
<1> QED
  BY <1>1, <1>2, <1>3, <1>4 DEF Next

(* Every variable of the tab, of its calls and of the service is well      *)
(* typed, whatever is overtaken.                                           *)
THEOREM ClientTypeCorrect == Spec => []TypeOK
<1>1. Spec => []TypeInv
  BY InitType, TypeStep, PTL DEF Spec
<1>2. TypeInv => TypeOK
  BY DEF TypeInv
<1> QED
  BY <1>1, <1>2, PTL

-----------------------------------------------------------------------------
(* Until a call is overtaken, all that waits belongs to the session that   *)
(* is shown, and one polling at most goes on.                              *)

Loads(g) == g.at \in {"hydrate", "me", "userData", "adminData"}

Polls(g) == g.at \in {"poll", "timer"} \/ g.then = "schedule"

SessionOK(s) ==
    /\ s.user \in {NoUser, s.token}
    /\ "workspace" \in s.panels => s.user \in Users \ AdminUsers
    /\ "studio" \in s.panels => s.user \in AdminUsers

Shown(s) ==
    /\ "workspace" \in s.panels => s.userOf = s.token
    /\ "studio" \in s.panels => s.adminOf = s.token

OfSession(g, s, ow) ==
    /\ g.at \notin {"none", "auth", "timer"} => g.as = s.token
    /\ Loads(g) => s.token # NoUser
    /\ g.at \in {"userData", "adminData"} => s.user = s.token
    /\ g.at = "userData" => s.token \notin AdminUsers
    /\ g.at = "adminData" => s.token \in AdminUsers
    /\ Follows(g) => ow[g.task] = s.token

Own(s, flows, ow) ==
    /\ SessionOK(s)
    /\ \A f \in Flows : OfSession(flows[f], s, ow)
    /\ \A f \in Flows : flows[f].at = "timer" <=> s.timer = f
    /\ \A f, g \in Flows : Polls(flows[f]) /\ Polls(flows[g]) => f = g
    /\ (\A f \in Flows : ~Loads(flows[f])) => Shown(s)

Inv == TypeInv /\ (Undisturbed => Own(tab, flow, owner))

LEMMA InitOwn == Init => Inv
<1> SUFFICES ASSUME Init PROVE Own(tab, flow, owner)
  BY InitType DEF Inv
<1>1. /\ tab = [Served EXCEPT !.panels = {"guest"}] /\ flow = [f \in Flows |-> Idle]
  BY DEF Init
<1>2. /\ tab.user = NoUser /\ tab.timer = NoFlow /\ tab.panels = {"guest"}
  BY <1>1 DEF Served
<1> QED
  BY <1>1, <1>2, IdleType, ClientAssumption
  DEF Own, SessionOK, Shown, OfSession, Loads, Polls, Follows

(* Nothing has been overtaken after a step that overtakes something.       *)
LEMMA StaysUndisturbed ==
    ASSUME NEW f, NEW r, Becomes(f, r), Undisturbed'
    PROVE  Undisturbed /\ \A g \in Flows : g \notin Overtakes(f, r)
BY DEF Becomes, Undisturbed

(* A page without calls, on which nobody is signed in.                     *)
LEMMA SignedOutOwn ==
    ASSUME NEW s, NEW flows, NEW ow, s.user = NoUser, s.panels = {"guest"}, s.timer = NoFlow,
           \A k \in Flows : flows[k] = Idle
    PROVE  Own(s, flows, ow)
BY IdleType, ClientAssumption DEF Own, SessionOK, Shown, OfSession, Loads, Polls, Follows

(* One flow goes on, in the session of before.                             *)
LEMMA OwnMoves ==
    ASSUME NEW s, NEW flows, NEW ow, Own(s, flows, ow), flows \in [Flows -> Flow],
           NEW f \in Flows, NEW g, NEW s2,
           s2.token = s.token, s2.user \in {s.user, s.token}, SessionOK(s2), OfSession(g, s2, ow),
           Polls(g) => Polls(flows[f]),
           s2.timer # s.timer => Polls(flows[f]) /\ s2.timer \in {f, NoFlow},
           g.at = "timer" <=> s2.timer = f,
           Shown(s2) \/ Loads(g) \/ (s2 = s /\ ~Loads(flows[f]))
    PROVE  Own(s2, [flows EXCEPT ![f] = g], ow)
<1> DEFINE new == [flows EXCEPT ![f] = g]
<1>1. \A k \in Flows : new[k] = IF k = f THEN g ELSE flows[k]
  OBVIOUS
<1> HIDE DEF new
<1>2. \A k \in Flows : k # f => OfSession(flows[k], s2, ow)
  <2>1. \A k \in Flows : OfSession(flows[k], s, ow)
    BY DEF Own
  <2> QED
    BY <2>1 DEF OfSession
<1>3. \A k \in Flows : new[k].at = "timer" <=> s2.timer = k
  <2>1. \A k \in Flows : k # f => (s2.timer = k <=> s.timer = k)
    BY ClientAssumption DEF Own, Polls
  <2> QED
    BY <1>1, <2>1 DEF Own
<1>4. \A k, l \in Flows : Polls(new[k]) /\ Polls(new[l]) => k = l
  BY <1>1 DEF Own
<1>5. (\A k \in Flows : ~Loads(new[k])) => Shown(s2)
  BY <1>1 DEF Own
<1>6. \A k \in Flows : OfSession(new[k], s2, ow)
  BY <1>1, <1>2
<1>7. Own(s2, new, ow)
  BY <1>3, <1>4, <1>5, <1>6 DEF Own
<1> QED
  BY <1>7 DEF new

(* The end of a refresh that has shown all it loaded.                      *)
LEMMA AfterRefreshOwn ==
    ASSUME NEW s \in Tab, NEW flows \in [Flows -> Flow], NEW ow, NEW f \in Flows,
           Own(s, flows, ow), Shown(s), flows[f].at \notin {"upload", "timer"},
           flows[f].then = "startPolling" =>
              \A k \in Flows : k # f /\ Polls(flows[k]) => k = s.timer
    PROVE  Own(AfterRefresh(s, flows, f).tab, AfterRefresh(s, flows, f).flow, ow)
<1> DEFINE r == AfterRefresh(s, flows, f)
           t == flows[f].task
<1>1. /\ flows[f] \in Flow /\ s.timer # f /\ SessionOK(s)
      /\ flows[f].then # "end" => Follows(flows[f]) /\ ow[t] = s.token
  BY DEF Own, OfSession, Follows
<1>2. CASE flows[f].then = "end"
  <2>1. r.tab = s /\ r.flow = [flows EXCEPT ![f] = Idle]
    BY <1>2 DEF AfterRefresh
  <2>2. OfSession(Idle, s, ow) /\ ~Polls(Idle)
    BY IdleType DEF OfSession, Loads, Follows, Polls
  <2>3. Own(s, [flows EXCEPT ![f] = Idle], ow)
    BY <1>1, <2>2, IdleType, OwnMoves DEF SessionOK
  <2> QED
    BY <2>1, <2>3
<1>3. CASE flows[f].then = "schedule"
  <2> DEFINE g == [Idle EXCEPT !.at = "timer", !.task = t]
             s2 == [s EXCEPT !.timer = f]
  <2>1. r.tab = s2 /\ r.flow = [flows EXCEPT ![f] = g]
    BY <1>3 DEF AfterRefresh
  <2>2. g.at = "timer" /\ g.task = t /\ g.then = "end"
    BY DEF Idle
  <2>3. /\ s2.timer = f /\ s2.token = s.token /\ s2.user = s.user /\ s2.panels = s.panels
        /\ s2.userOf = s.userOf /\ s2.adminOf = s.adminOf
    BY DEF Tab
  <2> HIDE DEF g, s2
  <2>4. SessionOK(s2) /\ Shown(s2)
    BY <1>1, <2>3 DEF SessionOK, Shown
  <2>5. OfSession(g, s2, ow)
    BY <1>1, <1>3, <2>2, <2>3 DEF OfSession, Loads
  <2>6. Polls(flows[f])
    BY <1>3 DEF Polls
  <2>7. Own(s2, [flows EXCEPT ![f] = g], ow)
    BY <2>2, <2>3, <2>4, <2>5, <2>6, OwnMoves
  <2> QED
    BY <2>1, <2>7
<1>4. CASE flows[f].then = "startPolling"
  <2> DEFINE g == Ask(s, "poll", t, "end")
             c == ClearTimer(s, flows)
             s2 == [s EXCEPT !.polled = IF s.token = NoUser THEN NoTask ELSE t, !.timer = NoFlow]
  <2>1. r.tab = s2 /\ r.flow = [c EXCEPT ![f] = g]
    BY <1>4 DEF AfterRefresh
  <2>2. g.at = "poll" /\ g.task = t /\ g.then = "end" /\ g.as = s.token
    BY DEF Ask
  <2>3. /\ s2.timer = NoFlow /\ s2.token = s.token /\ s2.user = s.user /\ s2.panels = s.panels
        /\ s2.userOf = s.userOf /\ s2.adminOf = s.adminOf
    BY DEF Tab
  <2>4. c \in [Flows -> Flow] /\ \A k \in Flows : c[k] = IF k = s.timer THEN Idle ELSE flows[k]
    BY IdleType DEF ClearTimer
  <2> HIDE DEF g, c, s2
  <2>5. \A k \in Flows : r.flow[k] = IF k = f THEN g ELSE IF k = s.timer THEN Idle ELSE flows[k]
    BY <2>1, <2>4
  <2>6. SessionOK(s2) /\ Shown(s2)
    BY <1>1, <2>3 DEF SessionOK, Shown
  <2>7. \A k \in Flows : OfSession(r.flow[k], s2, ow)
    <3>1. OfSession(g, s2, ow)
      BY <1>1, <1>4, <2>2, <2>3 DEF OfSession, Loads
    <3>2. OfSession(Idle, s2, ow)
      BY IdleType DEF OfSession, Loads, Follows
    <3>3. \A k \in Flows : OfSession(flows[k], s2, ow)
      BY <2>3 DEF Own, OfSession
    <3> QED
      BY <2>5, <3>1, <3>2, <3>3
  <2>8. \A k \in Flows : r.flow[k].at # "timer" /\ s2.timer # k
    BY <2>2, <2>3, <2>5, IdleType, ClientAssumption DEF Own
  <2>9. \A k \in Flows : Polls(r.flow[k]) => k = f
    <3>1. ~Polls(Idle)
      BY IdleType DEF Polls
    <3> QED
      BY <1>4, <2>5, <3>1
  <2>10. Own(s2, r.flow, ow)
    BY <2>6, <2>7, <2>8, <2>9 DEF Own
  <2> QED
    BY <2>1, <2>10
<1>5. flows[f].then \in {"end", "schedule", "startPolling"}
  BY <1>1 DEF Flow, Thens
<1> QED
  BY <1>2, <1>3, <1>4, <1>5

(* A refresh that f starts in the session of before.                       *)
LEMMA RefreshOwn ==
    ASSUME TypeInv, Own(tab, flow, owner), NEW f \in Flows, flow[f].at # "timer",
           NEW s \in Tab, NEW t \in {flow[f].task, NoTask}, NEW then \in Thens,
           s.token = tab.token, s.timer = tab.timer, s.user \in {tab.user, tab.token},
           SessionOK(s),
           then # "end" => t \in Tasks /\ status[t] # "absent" /\ owner[t] = tab.token,
           then = "schedule" => Polls(flow[f])
    PROVE  Own(Refresh(s, flow, f, t, then).tab, Refresh(s, flow, f, t, then).flow, owner)
<1> DEFINE r == Refresh(s, flow, f, t, then)
           g == Ask(s, "me", t, then)
           asked == [flow EXCEPT ![f] = g]
<1>1. /\ flow \in [Flows -> Flow] /\ flow[f].task \in Tasks \cup {NoTask} /\ s.timer # f
      /\ \A x \in Tasks : status[x] = "absent" <=> owner[x] = NoUser
  BY DEF TypeInv, TypeOK, Flow, ServerOK, Own
<1>2. g.at = "me" /\ g.task = t /\ g.then = then /\ g.as = s.token
  BY DEF Ask
<1>3. CASE s.token # NoUser
  <2>1. r.tab = s /\ r.flow = asked
    BY <1>3 DEF Refresh
  <2> HIDE DEF g
  <2>2. OfSession(g, s, owner)
    BY <1>2, <1>3 DEF OfSession, Follows
  <2>3. Loads(g) /\ (Polls(g) => Polls(flow[f]))
    BY <1>2 DEF Loads, Polls
  <2>4. Own(s, [flow EXCEPT ![f] = g], owner)
    BY <1>1, <1>2, <2>2, <2>3, OwnMoves
  <2> QED
    BY <2>1, <2>4
<1>4. CASE s.token = NoUser
  <2> DEFINE s2 == RenderRoute(s)
  <2>1. then = "end" /\ s.user = NoUser
    BY <1>1, <1>4 DEF SessionOK
  <2>2. s2 = [s EXCEPT !.user = NoUser, !.panels = {"guest"}]
    BY <2>1 DEF RenderRoute, RenderGuestState
  <2>3. s2.token = s.token /\ s2.timer = s.timer /\ s2.user = NoUser /\ s2.panels = {"guest"}
    BY <2>2 DEF Tab
  <2>4. r = AfterRefresh(s2, asked, f)
    BY <1>4 DEF Refresh
  <2>5. asked[f] = g
    BY <1>1
  <2> HIDE DEF g, asked, s2
  <2>6. AfterRefresh(s2, asked, f) = [tab |-> s2, flow |-> [asked EXCEPT ![f] = Idle]]
    BY <1>2, <2>1, <2>5 DEF AfterRefresh
  <2>7. r.tab = s2 /\ r.flow = [flow EXCEPT ![f] = Idle]
    <3>1. [asked EXCEPT ![f] = Idle] = [flow EXCEPT ![f] = Idle]
      BY <1>1 DEF asked
    <3> QED
      BY <2>4, <2>6, <3>1
  <2>8. SessionOK(s2) /\ Shown(s2) /\ OfSession(Idle, s2, owner) /\ ~Polls(Idle)
    BY <2>3, IdleType DEF SessionOK, Shown, OfSession, Loads, Follows, Polls
  <2>9. Own(s2, [flow EXCEPT ![f] = Idle], owner)
    BY <1>1, <2>1, <2>3, <2>8, IdleType, OwnMoves
  <2> QED
    BY <2>7, <2>9
<1> QED
  BY <1>3, <1>4

(* What remains when the session ends and no call is overtaken: nothing.   *)
LEMMA LogoutOwn ==
    ASSUME TypeInv, Own(tab, flow, owner), NEW f, NEW r, r.tab.token = NoUser,
           tab.token # NoUser, \A g \in Flows : g \notin Overtakes(f, r),
           NEW g \in Flows, g # f
    PROVE  ClearTimer(tab, flow)[g] = Idle
<1>1. flow[g].at \in {"none", "timer"}
  BY DEF Overtakes, Waiting
<1>2. ClearTimer(tab, flow)[g] = IF g = tab.timer THEN Idle ELSE flow[g]
  BY DEF ClearTimer
<1>3. flow[g].at = "none" => flow[g] = Idle
  BY DEF TypeInv, FlowsOK, FlowOK
<1> QED
  BY <1>1, <1>2, <1>3 DEF Own

LEMMA SignedOutStepOwn ==
    ASSUME TypeInv, NEW f \in Flows, Loads(flow[f]), SignedOut(f),
           Undisturbed => Own(tab, flow, owner), Undisturbed'
    PROVE  Own(tab', flow', owner')
<1> DEFINE s == Logout(tab)
           c == ClearTimer(tab, flow)
           r == AfterRefresh(s, c, f)
           t == flow[f].task
<1>1. Becomes(f, r)
  BY DEF SignedOut
<1>2. Own(tab, flow, owner) /\ \A g \in Flows : g \notin Overtakes(f, r)
  BY <1>1, StaysUndisturbed
<1>3. tab.token # NoUser /\ tab.timer # f
  BY <1>2 DEF Own, OfSession, Loads
<1>4. /\ c \in [Flows -> Flow] /\ c[f] = flow[f] /\ flow[f] \in Flow
      /\ (flow[f].then # "end" => t \in Tasks)
  <2>1. c \in [Flows -> Flow]
    BY ClearType DEF TypeInv, FlowsOK
  <2>2. FlowOK(flow[f], status, owner) /\ flow[f] \in Flow
    BY DEF TypeInv, FlowsOK
  <2> QED
    BY <1>3, <2>1, <2>2 DEF ClearTimer, FlowOK, Follows, Loads
<1>5. /\ s.token = NoUser /\ s.user = NoUser /\ s.panels = {"guest"} /\ s.timer = NoFlow
      /\ s \in Tab
  BY LogoutType
<1> HIDE DEF s, c
<1>6. r.tab.token = NoUser
  BY <1>4, <1>5 DEF AfterRefresh, Tab, Flow, Thens
<1>7. CASE flow[f].then = "end"
  <2>1. r.tab = s /\ r.flow = [c EXCEPT ![f] = Idle]
    BY <1>4, <1>7 DEF AfterRefresh
  <2>2. \A g \in Flows : g # f => c[g] = Idle
    BY <1>2, <1>3, <1>6, LogoutOwn DEF c
  <2>3. \A g \in Flows : r.flow[g] = Idle
    BY <1>4, <2>1, <2>2
  <2> HIDE DEF r
  <2>4. Own(r.tab, r.flow, owner')
    BY <1>5, <2>1, <2>3, SignedOutOwn
  <2> QED
    BY <1>1, <2>4 DEF Becomes
<1>8. CASE flow[f].then # "end"
  <2>1. r.flow[f].task = t
    <3>1. Ask(s, "poll", t, "end").task = t
      BY DEF Ask
    <3>2. [Idle EXCEPT !.at = "timer", !.task = t].task = t
      BY DEF Idle
    <3>3. CASE flow[f].then = "startPolling"
      <4>1. r.flow = [ClearTimer(s, c) EXCEPT ![f] = Ask(s, "poll", t, "end")]
        BY <1>4, <3>3 DEF AfterRefresh
      <4>2. DOMAIN ClearTimer(s, c) = Flows
        BY DEF ClearTimer
      <4> QED
        BY <3>1, <4>1, <4>2
    <3>4. CASE flow[f].then = "schedule"
      <4>1. r.flow = [c EXCEPT ![f] = [Idle EXCEPT !.at = "timer", !.task = t]]
        BY <1>4, <3>4 DEF AfterRefresh
      <4> QED
        BY <1>4, <3>2, <4>1
    <3> QED
      BY <1>4, <1>8, <3>3, <3>4 DEF Flow, Thens
  <2>2. f \in Overtakes(f, r)
    BY <1>3, <1>4, <1>6, <1>8, <2>1, ClientAssumption DEF Overtakes
  <2> QED
    BY <1>2, <2>2
<1> QED
  BY <1>7, <1>8

(* Each step of the client keeps the calls with the session.               *)

LEMMA RefreshStepOwn ==
    ASSUME TypeInv, NEW f \in Flows, flow[f].at # "timer",
           NEW s \in Tab, NEW t \in {flow[f].task, NoTask}, NEW then \in Thens,
           s.token = tab.token, s.timer = tab.timer, s.user \in {tab.user, tab.token},
           SessionOK(tab) => SessionOK(s),
           then # "end" => t \in Tasks /\ status[t] # "absent",
           then # "end" => (Own(tab, flow, owner) => owner[t] = tab.token),
           then = "schedule" => Polls(flow[f]),
           Becomes(f, Refresh(s, flow, f, t, then)),
           Undisturbed => Own(tab, flow, owner), Undisturbed'
    PROVE  Own(tab', flow', owner')
<1> DEFINE r == Refresh(s, flow, f, t, then)
<1>1. Own(tab, flow, owner)
  BY StaysUndisturbed
<1>2. SessionOK(s)
  BY <1>1 DEF Own
<1>3. Own(r.tab, r.flow, owner)
  BY <1>1, <1>2, RefreshOwn
<1> HIDE DEF r
<1>4. tab' = r.tab /\ flow' = r.flow /\ owner' = owner
  BY DEF r, Becomes
<1> QED
  BY <1>3, <1>4

LEMMA GiveUpOwn ==
    ASSUME TypeInv, NEW f \in Flows, GiveUp(f), ~Loads(flow[f]), flow[f].at # "timer",
           Undisturbed => Own(tab, flow, owner), Undisturbed'
    PROVE  Own(tab', flow', owner')
<1> DEFINE r == [tab |-> tab, flow |-> [flow EXCEPT ![f] = Idle]]
<1>1. Becomes(f, r)
  BY DEF GiveUp
<1>2. Own(tab, flow, owner)
  BY <1>1, StaysUndisturbed
<1>3. OfSession(Idle, tab, owner) /\ ~Polls(Idle)
  BY IdleType DEF OfSession, Loads, Follows, Polls
<1>4. SessionOK(tab) /\ tab.timer # f /\ flow \in [Flows -> Flow]
  BY <1>2 DEF Own, TypeInv, TypeOK
<1>5. Own(tab, [flow EXCEPT ![f] = Idle], owner)
  BY <1>2, <1>3, <1>4, IdleType, OwnMoves
<1> QED
  BY <1>1, <1>5 DEF Becomes

(* A step of the client that starts a call.                                *)
LEMMA AtClientOwn ==
    ASSUME TypeInv, NEW f \in Flows, NEW g, AtClient, flow' = [flow EXCEPT ![f] = g],
           tab' = tab, ~Loads(flow[f]), flow[f].at # "timer", g.at \notin {"timer", "none"},
           ~Loads(g), ~Polls(g), ~Follows(g), g.at # "auth" => g.as = tab.token,
           Undisturbed => Own(tab, flow, owner), Undisturbed'
    PROVE  Own(tab', flow', owner')
<1>1. Own(tab, flow, owner) /\ owner' = owner
  BY DEF AtClient, Undisturbed
<1>2. SessionOK(tab) /\ tab.timer # f /\ flow \in [Flows -> Flow]
  BY <1>1 DEF Own, TypeInv, TypeOK
<1>3. OfSession(g, tab, owner)
  BY DEF OfSession, Loads
<1>4. Own(tab, [flow EXCEPT ![f] = g], owner)
  BY <1>1, <1>2, <1>3, OwnMoves
<1> QED
  BY <1>1, <1>4

LEMMA UserStepOwn ==
    ASSUME TypeInv, UserStep, Undisturbed => Own(tab, flow, owner), Undisturbed'
    PROVE  Own(tab', flow', owner')
<1>1. tab \in Tab /\ flow \in [Flows -> Flow]
  BY DEF TypeInv, TypeOK
<1>2. \A f \in Flows : flow[f] = Idle => ~Loads(flow[f]) /\ flow[f].at # "timer"
  BY IdleType DEF Loads
<1>3. ASSUME NEW f \in Flows, NEW u \in Users, SubmitLogin(f, u) PROVE Own(tab', flow', owner')
  <2> DEFINE g == [Idle EXCEPT !.at = "auth", !.as = u]
  <2>1. g.at = "auth" /\ g.then = "end"
    BY DEF Idle
  <2>2. flow[f] = Idle /\ flow' = [flow EXCEPT ![f] = g] /\ tab' = tab /\ AtClient
    BY <1>3 DEF SubmitLogin
  <2> HIDE DEF g
  <2> QED
    BY <1>2, <2>1, <2>2, AtClientOwn DEF Loads, Polls, Follows
<1>4. ASSUME NEW f \in Flows, SubmitAct(f) PROVE Own(tab', flow', owner')
  <2> DEFINE g == Ask(tab, "act", NoTask, "end")
  <2>1. g.at = "act" /\ g.then = "end" /\ g.as = tab.token
    BY DEF Ask
  <2>2. flow[f] = Idle /\ flow' = [flow EXCEPT ![f] = g] /\ tab' = tab /\ AtClient
    BY <1>4 DEF SubmitAct
  <2> HIDE DEF g
  <2> QED
    BY <1>2, <2>1, <2>2, AtClientOwn DEF Loads, Polls, Follows
<1>5. ASSUME NEW f \in Flows, NEW t \in Tasks, SubmitUpload(f, t)
      PROVE  Own(tab', flow', owner')
  <2> DEFINE g == Ask(tab, "upload", t, "startPolling")
  <2>1. g.at = "upload" /\ g.then = "startPolling" /\ g.as = tab.token
    BY DEF Ask
  <2>2. flow[f] = Idle /\ flow' = [flow EXCEPT ![f] = g] /\ tab' = tab /\ AtClient
    BY <1>5 DEF SubmitUpload
  <2> HIDE DEF g
  <2> QED
    BY <1>2, <2>1, <2>2, AtClientOwn DEF Loads, Polls, Follows
<1>6. ASSUME NEW f \in Flows, Navigate(f) PROVE Own(tab', flow', owner')
  <2>1. flow[f] = Idle /\ Becomes(f, Refresh(tab, flow, f, NoTask, "end"))
    BY <1>6 DEF Navigate
  <2> QED
    BY <1>1, <1>2, <2>1, RefreshStepOwn DEF Thens
<1>7. ASSUME NEW f \in Flows, Reload(f) PROVE Own(tab', flow', owner')
  <2> DEFINE s == [Served EXCEPT !.token = tab.token]
             g == Ask(s, "hydrate", NoTask, "end")
  <2>1. /\ s.token = tab.token /\ s.user = NoUser /\ s.panels = {"loading"} /\ s.timer = NoFlow
    BY DEF Served
  <2>2. owner' = owner
    BY <1>7 DEF Reload
  <2>3. CASE tab.token = NoUser
    <3>1. tab' = RenderRoute(s) /\ flow' = [k \in Flows |-> Idle]
      BY <1>7, <2>1, <2>3 DEF Reload
    <3>2. tab'.user = NoUser /\ tab'.panels = {"guest"} /\ tab'.timer = NoFlow
      BY <2>1, <3>1 DEF RenderRoute, RenderGuestState, Served
    <3> QED
      BY <3>1, <3>2, SignedOutOwn
  <2>4. CASE tab.token # NoUser
    <3>1. tab' = s /\ flow' = [[k \in Flows |-> Idle] EXCEPT ![f] = g]
      BY <1>7, <2>1, <2>4 DEF Reload
    <3>2. g.at = "hydrate" /\ g.then = "end" /\ g.as = tab.token
      BY <2>1 DEF Ask
    <3> HIDE DEF s, g
    <3>3. \A k \in Flows : flow'[k] = IF k = f THEN g ELSE Idle
      BY <3>1
    <3> QED
      BY <2>1, <2>4, <3>1, <3>2, <3>3, IdleType, ClientAssumption
      DEF Own, SessionOK, OfSession, Loads, Polls, Follows
  <2> QED
    BY <2>3, <2>4
<1>8. CASE ClickLogout
  <2> DEFINE c == ClearTimer(tab, flow)
             r == [tab |-> Logout(tab), flow |-> c]
  <2>1. Becomes(NoFlow, r)
    BY <1>8 DEF ClickLogout
  <2>2. Own(tab, flow, owner) /\ \A g \in Flows : g \notin Overtakes(NoFlow, r)
    BY <2>1, StaysUndisturbed
  <2>3. /\ r.tab.token = NoUser /\ r.tab.user = NoUser /\ r.tab.panels = {"guest"}
        /\ r.tab.timer = NoFlow
    BY LogoutType
  <2>4. tab' = r.tab /\ flow' = c /\ owner' = owner
    BY <2>1 DEF Becomes
  <2> HIDE DEF r
  <2>5. CASE tab.token # NoUser
    <3>1. \A g \in Flows : c[g] = Idle
      BY <2>2, <2>3, <2>5, LogoutOwn, ClientAssumption
    <3> QED
      BY <2>3, <2>4, <3>1, SignedOutOwn
  <2>6. CASE tab.token = NoUser
    <3>1. \A k \in Flows : c[k] = IF k = tab.timer THEN Idle ELSE flow[k]
      BY DEF ClearTimer
    <3> QED
      BY <2>2, <2>3, <2>4, <2>6, <3>1, IdleType, ClientAssumption
      DEF Own, SessionOK, Shown, OfSession, Loads, Polls, Follows
  <2> QED
    BY <2>5, <2>6
<1> QED
  BY <1>3, <1>4, <1>5, <1>6, <1>7, <1>8 DEF UserStep

(* Somebody signs in where nobody was, or once more.                       *)
LEMMA SignedInOwn ==
    ASSUME TypeInv, NEW f \in Flows, ReceiveAuth(f), ~GiveUp(f),
           Undisturbed => Own(tab, flow, owner), Undisturbed'
    PROVE  Own(tab', flow', owner')
<1> DEFINE u == flow[f].as
           s == [tab EXCEPT !.token = u, !.user = u, !.polled = NoTask]
           g == Ask(s, "me", NoTask, "end")
           r == Refresh(s, flow, f, NoTask, "end")
<1>1. flow[f].at = "auth" /\ u # NoUser /\ Becomes(f, r)
  BY DEF ReceiveAuth, Granted, Authorized
<1>2. Own(tab, flow, owner) /\ \A k \in Flows : k \notin Overtakes(f, r)
  BY <1>1, StaysUndisturbed
<1>3. /\ s.token = u /\ s.user = u /\ s.panels = tab.panels /\ s.timer = tab.timer
      /\ flow \in [Flows -> Flow] /\ tab.timer # f
  BY <1>1, <1>2 DEF TypeInv, TypeOK, Tab, Own
<1>4. g.at = "me" /\ g.then = "end" /\ g.as = u
  BY <1>3 DEF Ask
<1>5. r = [tab |-> s, flow |-> [flow EXCEPT ![f] = g]]
  BY <1>1, <1>3 DEF Refresh
<1> HIDE DEF s, g, r
<1>6. tab' = s /\ flow' = [flow EXCEPT ![f] = g] /\ owner' = owner
  BY <1>1, <1>5 DEF Becomes
<1>7. r.tab.token = u
  BY <1>3, <1>5
<1>8. Loads(g) /\ ~Polls(g) /\ ~Follows(g)
  BY <1>4 DEF Loads, Polls, Follows
<1>9. OfSession(g, s, owner)
  BY <1>1, <1>3, <1>4, <1>8 DEF OfSession
<1>10. CASE tab.token = u
  <2>1. SessionOK(s)
    BY <1>2, <1>3, <1>10, ClientAssumption DEF Own, SessionOK
  <2>2. Own(s, [flow EXCEPT ![f] = g], owner)
    BY <1>2, <1>3, <1>4, <1>8, <1>9, <1>10, <2>1, OwnMoves
  <2> QED
    BY <1>6, <2>2
<1>11. CASE tab.token = NoUser
  <2>1. ASSUME NEW k \in Flows, k # f PROVE flow[k] = Idle
    <3>1. flow[k].at \in {"none", "timer"}
      BY <1>1, <1>2, <1>7, <1>11, <2>1 DEF Overtakes, Waiting
    <3>2. FlowOK(flow[k], status, owner)
      BY DEF TypeInv, FlowsOK
    <3>3. flow[k].at # "timer"
      <4>1. SUFFICES ASSUME flow[k].at = "timer" PROVE FALSE
        OBVIOUS
      <4>2. flow[k].task \in Tasks /\ status[flow[k].task] # "absent"
        BY <3>2, <4>1 DEF FlowOK, Follows
      <4>3. owner[flow[k].task] = NoUser
        BY <1>2, <1>11, <4>1 DEF Own, OfSession, Follows
      <4> QED
        BY <4>2, <4>3 DEF TypeInv, ServerOK
    <3> QED
      BY <3>1, <3>2, <3>3 DEF FlowOK
  <2>2. \A k \in Flows : flow'[k] = IF k = f THEN g ELSE Idle
    BY <1>3, <1>6, <2>1
  <2>3. SessionOK(s)
    BY <1>2, <1>3, <1>11, ClientAssumption DEF Own, SessionOK
  <2>4. \A k \in Flows : flow'[k].at # "timer" /\ s.timer # k
    BY <1>2, <1>3, <1>4, <2>1, <2>2, IdleType DEF Own
  <2>5. \A k \in Flows : OfSession(flow'[k], s, owner)
    BY <1>9, <2>2, IdleType DEF OfSession, Loads, Follows
  <2>6. \A k \in Flows : Polls(flow'[k]) => k = f
    BY <2>2, IdleType DEF Polls
  <2>7. Loads(flow'[f])
    BY <1>8, <2>2
  <2> HIDE DEF u
  <2>8. Own(s, flow', owner)
    BY <2>3, <2>4, <2>5, <2>6, <2>7 DEF Own
  <2> QED
    BY <1>6, <2>8
<1>12. CASE tab.token \notin {u, NoUser}
  BY <1>1, <1>2, <1>7, <1>12 DEF Overtakes
<1> QED
  BY <1>10, <1>11, <1>12

LEMMA ReceiveOwn ==
    ASSUME TypeInv, NEW f \in Flows, Receive(f),
           Undisturbed => Own(tab, flow, owner), Undisturbed'
    PROVE  Own(tab', flow', owner')
<1>1. /\ tab \in Tab /\ flow[f] \in Flow /\ FlowOK(flow[f], status, owner)
      /\ flow[f].then \in Thens /\ flow \in [Flows -> Flow]
      /\ \A x \in Tasks : status[x] = "absent" <=> owner[x] = NoUser
  BY DEF TypeInv, TypeOK, FlowsOK, Flow, ServerOK
<1>2. Authorized(f) => flow[f].as \in Users
  BY <1>1 DEF Authorized, Flow
<1>3. CASE ReceiveAuth(f)
  BY <1>3, GiveUpOwn, SignedInOwn DEF ReceiveAuth, Loads
<1>4. CASE SignedOut(f) /\ Loads(flow[f])
  BY <1>4, SignedOutStepOwn
<1>5. CASE ReceiveHydrate(f) /\ ~SignedOut(f)
  <2> DEFINE s == [tab EXCEPT !.user = flow[f].as]
  <2>1. flow[f].at = "hydrate" /\ Becomes(f, Refresh(s, flow, f, NoTask, "end"))
    BY <1>5 DEF ReceiveHydrate
  <2>2. Own(tab, flow, owner)
    BY <2>1, StaysUndisturbed
  <2>3. flow[f].as = tab.token
    BY <2>1, <2>2 DEF Own, OfSession
  <2>4. /\ s \in Tab /\ s.token = tab.token /\ s.timer = tab.timer /\ s.user = tab.token
        /\ s.panels = tab.panels
    BY <1>1, <2>3 DEF Tab
  <2>5. SessionOK(s)
    BY <2>2, <2>4, ClientAssumption DEF Own, SessionOK
  <2> HIDE DEF s
  <2> QED
    BY <2>1, <2>2, <2>4, <2>5, RefreshStepOwn DEF Thens
<1>6. CASE ReceiveMe(f) /\ ~SignedOut(f)
  <2> DEFINE s == RenderSession([tab EXCEPT !.user = flow[f].as])
             place == IF IsAdmin(s.user) THEN "adminData" ELSE "userData"
             g == Ask(s, place, flow[f].task, flow[f].then)
             r == [tab |-> s, flow |-> [flow EXCEPT ![f] = g]]
  <2>1. flow[f].at = "me" /\ Becomes(f, r) /\ flow[f].as \in Users
    BY <1>2, <1>6 DEF ReceiveMe, Granted
  <2>2. Own(tab, flow, owner)
    BY <2>1, StaysUndisturbed
  <2>3. flow[f].as = tab.token /\ tab.token \in Users
    BY <2>1, <2>2 DEF Own, OfSession
  <2>4. /\ s.token = tab.token /\ s.timer = tab.timer /\ s.user = tab.token
        /\ s.panels = {IF IsAdmin(tab.token) THEN "studio" ELSE "workspace"}
    BY <1>1, <2>3 DEF RenderSession, Tab
  <2>5. /\ g.at = (IF IsAdmin(tab.token) THEN "adminData" ELSE "userData")
        /\ g.as = tab.token /\ g.task = flow[f].task /\ g.then = flow[f].then
    BY <2>4 DEF Ask
  <2>6. tab' = s /\ flow' = [flow EXCEPT ![f] = g] /\ owner' = owner
    BY <2>1 DEF Becomes
  <2> HIDE DEF s, g
  <2>7. SessionOK(s)
    BY <2>3, <2>4 DEF SessionOK, IsAdmin
  <2>8. OfSession(flow[f], tab, owner) /\ tab.timer # f
    BY <2>1, <2>2 DEF Own
  <2>9. OfSession(g, s, owner)
    BY <2>1, <2>3, <2>4, <2>5, <2>8, ClientAssumption DEF OfSession, Loads, Follows, IsAdmin
  <2>10. Loads(g) /\ (Polls(g) => Polls(flow[f])) /\ g.at # "timer"
    BY <2>5 DEF Loads, Polls
  <2>11. Own(s, [flow EXCEPT ![f] = g], owner)
    BY <1>1, <2>2, <2>4, <2>7, <2>8, <2>9, <2>10, OwnMoves
  <2> QED
    BY <2>6, <2>11
<1>7. CASE (ReceiveUserData(f) \/ ReceiveAdminData(f)) /\ ~SignedOut(f)
  <2>1. PICK s : /\ \/ flow[f].at = "userData" /\ s = [tab EXCEPT !.userOf = flow[f].as]
                    \/ /\ flow[f].at = "adminData"
                       /\ s = [tab EXCEPT !.adminOf = flow[f].as, !.panels = @ \cup {"studio"}]
                 /\ Becomes(f, AfterRefresh(s, flow, f))
    BY <1>7 DEF ReceiveUserData, ReceiveAdminData
  <2> DEFINE r == AfterRefresh(s, flow, f)
  <2>2. Own(tab, flow, owner) /\ \A k \in Flows : k \notin Overtakes(f, r)
    BY <2>1, StaysUndisturbed
  <2>3. /\ flow[f].as = tab.token /\ tab.user = tab.token /\ tab.token # NoUser
        /\ flow[f].at = "userData" => tab.token \notin AdminUsers
        /\ flow[f].at = "adminData" => tab.token \in AdminUsers
        /\ SessionOK(tab)
    BY <2>1, <2>2 DEF Own, OfSession, Loads
  <2>4. /\ s.token = tab.token /\ s.user = tab.token /\ s.timer = tab.timer
        /\ s.polled = tab.polled
        /\ flow[f].at = "userData" => s.panels = tab.panels /\ s.userOf = tab.token
        /\ flow[f].at = "adminData" => s.panels = tab.panels \cup {"studio"} /\ s.adminOf = tab.token
    BY <1>1, <2>1, <2>3 DEF Tab
  <2>5. s \in Tab
    <3>1. tab.token \in Users /\ tab.panels \cup {"studio"} \in SUBSET Panels
      BY <1>1, <2>3 DEF Tab, Panels
    <3>2. CASE s = [tab EXCEPT !.userOf = flow[f].as]
      BY <1>1, <2>3, <3>1, <3>2 DEF Tab
    <3>3. CASE s = [tab EXCEPT !.adminOf = flow[f].as, !.panels = @ \cup {"studio"}]
      BY <1>1, <2>3, <3>1, <3>3 DEF Tab
    <3> QED
      BY <2>1, <3>2, <3>3
  <2>6. SessionOK(s) /\ Shown(s)
    BY <2>1, <2>3, <2>4 DEF SessionOK, Shown
  <2>7. Own(s, flow, owner)
    <3>1. Loads(flow[f])
      BY <2>1 DEF Loads
    <3>2. \A k \in Flows : OfSession(flow[k], s, owner)
      BY <2>2, <2>3, <2>4 DEF Own, OfSession
    <3>3. \A k \in Flows : flow[k].at = "timer" <=> s.timer = k
      BY <2>2, <2>4 DEF Own
    <3> QED
      BY <2>2, <2>6, <3>1, <3>2, <3>3 DEF Own
  <2>8. ASSUME flow[f].then = "startPolling", NEW k \in Flows, k # f, Polls(flow[k])
        PROVE  k = s.timer
    <3> DEFINE t == flow[f].task
               c == ClearTimer(s, flow)
               a == Ask(s, "poll", t, "end")
               s2 == [s EXCEPT !.polled = IF s.token = NoUser THEN NoTask ELSE t, !.timer = NoFlow]
    <3>1. SUFFICES ASSUME k # s.timer PROVE FALSE
      OBVIOUS
    <3>2. r.tab = s2 /\ r.flow = [c EXCEPT ![f] = a]
      BY <2>8 DEF AfterRefresh
    <3>3. s2.polled = t /\ s2.token = tab.token
      BY <2>3, <2>4, <2>5 DEF Tab
    <3>4. t # tab.polled /\ t \in Tasks
      BY <1>1, <2>1, <2>8 DEF TypeInv, TabOK, FlowOK, Follows
    <3>5. c[k] = flow[k] /\ DOMAIN c = Flows
      BY <3>1 DEF ClearTimer
    <3> HIDE DEF c, a, s2
    <3>6. r.flow[k] = flow[k]
      BY <2>8, <3>2, <3>5
    <3>7. flow[k] # Idle /\ Polling(k)
      BY <2>8, IdleType DEF Polls, Polling
    <3>8. k \in Overtakes(f, r)
      BY <2>8, <3>2, <3>3, <3>4, <3>6, <3>7, ClientAssumption DEF Overtakes
    <3> QED
      BY <2>2, <3>8
  <2>9. Own(r.tab, r.flow, owner)
    BY <1>1, <2>1, <2>5, <2>6, <2>7, <2>8, AfterRefreshOwn
  <2> HIDE DEF r
  <2>10. tab' = r.tab /\ flow' = r.flow /\ owner' = owner
    BY <2>1 DEF Becomes, r
  <2> QED
    BY <2>9, <2>10
<1>8. CASE ReceiveAct(f)
  <2>1. flow[f].at = "act"
    BY <1>8 DEF ReceiveAct
  <2> QED
    BY <1>1, <1>8, <2>1, GiveUpOwn, RefreshStepOwn DEF ReceiveAct, Loads, Thens
<1>9. CASE ReceiveUpload(f) \/ ReceivePoll(f)
  <2> DEFINE t == flow[f].task
             s == ShowStatus(tab, t, flow[f].answer)
  <2>1. flow[f].at \in {"upload", "poll"}
    BY <1>9 DEF ReceiveUpload, ReceivePoll
  <2>2. CASE GiveUp(f)
    BY <2>1, <2>2, GiveUpOwn DEF Loads
  <2>3. CASE ~GiveUp(f)
    <3>1. flow[f].answer \in {"open", "completed", "failed"}
      BY <1>9, <2>3 DEF ReceiveUpload, ReceivePoll, Arrives
    <3>2. t \in Tasks /\ status[t] # "absent"
      BY <1>1, <2>1, <3>1 DEF FlowOK, Follows
    <3>3. /\ s \in Tab /\ s.token = tab.token /\ s.timer = tab.timer /\ s.user = tab.user
          /\ s.panels = tab.panels
      BY <1>1, <3>1, <3>2 DEF ShowStatus, Tab
    <3>4. Own(tab, flow, owner) => owner[t] = tab.token
      BY <1>1, <2>1, <3>1 DEF FlowOK, Own, OfSession, Follows
    <3>5. SessionOK(tab) => SessionOK(s)
      BY <3>3 DEF SessionOK
    <3>6. PICK x \in {NoTask, t}, then \in Thens :
             /\ Becomes(f, Refresh(s, flow, f, x, then))
             /\ then # "end" => x = t
             /\ then = "schedule" => flow[f].at = "poll"
      BY <1>9, <2>3 DEF ReceiveUpload, ReceivePoll, Thens
    <3>7. flow[f].at = "poll" => Polls(flow[f])
      BY DEF Polls
    <3> HIDE DEF s, t
    <3>8. x \in {flow[f].task, NoTask}
      BY DEF t
    <3> QED
      BY <2>1, <3>2, <3>3, <3>4, <3>5, <3>6, <3>7, <3>8, RefreshStepOwn
  <2> QED
    BY <2>2, <2>3
<1> QED
  BY <1>3, <1>4, <1>5, <1>6, <1>7, <1>8, <1>9
  DEF Receive, ReceiveHydrate, ReceiveMe, ReceiveUserData, ReceiveAdminData, Loads

LEMMA TimerFiresOwn ==
    ASSUME TypeInv, NEW f \in Flows, TimerFires(f),
           Undisturbed => Own(tab, flow, owner), Undisturbed'
    PROVE  Own(tab', flow', owner')
<1> DEFINE g == Ask(tab, "poll", flow[f].task, "end")
<1>1. /\ flow[f].at = "timer" /\ flow' = [flow EXCEPT ![f] = g] /\ owner' = owner
      /\ tab' = [tab EXCEPT !.timer = IF @ = f THEN NoFlow ELSE @]
      /\ Own(tab, flow, owner) /\ tab \in Tab /\ flow \in [Flows -> Flow]
  BY DEF TimerFires, AtClient, Undisturbed, TypeInv, TypeOK
<1>2. tab.timer = f /\ OfSession(flow[f], tab, owner) /\ SessionOK(tab)
  BY <1>1 DEF Own
<1>3. /\ tab'.timer = NoFlow /\ tab'.token = tab.token /\ tab'.user = tab.user
      /\ tab'.panels = tab.panels /\ tab'.userOf = tab.userOf /\ tab'.adminOf = tab.adminOf
  BY <1>1, <1>2 DEF Tab
<1>4. g.at = "poll" /\ g.task = flow[f].task /\ g.as = tab.token /\ g.then = "end"
  BY DEF Ask
<1> HIDE DEF g
<1>5. \A k \in Flows : flow'[k] = IF k = f THEN g ELSE flow[k]
  BY <1>1
<1>6. SessionOK(tab')
  BY <1>2, <1>3 DEF SessionOK
<1>7. \A k \in Flows : OfSession(flow'[k], tab', owner')
  <2>1. owner[flow[f].task] = tab.token
    BY <1>1, <1>2 DEF OfSession, Follows
  <2>2. OfSession(g, tab', owner')
    BY <1>1, <1>3, <1>4, <2>1 DEF OfSession, Loads
  <2>3. \A k \in Flows : OfSession(flow[k], tab', owner')
    BY <1>1, <1>3 DEF Own, OfSession
  <2> QED
    BY <1>5, <2>2, <2>3
<1>8. \A k \in Flows : flow'[k].at # "timer" /\ tab'.timer # k
  BY <1>1, <1>2, <1>3, <1>4, <1>5, ClientAssumption DEF Own
<1>9. \A k, l \in Flows : Polls(flow'[k]) /\ Polls(flow'[l]) => k = l
  BY <1>1, <1>5 DEF Own, Polls
<1>10. (\A k \in Flows : ~Loads(flow'[k])) => Shown(tab')
  BY <1>1, <1>3, <1>5 DEF Own, Shown, Loads
<1> QED
  BY <1>6, <1>7, <1>8, <1>9, <1>10 DEF Own

(* The service answers, or goes on with a task of the same owner.          *)
LEMMA ServedOwn ==
    ASSUME TypeInv, Undisturbed => Own(tab, flow, owner), Undisturbed',
           UNCHANGED <<tab, overtaken>>,
           \A k \in Flows : /\ flow'[k].at = flow[k].at /\ flow'[k].task = flow[k].task
                            /\ flow'[k].then = flow[k].then /\ flow'[k].as = flow[k].as,
           \A x \in Tasks : status[x] # "absent" => owner'[x] = owner[x]
    PROVE  Own(tab', flow', owner')
<1>1. Own(tab, flow, owner) /\ tab' = tab
  BY DEF Undisturbed
<1>2. \A k \in Flows : OfSession(flow'[k], tab', owner')
  <2> SUFFICES ASSUME NEW k \in Flows PROVE OfSession(flow'[k], tab, owner')
    BY <1>1
  <2>1. OfSession(flow[k], tab, owner) /\ FlowOK(flow[k], status, owner)
    BY <1>1 DEF Own, TypeInv, FlowsOK
  <2>2. Follows(flow'[k]) => owner'[flow'[k].task] = tab.token
    BY <2>1 DEF Follows, FlowOK, OfSession
  <2> QED
    BY <2>1, <2>2 DEF OfSession, Loads
<1>3. \A k \in Flows : /\ Loads(flow'[k]) <=> Loads(flow[k])
                       /\ Polls(flow'[k]) <=> Polls(flow[k])
                       /\ flow'[k].at = "timer" <=> flow[k].at = "timer"
  BY DEF Loads, Polls
<1> QED
  BY <1>1, <1>2, <1>3 DEF Own

LEMMA ServerOwn ==
    ASSUME TypeInv, (\E f \in Flows : ServeUpload(f) \/ ServePoll(f))
                    \/ (\E t \in Tasks : Settle(t) \/ Reopen(t)),
           Undisturbed => Own(tab, flow, owner), Undisturbed'
    PROVE  Own(tab', flow', owner')
<1>1. flow \in [Flows -> Flow] /\ owner \in [Tasks -> Users \cup {NoUser}]
  BY DEF TypeInv, TypeOK
<1>2. ASSUME NEW f \in Flows, NEW a, Reply(f, a)
      PROVE  /\ \A k \in Flows : /\ flow'[k].at = flow[k].at /\ flow'[k].task = flow[k].task
                                 /\ flow'[k].then = flow[k].then /\ flow'[k].as = flow[k].as
             /\ UNCHANGED <<tab, overtaken>>
  BY <1>1, <1>2 DEF Reply, Flow
<1>3. ASSUME NEW f \in Flows, ServeUpload(f) PROVE Own(tab', flow', owner')
  <2>1. PICK a \in {"error", "open", "failed"} : Reply(f, a)
    BY <1>3 DEF ServeUpload
  <2>2. \A x \in Tasks : status[x] # "absent" => owner'[x] = owner[x]
    <3>1. flow[f].at = "upload" /\ flow[f].answer = "none"
      BY <1>3 DEF ServeUpload, Asked
    <3>2. status[flow[f].task] = "absent"
      BY <3>1 DEF TypeInv, FlowsOK, FlowOK
    <3>3. owner' = owner \/ owner' = [owner EXCEPT ![flow[f].task] = flow[f].as]
      BY <1>3 DEF ServeUpload
    <3> QED
      BY <1>1, <3>2, <3>3
  <2> QED
    BY <1>2, <2>1, <2>2, ServedOwn
<1>4. ASSUME NEW f \in Flows, ServePoll(f) PROVE Own(tab', flow', owner')
  <2>1. PICK a : Reply(f, a)
    BY <1>4 DEF ServePoll
  <2>2. owner' = owner
    BY <1>4 DEF ServePoll
  <2> QED
    BY <1>2, <2>1, <2>2, ServedOwn
<1>5. ASSUME NEW t \in Tasks, Settle(t) \/ Reopen(t) PROVE Own(tab', flow', owner')
  BY <1>5, ServedOwn DEF Settle, Reopen
<1> QED
  BY <1>3, <1>4, <1>5

LEMMA OwnStep == Inv /\ [Next]_vars => Inv'
<1> SUFFICES ASSUME Inv, [Next]_vars, Undisturbed' PROVE Own(tab', flow', owner')
  BY TypeStep DEF Inv, Own
<1>1. TypeInv /\ (Undisturbed => Own(tab, flow, owner))
  BY DEF Inv
<1>2. CASE UNCHANGED vars
  BY <1>1, <1>2 DEF vars, Undisturbed
<1>3. CASE UserStep
  BY <1>1, <1>3, UserStepOwn
<1>4. ASSUME NEW f \in Flows, FlowStep(f) PROVE Own(tab', flow', owner')
  BY <1>1, <1>4, ServerOwn, ReceiveOwn, TimerFiresOwn DEF FlowStep
<1>5. ASSUME NEW t \in Tasks, Settle(t) \/ Reopen(t) PROVE Own(tab', flow', owner')
  BY <1>1, <1>5, ServerOwn
<1> QED
  BY <1>2, <1>3, <1>4, <1>5 DEF Next

LEMMA InvHolds == Spec => []Inv
BY InitOwn, OwnStep, PTL DEF Spec

(* As long as no call has been overtaken, the session that is shown is the *)
(* one whose token is sent, and the panel belongs to its role              *)
(* (renderSession, renderAdmin, logout).                                   *)
THEOREM ShownSessionIsTheTokens == Spec => []SessionIsShown
<1>1. Inv => SessionIsShown
  BY DEF Inv, Own, SessionOK, SessionIsShown
<1> QED
  BY <1>1, InvHolds, PTL

(* As long as no call has been overtaken, the tables of the visible panel  *)
(* are those of the session, unless a refresh is under way                 *)
(* (refreshWorkspace).                                                     *)
THEOREM ShownTablesAreTheTokens == Spec => []OwnDataIsShown
<1>1. Inv => OwnDataIsShown
  BY DEF Inv, Own, Shown, Loads, Loading, OwnDataIsShown
<1> QED
  BY <1>1, InvHolds, PTL

(* As long as no call has been overtaken, a task is only polled in the     *)
(* session of its owner (startTaskPolling, poll, logout).                  *)
THEOREM PollingIsTheOwners == Spec => []PollsOwnTasks
<1>1. Inv => PollsOwnTasks
  <2> SUFFICES ASSUME Inv, Undisturbed, NEW f \in Flows, Polling(f)
               PROVE  owner[flow[f].task] = tab.token
    BY DEF PollsOwnTasks
  <2>1. OfSession(flow[f], tab, owner) /\ FlowOK(flow[f], status, owner)
    BY DEF Inv, Own, TypeInv, FlowsOK
  <2>2. Follows(flow[f])
    BY <2>1 DEF Polling, Follows, FlowOK
  <2> QED
    BY <2>1, <2>2 DEF OfSession
<1> QED
  BY <1>1, InvHolds, PTL

=============================================================================
