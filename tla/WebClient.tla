------------------------------- MODULE WebClient -------------------------------
(***************************************************************************)
(* The web cabinet (web_static/app.js): one browser tab, its session, the  *)
(* panels it shows and the asynchronous functions that wait for answers.   *)
(*                                                                         *)
(* JavaScript runs to completion, so a step is what a function does from   *)
(* one await to the next.  A function that waits keeps nothing of the      *)
(* state but goes on with whatever state it then finds: the session may    *)
(* have ended or changed, and a newer polling may have started.  A flow is *)
(* one such call chain, or a polling timer.                                *)
(*                                                                         *)
(* A token is modelled as the user it was issued to: sessions never expire *)
(* and the server drops none.  localStorage holds what state.token holds.  *)
(* The service is TaskLifecycle, which the task pipeline implements.       *)
(***************************************************************************)
EXTENDS Integers

CONSTANTS
    Users, Tasks,
    AdminUsers,  \* the users whose role is admin
    Flows,       \* bound: calls and timers that wait at the same time
    NoUser, NoTask, NoFlow,
    MaxErrors,   \* bound: requests whose answer is lost or that do not arrive
    MaxReopens   \* bound: failed tasks that a redelivered message takes up again

ASSUME ClientAssumption ==
    /\ AdminUsers \subseteq Users
    /\ NoUser \notin Users
    /\ NoTask \notin Tasks
    /\ NoFlow \notin Flows
    /\ MaxErrors \in Nat /\ MaxReopens \in Nat

Places  == {"none", "auth", "hydrate", "me", "userData", "adminData",
            "act", "upload", "poll", "timer"}
Thens   == {"end", "startPolling", "schedule"}
Answers == {"none", "error", "open", "completed", "failed"}
Panels  == {"loading", "guest", "workspace", "studio"}

VARIABLES
    tab,      \* the global state of app.js and what the page shows
    flow,     \* of each flow: where it waits, for which task, on whose behalf
    status,   \* of each task at the server
    paid,     \* what each task has cost (TaskLifecycle)
    owner,    \* of each task at the server
    errors, reopens,
    overtaken \* by a change of session or a new polling, since the page was loaded

vars == <<tab, flow, status, paid, owner, errors, reopens, overtaken>>

Tab ==
    [token : Users \cup {NoUser},      \* state.token, and localStorage
     user : Users \cup {NoUser},       \* state.user
     timer : Flows \cup {NoFlow},      \* state.pollTimer
     polled : Tasks \cup {NoTask},     \* what this session has started to poll last
     panels : SUBSET Panels,           \* the sections that are not hidden
     userOf : Users \cup {NoUser},     \* whose balance and histories the workspace holds
     adminOf : Users \cup {NoUser},    \* for whom the studio's tables were loaded
     shownTask : Tasks \cup {NoTask},  \* what the prediction status is about
     shownStatus : {"none", "open", "completed", "failed"}]

Flow ==
    [at : Places,
     task : Tasks \cup {NoTask},
     as : Users \cup {NoUser},         \* the token the request went out with
     then : Thens,                     \* what follows refreshWorkspace
     answer : Answers]

Idle == [at |-> "none", task |-> NoTask, as |-> NoUser, then |-> "end", answer |-> "none"]

TypeOK ==
    /\ tab \in Tab
    /\ flow \in [Flows -> Flow]
    /\ status \in [Tasks -> {"absent", "open", "completed", "failed"}]
    /\ paid \in [Tasks -> {0, 1}]
    /\ owner \in [Tasks -> Users \cup {NoUser}]
    /\ errors \in Nat /\ reopens \in Nat
    /\ overtaken \in {"nothing", "call", "hydration"}

Served ==
    [token |-> NoUser, user |-> NoUser, timer |-> NoFlow, polled |-> NoTask,
     panels |-> {"loading"}, userOf |-> NoUser, adminOf |-> NoUser,
     shownTask |-> NoTask, shownStatus |-> "none"]

(* The service as the task pipeline's users see it, one record an upload.  *)
Ones == [t \in Tasks |-> 1]

Service == INSTANCE TaskLifecycle WITH state <- status, Accepted <- Ones, Price <- Ones

(* The page of somebody without a stored token, hydrated.                  *)
Init ==
    /\ tab = [Served EXCEPT !.panels = {"guest"}]
    /\ flow = [f \in Flows |-> Idle]
    /\ Service!LifeInit
    /\ owner = [t \in Tasks |-> NoUser]
    /\ errors = 0 /\ reopens = 0
    /\ overtaken = "nothing"


-----------------------------------------------------------------------------
(* What the functions of app.js that do not wait do to the tab.            *)

IsAdmin(u) == u \in AdminUsers

RenderGuestState(s) == [s EXCEPT !.user = NoUser, !.panels = {"guest"}]

RenderSession(s) ==
    [s EXCEPT !.panels = {IF IsAdmin(s.user) THEN "studio" ELSE "workspace"}]

RenderRoute(s) == IF s.user # NoUser THEN RenderSession(s) ELSE RenderGuestState(s)

(* clearTimeout(state.pollTimer).                                          *)
ClearTimer(s, flows) ==
    [f \in Flows |-> IF f = s.timer THEN Idle ELSE flows[f]]

(* Mutant: the panels are hidden, but the session is not taken back.       *)
Logout_KeepsUser(s) ==
    [s EXCEPT !.token = NoUser, !.timer = NoFlow, !.polled = NoTask,
              !.panels = {"guest"}]

Logout(s) == RenderGuestState([s EXCEPT !.token = NoUser, !.timer = NoFlow, !.polled = NoTask])

ShowStatus(s, t, what) == [s EXCEPT !.shownTask = t, !.shownStatus = what]

(* A request of f: the token of the moment goes with it.                   *)
Ask(s, place, t, then) ==
    [at |-> place, task |-> t, as |-> s.token, then |-> then, answer |-> "none"]

(* Mutant: poll sets no second timer while there is one.                   *)
AfterRefresh_OneTimer(s, flows, f) ==
    LET t == flows[f].task
    IN  CASE flows[f].then = "end" \/ (flows[f].then = "schedule" /\ s.timer # NoFlow) ->
               [tab |-> s, flow |-> [flows EXCEPT ![f] = Idle]]
          [] flows[f].then = "startPolling" ->
               [tab |-> [s EXCEPT !.polled = IF s.token = NoUser THEN NoTask ELSE t,
                                  !.timer = NoFlow],
                flow |-> [ClearTimer(s, flows) EXCEPT ![f] = Ask(s, "poll", t, "end")]]
          [] OTHER ->
               [tab |-> [s EXCEPT !.timer = f],
                flow |-> [flows EXCEPT ![f] =
                             [Idle EXCEPT !.at = "timer", !.task = t]]]

(* startTaskPolling, or the end of poll, once refreshWorkspace is over.    *)
AfterRefresh(s, flows, f) ==
    LET t == flows[f].task
    IN  CASE flows[f].then = "end" ->
               [tab |-> s, flow |-> [flows EXCEPT ![f] = Idle]]
          [] flows[f].then = "startPolling" ->
               [tab |-> [s EXCEPT !.polled = IF s.token = NoUser THEN NoTask ELSE t,
                                  !.timer = NoFlow],
                flow |-> [ClearTimer(s, flows) EXCEPT ![f] = Ask(s, "poll", t, "end")]]
          [] flows[f].then = "schedule" ->
               [tab |-> [s EXCEPT !.timer = f],
                flow |-> [flows EXCEPT ![f] =
                             [Idle EXCEPT !.at = "timer", !.task = t]]]

(* refreshWorkspace up to its first await.                                 *)
Refresh(s, flows, f, t, then) ==
    LET asked == [flows EXCEPT ![f] = Ask(s, "me", t, then)]
    IN  IF s.token = NoUser
        THEN AfterRefresh(RenderRoute(s), asked, f)
        ELSE [tab |-> s, flow |-> asked]

-----------------------------------------------------------------------------
(* When a step of f changes the session or the polling, the calls still    *)
(* waiting have been overtaken: those of other flows, and what f itself    *)
(* goes on with; a login that was submitted twice overtakes itself.        *)

Waiting(f) == flow[f].at \notin {"none", "timer"}

Polling(f) == flow[f].at \in {"poll", "timer"} \/ flow[f].then = "schedule"

(* The calls that the step of f to result r overtakes.                     *)
Overtakes(f, r) ==
    {g \in Flows :
        \/ /\ r.tab.token # tab.token
           /\ IF g = f
              THEN r.flow[g].task # NoTask \/ NoUser \notin {tab.token, r.tab.token}
              ELSE Waiting(g)
        \/ /\ r.tab.polled \notin {tab.polled, NoTask}
           /\ g # f /\ Polling(g) /\ r.flow[g] # Idle}

(* The tab and the flows become those of result r.                         *)
Becomes(f, r) ==
    /\ tab' = r.tab
    /\ flow' = r.flow
    /\ overtaken' = IF \E g \in Overtakes(f, r) : flow[g].at = "hydrate" THEN "hydration"
                    ELSE IF overtaken = "nothing" /\ Overtakes(f, r) # {} THEN "call"
                    ELSE overtaken
    /\ UNCHANGED <<status, paid, owner, reopens>>

AtClient == UNCHANGED <<status, paid, owner, errors, reopens, overtaken>>

-----------------------------------------------------------------------------
(* What the user does.                                                     *)

(* The login form, or the registration form: not disabled while it waits.  *)
SubmitLogin(f, u) ==
    /\ "guest" \in tab.panels
    /\ flow[f] = Idle
    /\ flow' = [flow EXCEPT ![f] = [Idle EXCEPT !.at = "auth", !.as = u]]
    /\ UNCHANGED tab
    /\ AtClient

(* The top-up form, the OpenAI form, and the buttons of the studio.        *)
SubmitAct(f) ==
    /\ tab.panels \cap {"workspace", "studio"} # {}
    /\ flow[f] = Idle
    /\ flow' = [flow EXCEPT ![f] = Ask(tab, "act", NoTask, "end")]
    /\ UNCHANGED tab
    /\ AtClient

SubmitUpload(f, t) ==
    /\ "workspace" \in tab.panels
    /\ flow[f] = Idle
    /\ status[t] = "absent"
    /\ \A g \in Flows : flow[g].task # t
    /\ flow' = [flow EXCEPT ![f] = Ask(tab, "upload", t, "startPolling")]
    /\ UNCHANGED tab
    /\ AtClient

(* handleRouteChange: a navigation button, or the browser's back button.   *)
Navigate(f) ==
    /\ flow[f] = Idle
    /\ Becomes(f, Refresh(tab, flow, f, NoTask, "end"))
    /\ UNCHANGED errors

(* Mutant: the polling timer is not cleared.                               *)
ClickLogout_KeepsTimer ==
    /\ tab.panels \cap {"loading", "guest"} = {}
    /\ Becomes(NoFlow, [tab |-> Logout(tab), flow |-> flow])
    /\ UNCHANGED errors

ClickLogout ==
    /\ tab.panels \cap {"loading", "guest"} = {}
    /\ Becomes(NoFlow, [tab |-> Logout(tab), flow |-> ClearTimer(tab, flow)])
    /\ UNCHANGED errors

(* The page is loaded anew, DOMContentLoaded and hydrateSession: answers,  *)
(* timers and what was shown are gone, the token is not.                   *)
Reload(f) ==
    LET s == [Served EXCEPT !.token = tab.token]
        flows == [g \in Flows |-> Idle]
    IN  /\ tab' = IF s.token = NoUser THEN RenderRoute(s) ELSE s
        /\ flow' = IF s.token = NoUser THEN flows
                   ELSE [flows EXCEPT ![f] = Ask(s, "hydrate", NoTask, "end")]
        /\ overtaken' = "nothing"
        /\ UNCHANGED <<status, paid, owner, errors, reopens>>

-----------------------------------------------------------------------------
(* The service, and the network between.  What a route answers depends on  *)
(* the token alone, but for an upload, which creates a task, and a poll,   *)
(* whose answer may be old when it arrives: these are served in a step of  *)
(* their own.                                                              *)

(* get_current_user for a request of f, and the role for an admin route.   *)
Authorized(f) ==
    /\ flow[f].as # NoUser
    /\ flow[f].at = "adminData" => IsAdmin(flow[f].as)

Reply(f, answer) ==
    /\ flow' = [flow EXCEPT ![f].answer = answer]
    /\ UNCHANGED <<tab, errors, reopens, overtaken>>

Asked(f, place) == flow[f].at = place /\ flow[f].answer = "none"

(* An upload is refused, or accepted, or, without a valid record, recorded *)
(* as failed.                                                              *)
ServeUpload(f) ==
    LET t == flow[f].task
    IN  /\ Asked(f, "upload")
        /\ \/ Reply(f, "error") /\ UNCHANGED <<status, paid, owner>>
           \/ /\ Authorized(f)
              /\ Service!Create(t)
              /\ Reply(f, "open")
              /\ owner' = [owner EXCEPT ![t] = flow[f].as]
           \/ /\ Authorized(f)
              /\ status' = [status EXCEPT ![t] = "failed"]
              /\ Reply(f, "failed")
              /\ owner' = [owner EXCEPT ![t] = flow[f].as]
              /\ UNCHANGED paid

(* GET /predict/{task_id} for its owner or an administrator.               *)
ServePoll(f) ==
    LET t == flow[f].task
    IN  /\ Asked(f, "poll")
        /\ Reply(f, IF Authorized(f) /\ (IsAdmin(flow[f].as) \/ flow[f].as = owner[t])
                    THEN status[t] ELSE "error")
        /\ UNCHANGED <<status, paid, owner>>

(* The workers settle a task.                                              *)
Settle(t) ==
    /\ Service!Complete(t, 1) \/ Service!Fail(t)
    /\ UNCHANGED <<tab, flow, owner, errors, reopens, overtaken>>

Reopen(t) ==
    /\ reopens < MaxReopens
    /\ Service!Reopen(t)
    /\ reopens' = reopens + 1
    /\ UNCHANGED <<tab, flow, owner, errors, overtaken>>

-----------------------------------------------------------------------------
(* What the functions do with their answers.                               *)

(* fetch raises: the request or its answer was lost.                       *)
Lost == errors < MaxErrors /\ errors' = errors + 1

Granted(f) == Authorized(f) /\ UNCHANGED errors

Refused(f) == (~Authorized(f) /\ UNCHANGED errors) \/ Lost

(* A form that the server does not accept, its request or its answer lost. *)
Rejected == UNCHANGED errors \/ Lost

(* A request that failed ends its function and nothing else.               *)
GiveUp(f) == Becomes(f, [tab |-> tab, flow |-> [flow EXCEPT ![f] = Idle]])

(* Mutant: a refresh that failed leaves the page as it is.                 *)
SignedOut_KeepsPage(f) == Becomes(f, AfterRefresh(tab, flow, f))

(* logout({quiet}) within refreshWorkspace, which then returns normally.   *)
SignedOut(f) == Becomes(f, AfterRefresh(Logout(tab), ClearTimer(tab, flow), f))

(* applyAuthPayload, and the refresh the route change starts.              *)
ReceiveAuth(f) ==
    /\ flow[f].at = "auth"
    /\ \/ Rejected /\ GiveUp(f)
       \/ /\ Granted(f)
          /\ LET s == [tab EXCEPT !.token = flow[f].as, !.user = flow[f].as,
                                  !.polled = NoTask]
             IN  Becomes(f, Refresh(s, flow, f, NoTask, "end"))

ReceiveHydrate(f) ==
    /\ flow[f].at = "hydrate"
    /\ \/ Refused(f) /\ SignedOut(f)
       \/ /\ Granted(f)
          /\ LET s == [tab EXCEPT !.user = flow[f].as]
             IN  Becomes(f, Refresh(s, flow, f, NoTask, "end"))

(* Mutant: tables that have been filled are not loaded again.              *)
ReceiveMe_LoadsOnce(f) ==
    /\ flow[f].at = "me"
    /\ \/ Refused(f) /\ SignedOut(f)
       \/ /\ Granted(f)
          /\ LET s == RenderSession([tab EXCEPT !.user = flow[f].as])
                 place == IF IsAdmin(s.user) THEN "adminData" ELSE "userData"
                 asked == Ask(s, place, flow[f].task, flow[f].then)
                 filled == IF IsAdmin(s.user) THEN s.adminOf ELSE s.userOf
             IN  Becomes(f, IF filled # NoUser THEN AfterRefresh(s, flow, f)
                            ELSE [tab |-> s, flow |-> [flow EXCEPT ![f] = asked]])

(* refreshWorkspace after /users/me: the role of that answer decides what  *)
(* is asked next, with the token of the moment.                            *)
ReceiveMe(f) ==
    /\ flow[f].at = "me"
    /\ \/ Refused(f) /\ SignedOut(f)
       \/ /\ Granted(f)
          /\ LET s == RenderSession([tab EXCEPT !.user = flow[f].as])
                 place == IF IsAdmin(s.user) THEN "adminData" ELSE "userData"
                 asked == Ask(s, place, flow[f].task, flow[f].then)
             IN  Becomes(f, [tab |-> s, flow |-> [flow EXCEPT ![f] = asked]])

ReceiveUserData(f) ==
    /\ flow[f].at = "userData"
    /\ \/ Refused(f) /\ SignedOut(f)
       \/ /\ Granted(f)
          /\ Becomes(f, AfterRefresh([tab EXCEPT !.userOf = flow[f].as], flow, f))

(* renderAdmin shows the studio, whatever has been rendered since.         *)
ReceiveAdminData(f) ==
    /\ flow[f].at = "adminData"
    /\ \/ Refused(f) /\ SignedOut(f)
       \/ /\ Granted(f)
          /\ LET s == [tab EXCEPT !.adminOf = flow[f].as, !.panels = @ \cup {"studio"}]
             IN  Becomes(f, AfterRefresh(s, flow, f))

ReceiveAct(f) ==
    /\ flow[f].at = "act"
    /\ \/ Rejected /\ GiveUp(f)
       \/ Granted(f) /\ Becomes(f, Refresh(tab, flow, f, NoTask, "end"))

(* The answer of a served request arrives, or is lost.                     *)
Arrives(f, answers) == flow[f].answer \in answers /\ UNCHANGED errors

ReceiveUpload(f) ==
    LET t == flow[f].task
        s == ShowStatus(tab, t, flow[f].answer)
    IN  /\ flow[f].at = "upload"
        /\ \/ (Arrives(f, {"error"}) \/ Lost) /\ GiveUp(f)
           \/ Arrives(f, {"failed"}) /\ Becomes(f, Refresh(s, flow, f, NoTask, "end"))
           \/ Arrives(f, {"open"}) /\ Becomes(f, Refresh(s, flow, f, t, "startPolling"))

(* Mutant: a poll that was refused is shown like an answer.                *)
ReceivePoll_ShowsError(f) ==
    LET t == flow[f].task
        s == ShowStatus(tab, t, flow[f].answer)
    IN  /\ flow[f].at = "poll"
        /\ \/ /\ Arrives(f, {"error", "completed", "failed"})
              /\ Becomes(f, Refresh(s, flow, f, NoTask, "end"))
           \/ Arrives(f, {"open"}) /\ Becomes(f, Refresh(s, flow, f, t, "schedule"))

(* Mutant: an error is taken for a task that is not finished yet.          *)
ReceivePoll_Retries(f) ==
    LET t == flow[f].task
        s == ShowStatus(tab, t, flow[f].answer)
    IN  /\ flow[f].at = "poll"
        /\ \/ /\ Arrives(f, {"error"}) \/ Lost
              /\ Becomes(f, Refresh(tab, flow, f, t, "schedule"))
           \/ /\ Arrives(f, {"completed", "failed"})
              /\ Becomes(f, Refresh(s, flow, f, NoTask, "end"))
           \/ Arrives(f, {"open"}) /\ Becomes(f, Refresh(s, flow, f, t, "schedule"))

ReceivePoll(f) ==
    LET t == flow[f].task
        s == ShowStatus(tab, t, flow[f].answer)
    IN  /\ flow[f].at = "poll"
        /\ \/ (Arrives(f, {"error"}) \/ Lost) /\ GiveUp(f)
           \/ /\ Arrives(f, {"completed", "failed"})
              /\ Becomes(f, Refresh(s, flow, f, NoTask, "end"))
           \/ Arrives(f, {"open"}) /\ Becomes(f, Refresh(s, flow, f, t, "schedule"))

(* The id of a timer that has fired means nothing any more.                *)
TimerFires(f) ==
    /\ flow[f].at = "timer"
    /\ flow' = [flow EXCEPT ![f] = Ask(tab, "poll", flow[f].task, "end")]
    /\ tab' = [tab EXCEPT !.timer = IF @ = f THEN NoFlow ELSE @]
    /\ AtClient

Receive(f) ==
    \/ ReceiveAuth(f) \/ ReceiveHydrate(f) \/ ReceiveMe(f)
    \/ ReceiveUserData(f) \/ ReceiveAdminData(f)
    \/ ReceiveAct(f) \/ ReceiveUpload(f) \/ ReceivePoll(f)

-----------------------------------------------------------------------------
UserStep ==
    \/ \E f \in Flows :
          \/ \E u \in Users : SubmitLogin(f, u)
          \/ SubmitAct(f)
          \/ \E t \in Tasks : SubmitUpload(f, t)
          \/ Navigate(f)
          \/ Reload(f)
    \/ ClickLogout

FlowStep(f) == ServeUpload(f) \/ ServePoll(f) \/ Receive(f) \/ TimerFires(f)

Next ==
    \/ UserStep
    \/ \E f \in Flows : FlowStep(f)
    \/ \E t \in Tasks : Settle(t) \/ Reopen(t)

Spec == Init /\ [][Next]_vars

(* A request is answered or fails, its function goes on, a timer fires,    *)
(* and an open task is settled (TaskPipeline, QueuedIsSettled).  Nobody    *)
(* has to click.                                                           *)
Fairness ==
    /\ \A f \in Flows : WF_vars(FlowStep(f))
    /\ \A t \in Tasks : WF_vars(Settle(t))

FairSpec == Spec /\ Fairness

-----------------------------------------------------------------------------
(* Safety, until a call is overtaken.                                      *)

Undisturbed == overtaken = "nothing"

(* The session that is shown is the one whose token is sent, and the panel *)
(* belongs to its role: the cabinet to a user, the studio to an            *)
(* administrator (renderSession, renderAdmin, logout).                     *)
SessionIsShown ==
    Undisturbed =>
        /\ tab.user \in {NoUser, tab.token}
        /\ "workspace" \in tab.panels => tab.user \in Users \ AdminUsers
        /\ "studio" \in tab.panels => tab.user \in AdminUsers

Loading(f) == flow[f].at \in {"hydrate", "me", "userData", "adminData"}

(* When no refresh is under way, the balance and histories in the visible  *)
(* panel are those of the session, whoever used the page before: nothing   *)
(* but the next answers takes the old tables away.                         *)
OwnDataIsShown ==
    Undisturbed /\ ~(\E f \in Flows : Loading(f)) =>
        /\ "workspace" \in tab.panels => tab.userOf = tab.token
        /\ "studio" \in tab.panels => tab.adminOf = tab.token

(* A task is only polled in the session of its owner: logout leaves no     *)
(* timer behind.                                                           *)
PollsOwnTasks ==
    Undisturbed => \A f \in Flows : Polling(f) => owner[flow[f].task] = tab.token

-----------------------------------------------------------------------------
(* Liveness, whatever is overtaken.                                        *)

(* The end of the task whose polling was started last is shown, whatever   *)
(* other pollings are about, unless its owner's session ends or a request  *)
(* is lost: poll does not try again after an error.                        *)
PolledIsReported ==
    \A t \in Tasks :
        tab.polled = t /\ (\E f \in Flows : Polling(f) /\ flow[f].task = t) ~>
            \/ tab.shownTask = t /\ tab.shownStatus \in {"completed", "failed"}
            \/ tab.polled # t
            \/ tab.token # owner[t]
            \/ errors > 0

(* After a logout all polling comes to its end, also that of a poll which  *)
(* the logout has overtaken and which sets its timer afterwards.           *)
LoggedOutStopsPolling ==
    tab.token = NoUser ~> tab.token # NoUser \/ ~(\E f \in Flows : Polling(f))

Ghost == tab.token = NoUser /\ tab.user # NoUser

(* A refresh overtaken by a logout may show the session again that has     *)
(* ended, but not for long: its next requests carry no token and are       *)
(* refused.  (Only hydrateSession, overtaken in the same way, asks for     *)
(* nothing more.)                                                          *)
GhostVanishes == Ghost ~> ~Ghost \/ overtaken = "hydration"

=============================================================================
