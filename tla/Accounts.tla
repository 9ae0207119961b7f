---- MODULE Accounts ----
(***************************************************************************)
(* Accounts: users, their passwords and sessions, OAuth logins, and the    *)
(* tools their personal agents may use.  An account is spread over several *)
(* records (user, credential, sessions, agent, project, grants) and every  *)
(* handler saves them one by one, from copies that it read before.         *)
(*                                                                         *)
(* Admins are not modelled as users: their calls are the ones that pass    *)
(* require_permission.  A password stands for its hash.  Left out: expiry  *)
(* of sessions, names, team memberships, and that every request seeds the  *)
(* default grants before it does anything else: SeedGrants is any request. *)
(***************************************************************************)
EXTENDS Naturals, Sequences, FiniteSets

CONSTANTS Users,       \* accounts that exist or may come to exist
          Seeded,      \* those that are there from the start, with default grants
          Federated,   \* those that log in through OAuth and are created by it
          Passwords,
          NoPassword,  \* no credential; also a call that has nothing to do with one
          Roles,       \* roles an admin gives
          Newcomer,    \* the role of a new account
          NoUser,      \* an idle thread's
          Threads,     \* threads that serve HTTP calls, numbered
          MaxCalls,    \* bound on calls
          MaxFaults    \* bound on handlers that die

ASSUME AccountsAssumption ==
    /\ Seeded \subseteq Users /\ Federated \subseteq Users /\ Seeded \cap Federated = {}
    /\ NoPassword \notin Passwords /\ NoUser \notin Users
    /\ Newcomer \in Roles
    /\ Threads \subseteq Nat
    /\ MaxCalls \in Nat /\ MaxFaults \in Nat

VARIABLES account,   \* the user records
          agents,    \* the users whose personal agent is saved
          password,  \* the credentials
          members,   \* the members of the project
          sessions,  \* every session issued: whose, how it was obtained, whether it is live
          grants,    \* the grants of the tool to a user's agent, oldest first
          call,      \* what each handler has read and what it has still to do
          ordered,   \* history: what an admin last made of an account
          allowed,   \* history: whether the tool was last given or taken
          raced,     \* history: accounts and areas that two handlers were at work on
          broken,    \* history: accounts that a handler died on
          made,      \* calls so far
          faults     \* handlers that died

records == <<account, agents, password, members, sessions, grants>>
history == <<ordered, allowed>>
vars == <<records, call, history, raced, broken, made, faults>>

Account == [exists : BOOLEAN, status : {"active", "disabled"}, role : Roles]
Keys == Passwords \cup {NoPassword}
Session == [user : Users, key : Keys, live : BOOLEAN]
Steps == {"user", "agent", "verify", "password", "list", "revoke", "project", "member",
          "session", "seed", "default", "set", "grant"}
Areas == {"account", "tools"}
Fields == {"none", "new", "status", "role"}

\* A call: the account and the area it is about, what it has still to do, the copy of the
\* user record and the field it changes, the password it was given and the new one, the
\* sessions it listed, its copy of the members, and the grant it is going to save.
Call == [user : Users \cup {NoUser}, area : Areas, plan : Seq(Steps),
         account : Account, field : Fields, key : Keys, new : Keys, todo : SUBSET Nat,
         members : SUBSET Users, at : Nat, on : BOOLEAN]

NewAccount == [exists |-> TRUE, status |-> "active", role |-> Newcomer]
Idle == [user |-> NoUser, area |-> "account", plan |-> <<>>,
         account |-> NewAccount, field |-> "none", key |-> NoPassword, new |-> NoPassword,
         todo |-> {}, members |-> {}, at |-> 0, on |-> FALSE]

TypeOK ==
    /\ account \in [Users -> Account]
    /\ agents \in SUBSET Users
    /\ password \in [Users -> Keys]
    /\ members \in SUBSET Users
    /\ sessions \in Seq(Session)
    /\ grants \in [Users -> Seq(BOOLEAN)]
    /\ call \in [Threads -> Call]
    /\ ordered \in [Users -> Account]
    /\ allowed \in [Users -> {"unset", "yes", "no"}]
    /\ raced \in SUBSET (Users \X Areas) /\ broken \in SUBSET Users
    /\ made \in 0..MaxCalls /\ faults \in 0..MaxFaults

Init ==
    /\ account = [u \in Users |-> [NewAccount EXCEPT !.exists = u \in Seeded]]
    /\ agents = Seeded /\ members = Seeded
    /\ \E p \in Passwords :
          password = [u \in Users |-> IF u \in Seeded THEN p ELSE NoPassword]
    /\ sessions = <<>>
    /\ grants = [u \in Users |-> <<>>]
    /\ call = [c \in Threads |-> Idle]
    /\ ordered = account
    /\ allowed = [u \in Users |-> "unset"]
    /\ raced = {} /\ broken = {} /\ made = 0 /\ faults = 0

---------------------------------------------------------------------------
(* Calls come in.  Threads are alike and the first free one takes a call.  *)

\* All logins through OAuth save the one project record.
Shares(c, u, area) ==
    /\ call[c] # Idle /\ call[c].area = area
    /\ call[c].user = u \/ {call[c].user, u} \subseteq Federated

Begin(c, u, h) ==
    /\ call[c] = Idle /\ \A d \in Threads : d < c => call[d] # Idle
    /\ made < MaxCalls /\ made' = made + 1
    /\ call' = [call EXCEPT ![c] = [h EXCEPT !.user = u]]
    /\ LET others == {d \in Threads : Shares(d, u, h.area)}
       IN  raced' = IF others = {} THEN raced
                    ELSE raced \cup {<<v, h.area>> : v \in {u} \cup {call[d].user : d \in others}}
    /\ UNCHANGED <<records, history, broken, faults>>

Plan(steps) == [Idle EXCEPT !.plan = steps]

Active(u) == account[u].exists /\ account[u].status = "active"

LiveSessions(u) == {s \in DOMAIN sessions : sessions[s].user = u /\ sessions[s].live}

\* The user of a request: a live session of an active user.
Authenticated(u) == Active(u) /\ LiveSessions(u) # {}

Login(c, u, p) ==
    /\ Active(u)
    /\ Begin(c, u, [Plan(<<"verify", "session">>) EXCEPT !.key = p])

\* Variant: the first login leaves the project to the next.
JoinLater(c, u) ==
    /\ u \in Federated
    /\ \/ /\ ~account[u].exists
          /\ Begin(c, u, [Plan(<<"user", "agent", "session">>) EXCEPT !.field = "new"])
       \/ /\ Active(u)
          /\ Begin(c, u, [Plan(<<"project", "user", "session">>) EXCEPT !.account = account[u]])

\* The first login through OAuth makes the account, each login refreshes its name.
OAuthLogin(c, u) ==
    /\ u \in Federated
    /\ \/ /\ ~account[u].exists
          /\ Begin(c, u, [Plan(<<"user", "agent", "project", "session">>) EXCEPT !.field = "new"])
       \/ /\ Active(u)
          /\ Begin(c, u, [Plan(<<"project", "user", "session">>) EXCEPT !.account = account[u]])

Logout(c, s) ==
    /\ sessions[s].live
    /\ Begin(c, sessions[s].user, [Plan(<<"revoke">>) EXCEPT !.todo = {s}])

\* Variant: only an admin's reset ends the sessions.
KeepSessions(c, u, old, new) ==
    /\ Authenticated(u)
    /\ Begin(c, u, [Plan(<<"verify", "password">>) EXCEPT !.key = old, !.new = new])

ChangePassword(c, u, old, new) ==
    /\ Authenticated(u)
    /\ Begin(c, u, [Plan(<<"verify", "password", "list", "revoke">>)
                        EXCEPT !.key = old, !.new = new])

ResetPassword(c, u, new) ==
    /\ account[u].exists
    /\ Begin(c, u, [Plan(<<"password", "list", "revoke">>) EXCEPT !.new = new])

\* An admin makes an account; its id is new, so that nobody else is at work on it.
CreateUser(c, u, p) ==
    /\ u \notin Federated /\ ~account[u].exists
    /\ \A d \in Threads : call[d].user # u
    /\ Begin(c, u, [Plan(<<"user", "agent", "password">>) EXCEPT !.field = "new", !.new = p])

\* An admin's PATCH: to disable an account ends its sessions first.
SetStatus(c, u, status) ==
    /\ account[u].exists
    /\ Begin(c, u, [Plan(IF status = "disabled" THEN <<"list", "revoke", "user">> ELSE <<"user">>)
                        EXCEPT !.field = "status",
                               !.account = [account[u] EXCEPT !.status = status]])

SetRole(c, u, role) ==
    /\ account[u].exists
    /\ Begin(c, u, [Plan(<<"user">>) EXCEPT !.field = "role",
                        !.account = [account[u] EXCEPT !.role = role]])

\* Any request seeds the default grants.
SeedGrants(c, u) ==
    /\ u \in Seeded
    /\ Begin(c, u, [Plan(<<"seed">>) EXCEPT !.area = "tools"])

\* Its owner or an admin gives the tool to an agent, or takes it.
SetTool(c, u, on) ==
    /\ u \in agents
    /\ Begin(c, u, [Plan(<<"seed", "set">>) EXCEPT !.area = "tools", !.on = on])

---------------------------------------------------------------------------
(* Handlers go on, one store operation at a time.                          *)

At(c, step) == call[c].plan # <<>> /\ Head(call[c].plan) = step

\* What is left of a call when it has nothing more to do.
Rest(h) == IF h.plan = <<>> THEN Idle ELSE h

GoOn(c, h) ==
    /\ call' = [call EXCEPT ![c] = Rest(h)]
    /\ UNCHANGED <<raced, broken, made, faults>>

Next1(c) == [call[c] EXCEPT !.plan = Tail(call[c].plan)]
Insert(c, step) == [call[c] EXCEPT !.plan = <<step>> \o Tail(call[c].plan)]

\* The copy is saved whole, for the sake of the one field that the caller changes.
SaveUser(c) ==
    /\ At(c, "user")
    /\ LET u == call[c].user
           field == call[c].field
           saved == call[c].account
       IN  /\ account' = [account EXCEPT ![u] = saved]
           /\ ordered' = [ordered EXCEPT ![u] =
                  CASE field = "new"    -> saved
                    [] field = "status" -> [@ EXCEPT !.status = saved.status]
                    [] field = "role"   -> [@ EXCEPT !.role = saved.role]
                    [] OTHER            -> @]
    /\ GoOn(c, Next1(c))
    /\ UNCHANGED <<agents, password, members, sessions, grants, allowed>>

SaveAgent(c) ==
    /\ At(c, "agent")
    /\ agents' = agents \cup {call[c].user}
    /\ GoOn(c, Next1(c))
    /\ UNCHANGED <<account, password, members, sessions, grants, history>>

\* The password that was given is compared with the credential; a wrong one is refused.
Verify(c) ==
    /\ At(c, "verify")
    /\ GoOn(c, IF password[call[c].user] = call[c].key THEN Next1(c) ELSE Idle)
    /\ UNCHANGED <<records, history>>

SavePassword(c) ==
    /\ At(c, "password")
    /\ password' = [password EXCEPT ![call[c].user] = call[c].new]
    /\ GoOn(c, Next1(c))
    /\ UNCHANGED <<account, agents, members, sessions, grants, history>>

ListSessions(c) ==
    /\ At(c, "list")
    /\ GoOn(c, [Next1(c) EXCEPT !.todo = LiveSessions(call[c].user)])
    /\ UNCHANGED <<records, history>>

\* The sessions that were listed are ended one by one.
Revoke(c) ==
    /\ At(c, "revoke")
    /\ \/ /\ call[c].todo = {}
          /\ GoOn(c, Next1(c))
          /\ UNCHANGED sessions
       \/ \E s \in call[c].todo :
          /\ sessions' = [sessions EXCEPT ![s].live = FALSE]
          /\ GoOn(c, [call[c] EXCEPT !.todo = @ \ {s}])
    /\ UNCHANGED <<account, agents, password, members, grants, history>>

\* The session is issued at the end of a login.
IssueSession(c) ==
    /\ At(c, "session")
    /\ sessions' = Append(sessions, [user |-> call[c].user, key |-> call[c].key, live |-> TRUE])
    /\ GoOn(c, Next1(c))
    /\ UNCHANGED <<account, agents, password, members, grants, history>>

\* The project is read, and saved only if the user is missing from it.
ReadProject(c) ==
    /\ At(c, "project")
    /\ GoOn(c, IF call[c].user \in members THEN Next1(c)
               ELSE [Insert(c, "member") EXCEPT !.members = members \cup {call[c].user}])
    /\ UNCHANGED <<records, history>>

SaveProject(c) ==
    /\ At(c, "member")
    /\ members' = call[c].members
    /\ GoOn(c, Next1(c))
    /\ UNCHANGED <<account, agents, password, sessions, grants, history>>

\* Variant: seeding looks for a grant that is enabled.
SeedEnabled(c) ==
    /\ At(c, "seed")
    /\ LET u == call[c].user
       IN  GoOn(c, IF u \in Seeded /\ ~(\E i \in DOMAIN grants[u] : grants[u][i])
                   THEN Insert(c, "default") ELSE Next1(c))
    /\ UNCHANGED <<records, history>>

\* A default grant is added where there is none, enabled or not.
ReadForSeed(c) ==
    /\ At(c, "seed")
    /\ LET u == call[c].user
       IN  GoOn(c, IF u \in Seeded /\ grants[u] = <<>>
                   THEN Insert(c, "default") ELSE Next1(c))
    /\ UNCHANGED <<records, history>>

\* Of several grants of one tool the last is the one that is changed.
ReadForSet(c) ==
    /\ At(c, "set")
    /\ LET u == call[c].user
           last == Len(grants[u])
           want == call[c].on
           change == IF last = 0 THEN want ELSE grants[u][last] # want
       IN  /\ GoOn(c, IF change THEN [Insert(c, "grant") EXCEPT !.at = last] ELSE Next1(c))
           /\ allowed' = IF change THEN allowed
                         ELSE [allowed EXCEPT ![u] = IF want THEN "yes" ELSE "no"]
    /\ UNCHANGED <<records, ordered>>

\* A default grant is enabled and new.
SaveDefault(c) ==
    /\ At(c, "default")
    /\ grants' = [grants EXCEPT ![call[c].user] = Append(@, TRUE)]
    /\ GoOn(c, Next1(c))
    /\ UNCHANGED <<account, agents, password, members, sessions, history>>

\* What was asked for is saved in the grant that was read, or in a new one.
SaveGrant(c) ==
    /\ At(c, "grant")
    /\ LET u == call[c].user
           on == call[c].on
       IN  /\ grants' = [grants EXCEPT ![u] = IF call[c].at = 0 THEN Append(@, on)
                                              ELSE [@ EXCEPT ![call[c].at] = on]]
           /\ allowed' = [allowed EXCEPT ![u] = IF on THEN "yes" ELSE "no"]
    /\ GoOn(c, Next1(c))
    /\ UNCHANGED <<account, agents, password, members, sessions, ordered>>

\* A handler dies with what it has not saved yet.
Die(c) ==
    /\ call[c] # Idle
    /\ faults < MaxFaults /\ faults' = faults + 1
    /\ broken' = broken \cup {call[c].user}
    /\ call' = [call EXCEPT ![c] = Idle]
    /\ UNCHANGED <<records, history, raced, made>>

Comes(c) ==
    \/ \E s \in DOMAIN sessions : Logout(c, s)
    \/ \E u \in Users :
          \/ OAuthLogin(c, u) \/ SeedGrants(c, u)
          \/ \E on \in BOOLEAN : SetTool(c, u, on)
          \/ \E role \in Roles : SetRole(c, u, role)
          \/ \E status \in {"active", "disabled"} : SetStatus(c, u, status)
          \/ \E p \in Passwords :
                \/ Login(c, u, p) \/ ResetPassword(c, u, p) \/ CreateUser(c, u, p)
                \/ \E q \in Passwords : ChangePassword(c, u, p, q)

Goes(c) ==
    \/ SaveUser(c) \/ SaveAgent(c) \/ Verify(c) \/ SavePassword(c)
    \/ ListSessions(c) \/ Revoke(c) \/ IssueSession(c)
    \/ ReadProject(c) \/ SaveProject(c)
    \/ ReadForSeed(c) \/ ReadForSet(c) \/ SaveDefault(c) \/ SaveGrant(c)

Next == \E c \in Threads : Comes(c) \/ Goes(c) \/ Die(c)

Spec == Init /\ [][Next]_vars

---------------------------------------------------------------------------
(* Properties.                                                             *)

Quiet(u, area) == \A c \in Threads : call[c].user # u \/ call[c].area # area
InTurn(u, area) == Quiet(u, area) /\ <<u, area>> \notin raced

\* Whoever changes a password, or has it reset, shuts out everybody who came in with the
\* old one: a live session was obtained through OAuth or with the password of today
\* (auth.py change_password, users.py reset_user_password).  The handlers of an account
\* took turns and none died; a login that has compared the old password before the change
\* and issues its session after it does stay in.
SerialPasswordEndsSessions ==
    \A u \in Users : InTurn(u, "account") /\ u \notin broken =>
        \A s \in LiveSessions(u) : sessions[s].key \in {NoPassword, password[u]}

\* What admins ordered stands, whatever logins, requests and other PATCHes follow or die:
\* the role and the status of an account, and a disabled one has no session left that
\* enabling it would revive (users.py update_user, auth.py upsert_oauth_user); and a tool is
\* usable if the last that was said of it is yes, and not if it is no: the default grants
\* that every request looks for do not bring back what was taken, and one grant is the
\* tool's (tools.py set_agent_tools, data_authorization.py).  The handlers took turns: a
\* login through OAuth that overlaps the PATCH saves its older copy and undoes it, and two
\* requests that seed at once leave two grants, of which one is ever changed.
SerialOrdersStand ==
    \A u \in Users :
        /\ InTurn(u, "account") =>
              /\ account[u] = ordered[u]
              /\ account[u].status = "disabled" => LiveSessions(u) = {}
        /\ InTurn(u, "tools") /\ allowed[u] # "unset" =>
              ((\E i \in DOMAIN grants[u] : grants[u][i]) <=> allowed[u] = "yes")

\* Whoever has a session has an agent, however the handlers of the account overlapped, if
\* none died; and who came in through OAuth is a member of the project, where logins took
\* turns, whoever died (users.py create_user, auth.py upsert_oauth_user).  A creation that
\* dies in between leaves an account that can log in and never gets its agent.
LoginIsWhole ==
    \A u \in Users : \A s \in LiveSessions(u) :
        /\ Quiet(u, "account") /\ u \notin broken => u \in agents
        /\ sessions[s].key = NoPassword /\ InTurn(u, "account") => u \in members
====
