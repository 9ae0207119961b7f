---- MODULE AccountsProofs ----
(***************************************************************************)
(* The types of the accounts and what their properties promise, for any    *)
(* users, passwords and handlers.  Types need one thing more: a handler    *)
(* that is at work is at work on an account, so that what it saves is the  *)
(* record of a user.                                                       *)
(*                                                                         *)
(* The properties need to know what a handler has still to do: there are   *)
(* nineteen plans about accounts and six about tools, and Fits says of     *)
(* each what its copies and lists are worth, as long as handlers take      *)
(* turns.  A step of one handler leaves what the others know alone, unless *)
(* they are marked as having raced: AccountStep and ToolStep reduce every  *)
(* action to what it does for its own account.                             *)
(***************************************************************************)
EXTENDS Accounts, SequenceTheorems, TLAPS

AtWorkOnUsers == \A c \in Threads : call[c] # Idle => call[c].user \in Users

IInv == TypeOK /\ AtWorkOnUsers

---------------------------------------------------------------------------
(* Calls.                                                                  *)

\* A sequence keeps its type when an element is put somewhere, inside its domain or not.
LEMMA ExceptAnywhere ==
    ASSUME NEW S, NEW seq \in Seq(S), NEW i, NEW e \in S
    PROVE  [seq EXCEPT ![i] = e] \in Seq(S)
<1>1. CASE i \in 1..Len(seq)
  BY <1>1, ExceptSeq
<1>2. CASE i \notin 1..Len(seq)
  <2>1. [seq EXCEPT ![i] = e] = seq
    BY <1>2
  <2> QED
    BY <2>1
<1> QED
  BY <1>1, <1>2

LEMMA IdleIsCall == Idle \in Call
BY AccountsAssumption DEF Idle, Call, NewAccount, Account, Keys, Areas, Fields, Steps

\* A plan, whatever fields the call gives it.
LEMMA PlanIsCall ==
    ASSUME NEW p \in Seq(Steps)
    PROVE  Plan(p) \in Call /\ Plan(p).plan = p
BY IdleIsCall DEF Plan, Call, Idle

LEMMA StepsTyped ==
    /\ <<"revoke">> \in Seq(Steps) /\ <<"user">> \in Seq(Steps) /\ <<"seed">> \in Seq(Steps)
    /\ <<"verify", "session">> \in Seq(Steps) /\ <<"seed", "set">> \in Seq(Steps)
    /\ <<"user", "agent", "project", "session">> \in Seq(Steps)
    /\ <<"project", "user", "session">> \in Seq(Steps)
    /\ <<"verify", "password", "list", "revoke">> \in Seq(Steps)
    /\ <<"password", "list", "revoke">> \in Seq(Steps)
    /\ <<"user", "agent", "password">> \in Seq(Steps)
    /\ <<"list", "revoke", "user">> \in Seq(Steps)
BY DEF Steps

\* A call may change any field of its plan to a value of its type.
LEMMA CallWith ==
    ASSUME NEW h \in Call
    PROVE  /\ \A x \in Keys : [h EXCEPT !.key = x] \in Call
           /\ \A x \in Keys : [h EXCEPT !.new = x] \in Call
           /\ \A x \in Keys, y \in Keys : [h EXCEPT !.key = x, !.new = y] \in Call
           /\ \A x \in Fields, y \in Keys : [h EXCEPT !.field = x, !.new = y] \in Call
           /\ \A x \in Fields, y \in Account : [h EXCEPT !.field = x, !.account = y] \in Call
           /\ \A x \in Fields : [h EXCEPT !.field = x] \in Call
           /\ \A x \in Account : [h EXCEPT !.account = x] \in Call
           /\ \A x \in SUBSET Nat : [h EXCEPT !.todo = x] \in Call
           /\ \A x \in SUBSET Users : [h EXCEPT !.members = x] \in Call
           /\ \A x \in Nat : [h EXCEPT !.at = x] \in Call
           /\ \A x \in Areas : [h EXCEPT !.area = x] \in Call
           /\ \A x \in Areas, y \in BOOLEAN : [h EXCEPT !.area = x, !.on = y] \in Call
           /\ \A x \in Seq(Steps) : [h EXCEPT !.plan = x] \in Call
           /\ \A x \in Users : [h EXCEPT !.user = x] \in Call
BY DEF Call

LEMMA ConstantsTyped ==
    /\ \A p \in Passwords : p \in Keys
    /\ "new" \in Fields /\ "status" \in Fields /\ "role" \in Fields
    /\ "tools" \in Areas
BY DEF Keys, Fields, Areas

\* A call that comes in is about a user.
LEMMA BeginTyped ==
    ASSUME IInv, NEW c \in Threads, NEW u \in Users, NEW h \in Call, Begin(c, u, h)
    PROVE  IInv'
<1> DEFINE g == [h EXCEPT !.user = u]
<1> g \in Call /\ g.user \in Users
  BY DEF Call
<1> HIDE DEF g
<1>1. call' = [call EXCEPT ![c] = g]
  BY DEF Begin, g
<1>2. call' \in [Threads -> Call] /\ AtWorkOnUsers'
  BY <1>1 DEF IInv, TypeOK, AtWorkOnUsers
<1>3. raced' \in SUBSET (Users \X Areas)
  <2>1. \A d \in Threads : Shares(d, u, h.area) => call[d].user \in Users
    BY DEF Shares, IInv, AtWorkOnUsers
  <2>2. h.area \in Areas
    BY DEF Call
  <2> QED
    BY <2>1, <2>2 DEF Begin, IInv, TypeOK
<1>4. made' \in 0..MaxCalls
  BY AccountsAssumption DEF Begin, IInv, TypeOK
<1> QED
  BY <1>2, <1>3, <1>4 DEF Begin, IInv, TypeOK, records, history

LEMMA ComesTyped ==
    ASSUME IInv, NEW c \in Threads, Comes(c)
    PROVE  IInv'
<1>1. ASSUME NEW s \in DOMAIN sessions, Logout(c, s) PROVE IInv'
  <2>1. sessions[s].user \in Users /\ {s} \subseteq Nat
    <3>1. sessions \in Seq(Session) /\ s \in 1..Len(sessions)
      BY DEF IInv, TypeOK
    <3>2. sessions[s] \in Session
      BY <3>1
    <3> QED
      BY <3>1, <3>2 DEF Session
  <2>2. [Plan(<<"revoke">>) EXCEPT !.todo = {s}] \in Call
    BY <2>1, StepsTyped, PlanIsCall, CallWith
  <2> QED
    BY <1>1, <2>1, <2>2, BeginTyped DEF Logout
<1>2. ASSUME NEW u \in Users, OAuthLogin(c, u) PROVE IInv'
  <2>1. [Plan(<<"user", "agent", "project", "session">>) EXCEPT !.field = "new"] \in Call
    BY StepsTyped, PlanIsCall, CallWith, ConstantsTyped
  <2>2. [Plan(<<"project", "user", "session">>) EXCEPT !.account = account[u]] \in Call
    BY StepsTyped, PlanIsCall, CallWith DEF IInv, TypeOK
  <2> QED
    BY <1>2, <2>1, <2>2, BeginTyped DEF OAuthLogin
<1>3. ASSUME NEW u \in Users, SeedGrants(c, u) PROVE IInv'
  <2>1. [Plan(<<"seed">>) EXCEPT !.area = "tools"] \in Call
    BY StepsTyped, PlanIsCall, CallWith, ConstantsTyped
  <2> QED
    BY <1>3, <2>1, BeginTyped DEF SeedGrants
<1>4. ASSUME NEW u \in Users, NEW on \in BOOLEAN, SetTool(c, u, on) PROVE IInv'
  <2>1. [Plan(<<"seed", "set">>) EXCEPT !.area = "tools", !.on = on] \in Call
    BY StepsTyped, PlanIsCall, CallWith, ConstantsTyped
  <2> QED
    BY <1>4, <2>1, BeginTyped DEF SetTool
<1>5. ASSUME NEW u \in Users, NEW role \in Roles, SetRole(c, u, role) PROVE IInv'
  <2>1. [account[u] EXCEPT !.role = role] \in Account
    <3>1. account[u] \in Account
      BY DEF IInv, TypeOK
    <3> QED
      BY <3>1 DEF Account
  <2>2. [Plan(<<"user">>) EXCEPT !.field = "role", !.account = [account[u] EXCEPT !.role = role]]
          \in Call
    BY <2>1, StepsTyped, PlanIsCall, CallWith, ConstantsTyped
  <2> QED
    BY <1>5, <2>2, BeginTyped DEF SetRole
<1>6. ASSUME NEW u \in Users, NEW status \in {"active", "disabled"}, SetStatus(c, u, status)
      PROVE  IInv'
  <2> DEFINE p == IF status = "disabled" THEN <<"list", "revoke", "user">> ELSE <<"user">>
  <2>1. [account[u] EXCEPT !.status = status] \in Account
    <3> HIDE DEF p
    <3>1. account[u] \in Account
      BY DEF IInv, TypeOK
    <3> QED
      BY ONLY <3>1, status \in {"active", "disabled"} DEF Account
  <2>2. p \in Seq(Steps)
    BY StepsTyped
  <2>3. [Plan(p) EXCEPT !.field = "status", !.account = [account[u] EXCEPT !.status = status]]
          \in Call
    <3> HIDE DEF p
    <3> QED
      BY <2>1, <2>2, PlanIsCall, CallWith, ConstantsTyped
  <2> QED
    BY <1>6, <2>3, BeginTyped DEF SetStatus
<1>7. ASSUME NEW u \in Users, NEW p \in Passwords, Login(c, u, p) PROVE IInv'
  <2>1. [Plan(<<"verify", "session">>) EXCEPT !.key = p] \in Call
    BY StepsTyped, PlanIsCall, CallWith, ConstantsTyped
  <2> QED
    BY <1>7, <2>1, BeginTyped DEF Login
<1>8. ASSUME NEW u \in Users, NEW p \in Passwords, ResetPassword(c, u, p) PROVE IInv'
  <2>1. [Plan(<<"password", "list", "revoke">>) EXCEPT !.new = p] \in Call
    BY StepsTyped, PlanIsCall, CallWith, ConstantsTyped
  <2> QED
    BY <1>8, <2>1, BeginTyped DEF ResetPassword
<1>9. ASSUME NEW u \in Users, NEW p \in Passwords, CreateUser(c, u, p) PROVE IInv'
  <2>1. [Plan(<<"user", "agent", "password">>) EXCEPT !.field = "new", !.new = p] \in Call
    BY StepsTyped, PlanIsCall, CallWith, ConstantsTyped
  <2> QED
    BY <1>9, <2>1, BeginTyped DEF CreateUser
<1>10. ASSUME NEW u \in Users, NEW p \in Passwords, NEW q \in Passwords,
              ChangePassword(c, u, p, q)
       PROVE  IInv'
  <2>1. [Plan(<<"verify", "password", "list", "revoke">>) EXCEPT !.key = p, !.new = q] \in Call
    BY StepsTyped, PlanIsCall, CallWith, ConstantsTyped
  <2> QED
    BY <1>10, <2>1, BeginTyped DEF ChangePassword
<1> QED
  BY <1>1, <1>2, <1>3, <1>4, <1>5, <1>6, <1>7, <1>8, <1>9, <1>10 DEF Comes
---------------------------------------------------------------------------
(* Handlers go on.                                                         *)

\* What a handler that has something to do knows of itself.
LEMMA AtTyped ==
    ASSUME IInv, NEW c \in Threads, NEW step, At(c, step)
    PROVE  /\ call[c] \in Call /\ call[c] # Idle /\ call[c].user \in Users
           /\ Next1(c) \in Call /\ Next1(c).user \in Users
           /\ \A s \in Steps : Insert(c, s) \in Call /\ Insert(c, s).user \in Users
<1>1. call[c] \in Call /\ call[c] # Idle
  BY DEF IInv, TypeOK, At, Idle
<1>2. call[c].user \in Users
  BY <1>1 DEF IInv, AtWorkOnUsers
<1>3. Tail(call[c].plan) \in Seq(Steps)
  BY <1>1 DEF At, Call
<1>4. \A s \in Steps : <<s>> \o Tail(call[c].plan) \in Seq(Steps)
  BY <1>3
<1> QED
  BY <1>1, <1>2, <1>3, <1>4 DEF Next1, Insert, Call

LEMMA GoOnTyped ==
    ASSUME IInv, NEW c \in Threads, NEW h \in Call, h.user \in Users \/ h = Idle, GoOn(c, h)
    PROVE  /\ call' \in [Threads -> Call] /\ AtWorkOnUsers'
           /\ raced' = raced /\ broken' = broken /\ made' = made /\ faults' = faults
<1>1. Rest(h) \in Call /\ (Rest(h) # Idle => Rest(h).user \in Users)
  BY IdleIsCall DEF Rest
<1> QED
  BY <1>1 DEF GoOn, IInv, TypeOK, AtWorkOnUsers

\* What is left to show of a step after which the handler goes on.
LEMMA GoesOn ==
    ASSUME IInv, NEW c \in Threads, NEW h \in Call, h.user \in Users \/ h = Idle, GoOn(c, h),
           account' \in [Users -> Account], agents' \in SUBSET Users,
           password' \in [Users -> Keys], members' \in SUBSET Users,
           sessions' \in Seq(Session), grants' \in [Users -> Seq(BOOLEAN)],
           ordered' \in [Users -> Account], allowed' \in [Users -> {"unset", "yes", "no"}]
    PROVE  IInv'
BY GoOnTyped DEF IInv, TypeOK

LEMMA GoesTyped ==
    ASSUME IInv, NEW c \in Threads, Goes(c)
    PROVE  IInv'
<1> DEFINE u == call[c].user
<1> USE DEF IInv, TypeOK
<1>1. CASE SaveUser(c)
  <2>1. call[c] \in Call /\ u \in Users /\ Next1(c) \in Call /\ Next1(c).user \in Users
    BY <1>1, AtTyped DEF SaveUser
  <2>2. call[c].account \in Account /\ call[c].account.status \in {"active", "disabled"}
        /\ call[c].account.role \in Roles
    BY <2>1 DEF Call, Account
  <2>3. account' \in [Users -> Account]
    BY <1>1, <2>1, <2>2 DEF SaveUser
  <2>4. ordered' \in [Users -> Account]
    <3>1. /\ [ordered[u] EXCEPT !.status = call[c].account.status] \in Account
          /\ [ordered[u] EXCEPT !.role = call[c].account.role] \in Account
      BY <2>1, <2>2 DEF Account
    <3> QED
      BY <1>1, <2>1, <2>2, <3>1 DEF SaveUser
  <2> QED
    BY <1>1, <2>1, <2>3, <2>4, GoesOn DEF SaveUser
<1>2. CASE SaveAgent(c)
  BY <1>2, AtTyped, GoesOn DEF SaveAgent, history
<1>3. CASE Verify(c)
  BY <1>3, AtTyped, GoesOn, IdleIsCall DEF Verify, history, records
<1>4. CASE SavePassword(c)
  <2>1. call[c].new \in Keys
    BY <1>4, AtTyped DEF SavePassword, Call
  <2> QED
    BY <1>4, <2>1, AtTyped, GoesOn DEF SavePassword, history
<1>5. CASE ListSessions(c)
  <2> DEFINE h == [Next1(c) EXCEPT !.todo = LiveSessions(call[c].user)]
  <2>1. LiveSessions(call[c].user) \in SUBSET Nat
    BY DEF LiveSessions
  <2>2. Next1(c) \in Call /\ Next1(c).user \in Users
    BY <1>5, AtTyped DEF ListSessions
  <2>3. h \in Call /\ h.user \in Users
    BY <2>1, <2>2 DEF Call
  <2> QED
    BY <1>5, <2>3, GoesOn DEF ListSessions, history, records
<1>6. CASE Revoke(c)
  <2>1. CASE call[c].todo = {} /\ GoOn(c, Next1(c)) /\ UNCHANGED sessions
    BY <1>6, <2>1, AtTyped, GoesOn DEF Revoke, history
  <2>2. ASSUME NEW s \in call[c].todo,
               sessions' = [sessions EXCEPT ![s].live = FALSE],
               GoOn(c, [call[c] EXCEPT !.todo = @ \ {s}])
        PROVE  IInv'
    <3>1. [call[c] EXCEPT !.todo = @ \ {s}] \in Call
          /\ [call[c] EXCEPT !.todo = @ \ {s}].user \in Users
      BY <1>6, AtTyped DEF Revoke, Call
    <3>2. sessions' \in Seq(Session)
      <4>1. CASE s \in 1..Len(sessions)
        <5>1. sessions[s] \in Session
          BY <4>1
        <5>2. [sessions[s] EXCEPT !.live = FALSE] \in Session
          BY <5>1 DEF Session
        <5> QED
          BY <2>2, <4>1, <5>2, ExceptSeq
      <4>2. CASE s \notin 1..Len(sessions)
        <5>1. sessions' = sessions
          BY <2>2, <4>2
        <5> QED
          BY <5>1
      <4> QED
        BY <4>1, <4>2
    <3> QED
      BY <1>6, <2>2, <3>1, <3>2, GoesOn DEF Revoke, history
  <2> QED
    BY <1>6, <2>1, <2>2 DEF Revoke
<1>7. CASE IssueSession(c)
  <2> DEFINE issued == [user |-> u, key |-> call[c].key, live |-> TRUE]
  <2>1. issued \in Session
    BY <1>7, AtTyped DEF IssueSession, Call, Session
  <2>2. sessions' = Append(sessions, issued)
    BY <1>7 DEF IssueSession
  <2>3. sessions' \in Seq(Session)
    <3> HIDE DEF issued
    <3> QED
      BY <2>1, <2>2
  <2> QED
    BY <1>7, <2>3, AtTyped, GoesOn DEF IssueSession, history
<1>8. CASE ReadProject(c)
  <2> DEFINE h == [Insert(c, "member") EXCEPT !.members = members \cup {u}]
  <2>1. Insert(c, "member") \in Call /\ Insert(c, "member").user \in Users /\ u \in Users
    BY <1>8, AtTyped DEF ReadProject, Steps
  <2>2. h \in Call /\ h.user \in Users
    BY <2>1 DEF Call
  <2> QED
    BY <1>8, <2>2, AtTyped, GoesOn DEF ReadProject, history, records
<1>9. CASE SaveProject(c)
  <2>1. call[c].members \in SUBSET Users
    BY <1>9, AtTyped DEF SaveProject, Call
  <2> QED
    BY <1>9, <2>1, AtTyped, GoesOn DEF SaveProject, history
<1>10. CASE ReadForSeed(c)
  BY <1>10, AtTyped, GoesOn DEF ReadForSeed, history, records, Steps
<1>11. CASE ReadForSet(c)
  <2> DEFINE h == [Insert(c, "grant") EXCEPT !.at = Len(grants[u])]
  <2>1. u \in Users /\ Len(grants[u]) \in Nat
    BY <1>11, AtTyped DEF ReadForSet
  <2>2. h \in Call /\ h.user \in Users
    <3>1. Insert(c, "grant") \in Call /\ Insert(c, "grant").user \in Users
      BY <1>11, AtTyped DEF ReadForSet, Steps
    <3> QED
      BY <2>1, <3>1 DEF Call
  <2>3. allowed' \in [Users -> {"unset", "yes", "no"}]
    BY <1>11, <2>1 DEF ReadForSet
  <2> QED
    BY <1>11, <2>2, <2>3, AtTyped, GoesOn DEF ReadForSet, records
<1>12. CASE SaveDefault(c)
  <2>1. u \in Users
    BY <1>12, AtTyped DEF SaveDefault
  <2>2. grants' \in [Users -> Seq(BOOLEAN)]
    BY <1>12, <2>1 DEF SaveDefault
  <2> QED
    BY <1>12, <2>2, AtTyped, GoesOn DEF SaveDefault, history
<1>13. CASE SaveGrant(c)
  <2>1. u \in Users /\ call[c].on \in BOOLEAN /\ call[c].at \in Nat
    BY <1>13, AtTyped DEF SaveGrant, Call
  <2>2. /\ Append(grants[u], call[c].on) \in Seq(BOOLEAN)
        /\ [grants[u] EXCEPT ![call[c].at] = call[c].on] \in Seq(BOOLEAN)
    <3>1. grants[u] \in Seq(BOOLEAN)
      BY <2>1
    <3> HIDE DEF u
    <3> QED
      BY <2>1, <3>1, ExceptAnywhere
  <2>3. grants' \in [Users -> Seq(BOOLEAN)] /\ allowed' \in [Users -> {"unset", "yes", "no"}]
    BY <1>13, <2>1, <2>2 DEF SaveGrant
  <2> QED
    BY <1>13, <2>3, AtTyped, GoesOn DEF SaveGrant
<1> QED
  BY <1>1, <1>2, <1>3, <1>4, <1>5, <1>6, <1>7, <1>8, <1>9, <1>10, <1>11, <1>12, <1>13 DEF Goes

LEMMA DieTyped ==
    ASSUME IInv, NEW c \in Threads, Die(c)
    PROVE  IInv'
<1>1. call' \in [Threads -> Call] /\ AtWorkOnUsers'
  BY IdleIsCall DEF Die, IInv, TypeOK, AtWorkOnUsers
<1>2. broken' \in SUBSET Users
  BY DEF Die, IInv, TypeOK, AtWorkOnUsers
<1>3. faults' \in 0..MaxFaults
  BY AccountsAssumption DEF Die, IInv, TypeOK
<1> QED
  BY <1>1, <1>2, <1>3 DEF Die, IInv, TypeOK, records, history

---------------------------------------------------------------------------
LEMMA InitTyped == Init => IInv
<1> SUFFICES ASSUME Init PROVE IInv
  OBVIOUS
<1>1. account \in [Users -> Account] /\ ordered \in [Users -> Account]
  <2>1. \A b \in BOOLEAN : [NewAccount EXCEPT !.exists = b] \in Account
    BY AccountsAssumption DEF NewAccount, Account
  <2>2. \A u \in Users : (u \in Seeded) \in BOOLEAN
    OBVIOUS
  <2>3. \A u \in Users : [NewAccount EXCEPT !.exists = (u \in Seeded)] \in Account
    BY <2>1, <2>2
  <2> QED
    BY <2>3 DEF Init
<1>2. password \in [Users -> Keys]
  BY DEF Init, Keys
<1>3. call \in [Threads -> Call] /\ AtWorkOnUsers
  BY IdleIsCall DEF Init, AtWorkOnUsers
<1> QED
  BY <1>1, <1>2, <1>3, AccountsAssumption DEF Init, IInv, TypeOK

\* The records of accounts, the copies that handlers hold of them and what is remembered of
\* orders keep their types, however logins, PATCHes and deaths of handlers interleave.
THEOREM AccountsTypeCorrect == Spec => []TypeOK
<1>1. IInv /\ [Next]_vars => IInv'
  <2> SUFFICES ASSUME IInv, [Next]_vars PROVE IInv'
    OBVIOUS
  <2>1. CASE UNCHANGED vars
    BY <2>1 DEF vars, records, history, IInv, TypeOK, AtWorkOnUsers
  <2>2. ASSUME NEW c \in Threads, Comes(c) \/ Goes(c) \/ Die(c) PROVE IInv'
    BY <2>2, ComesTyped, GoesTyped, DieTyped
  <2> QED
    BY <2>1, <2>2 DEF Next
<1>2. IInv => TypeOK
  BY DEF IInv
<1> QED
  BY InitTyped, <1>1, <1>2, PTL DEF Spec

---------------------------------------------------------------------------
(* What a handler has still to do, by what it is about.                    *)

Creating == <<"user", "agent", "password">>
CreatingAgent == <<"agent", "password">>
CreatingPassword == <<"password">>

Entering == <<"user", "agent", "project", "session">>
EnteringAgent == <<"agent", "project", "session">>
Joining == <<"project", "session">>
JoiningMember == <<"member", "session">>
Refreshing == <<"project", "user", "session">>
RefreshingMember == <<"member", "user", "session">>
RefreshingUser == <<"user", "session">>
LoggingIn == <<"verify", "session">>
Issuing == <<"session">>

Renewing == <<"verify", "password", "list", "revoke">>
Resetting == <<"password", "list", "revoke">>
Listing == <<"list", "revoke">>
Ending == <<"revoke">>

Disabling == <<"list", "revoke", "user">>
DisablingNext == <<"revoke", "user">>
Changing == <<"user">>

Seeding == <<"seed">>
SeedingToSet == <<"seed", "set">>
Defaulting == <<"default">>
DefaultingToSet == <<"default", "set">>
Setting == <<"set">>
Granting == <<"grant">>

AccountPlans == {Creating, CreatingAgent, CreatingPassword, Entering, EnteringAgent, Joining,
                 JoiningMember, Refreshing, RefreshingMember, RefreshingUser, LoggingIn, Issuing,
                 Renewing, Resetting, Listing, Ending, Disabling, DisablingNext, Changing}
ToolPlans == {Seeding, SeedingToSet, Defaulting, DefaultingToSet, Setting, Granting}

LEMMA AccountPlansGoOn ==
    /\ Creating # <<>> /\ Head(Creating) = "user" /\ Tail(Creating) = CreatingAgent
    /\ CreatingAgent # <<>> /\ Head(CreatingAgent) = "agent"
    /\ Tail(CreatingAgent) = CreatingPassword
    /\ CreatingPassword # <<>> /\ Head(CreatingPassword) = "password"
    /\ Tail(CreatingPassword) = <<>>
    /\ Entering # <<>> /\ Head(Entering) = "user" /\ Tail(Entering) = EnteringAgent
    /\ EnteringAgent # <<>> /\ Head(EnteringAgent) = "agent" /\ Tail(EnteringAgent) = Joining
    /\ Joining # <<>> /\ Head(Joining) = "project" /\ Tail(Joining) = Issuing
    /\ JoiningMember # <<>> /\ Head(JoiningMember) = "member" /\ Tail(JoiningMember) = Issuing
    /\ Refreshing # <<>> /\ Head(Refreshing) = "project" /\ Tail(Refreshing) = RefreshingUser
    /\ RefreshingMember # <<>> /\ Head(RefreshingMember) = "member"
    /\ Tail(RefreshingMember) = RefreshingUser
    /\ RefreshingUser # <<>> /\ Head(RefreshingUser) = "user" /\ Tail(RefreshingUser) = Issuing
    /\ LoggingIn # <<>> /\ Head(LoggingIn) = "verify" /\ Tail(LoggingIn) = Issuing
    /\ Issuing # <<>> /\ Head(Issuing) = "session" /\ Tail(Issuing) = <<>>
    /\ Renewing # <<>> /\ Head(Renewing) = "verify" /\ Tail(Renewing) = Resetting
    /\ Resetting # <<>> /\ Head(Resetting) = "password" /\ Tail(Resetting) = Listing
    /\ Listing # <<>> /\ Head(Listing) = "list" /\ Tail(Listing) = Ending
    /\ Ending # <<>> /\ Head(Ending) = "revoke" /\ Tail(Ending) = <<>>
    /\ Disabling # <<>> /\ Head(Disabling) = "list" /\ Tail(Disabling) = DisablingNext
    /\ DisablingNext # <<>> /\ Head(DisablingNext) = "revoke" /\ Tail(DisablingNext) = Changing
    /\ Changing # <<>> /\ Head(Changing) = "user" /\ Tail(Changing) = <<>>
BY DEF Creating, CreatingAgent, CreatingPassword, Entering, EnteringAgent, Joining, JoiningMember,
       Refreshing, RefreshingMember, RefreshingUser, LoggingIn, Issuing, Renewing, Resetting,
       Listing, Ending, Disabling, DisablingNext, Changing

LEMMA ToolPlansGoOn ==
    /\ Seeding # <<>> /\ Head(Seeding) = "seed" /\ Tail(Seeding) = <<>>
    /\ SeedingToSet # <<>> /\ Head(SeedingToSet) = "seed" /\ Tail(SeedingToSet) = Setting
    /\ Defaulting # <<>> /\ Head(Defaulting) = "default" /\ Tail(Defaulting) = <<>>
    /\ DefaultingToSet # <<>> /\ Head(DefaultingToSet) = "default"
    /\ Tail(DefaultingToSet) = Setting
    /\ Setting # <<>> /\ Head(Setting) = "set" /\ Tail(Setting) = <<>>
    /\ Granting # <<>> /\ Head(Granting) = "grant" /\ Tail(Granting) = <<>>
BY DEF Seeding, SeedingToSet, Defaulting, DefaultingToSet, Setting, Granting

\* Plans that begin alike differ in how they go on.
LEMMA PlansDiffer ==
    /\ Creating # Entering /\ Creating # RefreshingUser /\ Creating # Changing
    /\ Entering # RefreshingUser /\ Entering # Changing /\ RefreshingUser # Changing
    /\ CreatingAgent # EnteringAgent /\ CreatingPassword # Resetting
    /\ Joining # Refreshing /\ JoiningMember # RefreshingMember
    /\ LoggingIn # Renewing /\ Listing # Disabling /\ Ending # DisablingNext
    /\ Seeding # SeedingToSet /\ Defaulting # DefaultingToSet
    /\ Head(Creating) = "user" /\ Head(Entering) = "user" /\ Head(RefreshingUser) = "user"
    /\ Head(Changing) = "user" /\ Head(CreatingAgent) = "agent" /\ Head(EnteringAgent) = "agent"
    /\ Head(CreatingPassword) = "password" /\ Head(Resetting) = "password"
    /\ Head(Joining) = "project" /\ Head(Refreshing) = "project"
    /\ Head(JoiningMember) = "member" /\ Head(RefreshingMember) = "member"
    /\ Head(LoggingIn) = "verify" /\ Head(Renewing) = "verify"
    /\ Head(Listing) = "list" /\ Head(Disabling) = "list"
    /\ Head(Ending) = "revoke" /\ Head(DisablingNext) = "revoke" /\ Head(Issuing) = "session"
    /\ Head(Seeding) = "seed" /\ Head(SeedingToSet) = "seed"
    /\ Head(Defaulting) = "default" /\ Head(DefaultingToSet) = "default"
    /\ Head(Setting) = "set" /\ Head(Granting) = "grant"
    /\ \A p \in AccountPlans \cup ToolPlans : p # <<>>
<1>1. /\ CreatingPassword # Resetting /\ LoggingIn # Renewing /\ Listing # Disabling
      /\ Ending # DisablingNext /\ Seeding # SeedingToSet /\ Defaulting # DefaultingToSet
  BY AccountPlansGoOn, ToolPlansGoOn
<1>2. /\ CreatingAgent # EnteringAgent /\ Joining # Refreshing
      /\ JoiningMember # RefreshingMember
  BY AccountPlansGoOn
<1>3. /\ Creating # Entering /\ Creating # RefreshingUser /\ Creating # Changing
      /\ Entering # RefreshingUser /\ Entering # Changing /\ RefreshingUser # Changing
  BY <1>2, AccountPlansGoOn
<1>4. \A p \in AccountPlans \cup ToolPlans : p # <<>>
  BY AccountPlansGoOn, ToolPlansGoOn DEF AccountPlans, ToolPlans
<1> QED
  BY <1>1, <1>2, <1>3, <1>4, AccountPlansGoOn, ToolPlansGoOn

\* Steps that are put before the rest of a plan.
LEMMA Inserted ==
    /\ <<"member">> \o Issuing = JoiningMember
    /\ <<"member">> \o RefreshingUser = RefreshingMember
    /\ <<"default">> \o <<>> = Defaulting
    /\ <<"default">> \o Setting = DefaultingToSet
    /\ <<"grant">> \o <<>> = Granting
<1>1. ASSUME NEW a PROVE <<a>> \o <<>> = <<a>>
  <2>1. <<a>> \in Seq({a})
    OBVIOUS
  <2> QED
    BY <2>1, ConcatEmptySeq
<1>2. ASSUME NEW a, NEW b PROVE <<a>> \o <<b>> = <<a, b>>
  <2> DEFINE s == <<a>> \o <<b>>
  <2>1. s \in Seq({a, b}) /\ <<a, b>> \in Seq({a, b}) /\ Len(s) = Len(<<a, b>>)
    OBVIOUS
  <2>2. \A i \in 1..Len(s) : s[i] = <<a, b>>[i]
    OBVIOUS
  <2> QED
    BY <2>1, <2>2, SeqEqual
<1>3. ASSUME NEW a, NEW b, NEW d PROVE <<a>> \o <<b, d>> = <<a, b, d>>
  <2> DEFINE s == <<a>> \o <<b, d>>
  <2>1. s \in Seq({a, b, d}) /\ <<a, b, d>> \in Seq({a, b, d}) /\ Len(s) = Len(<<a, b, d>>)
    OBVIOUS
  <2>2. \A i \in 1..Len(s) : s[i] = <<a, b, d>>[i]
    OBVIOUS
  <2> QED
    BY <2>1, <2>2, SeqEqual
<1> QED
  BY <1>1, <1>2, <1>3 DEF Issuing, JoiningMember, RefreshingUser, RefreshingMember, Defaulting,
     Setting, DefaultingToSet, Granting

---------------------------------------------------------------------------
(* What holds of handlers, whether they take turns or not.                 *)

\* The account is made by the step that the handler is at, or its agent is.
Makes(h) == h.plan \in {Creating, Entering}
MakesAgent(h) == h.plan \in {CreatingAgent, EnteringAgent}
Joins(h) == h.plan \in {JoiningMember, RefreshingMember}
Refreshes(h) == h.plan \in {Refreshing, RefreshingMember, RefreshingUser}
ByOAuth(h) == \/ h.plan \in {Entering, EnteringAgent, Joining, JoiningMember}
              \/ Refreshes(h)
Disables(h) == h.plan \in {Disabling, DisablingNext}
Changes(h) == h.plan = Changing \/ Disables(h)
Seeds(h) == h.plan \in {Defaulting, DefaultingToSet}
Ends(h) == h.plan \in {Listing, Ending}

CallFits(h) ==
    /\ h.account.exists
    /\ h.plan = <<>> => h = Idle
    /\ h.plan # <<>> => IF h.area = "tools" THEN h.plan \in ToolPlans ELSE h.plan \in AccountPlans
    /\ Makes(h) => h.field = "new" /\ h.account = NewAccount
    /\ Changes(h) => h.field \in {"status", "role"}
    /\ Disables(h) => h.field = "status" /\ h.account.status = "disabled"
    /\ Refreshes(h) => h.field = "none"
    /\ ByOAuth(h) => h.key = NoPassword /\ h.user \in Federated
    /\ h.plan = Issuing /\ h.key = NoPassword => h.user \in Federated
    /\ h.plan = LoggingIn => h.key # NoPassword
    /\ Seeds(h) => h.user \in Seeded

CallsFit == \A c \in Threads : CallFits(call[c])

\* At work on an account or on the tools of its agent.
Of(c, u, area) == call[c].user = u /\ call[c].area = area

\* Whoever has a session has an account, and so has whoever is served.
AccountsExist ==
    /\ \A s \in DOMAIN sessions :
          /\ account[sessions[s].user].exists
          /\ sessions[s].key = NoPassword => sessions[s].user \in Federated
    /\ \A c \in Threads, u \in Users :
          Of(c, u, "account") /\ ~Makes(call[c]) => account[u].exists

AgentsFollow ==
    \A u \in Users : account[u].exists /\ u \notin broken /\ u \notin agents =>
        \E c \in Threads : Of(c, u, "account") /\ MakesAgent(call[c])

---------------------------------------------------------------------------
(* Where they take turns.                                                  *)

Alone(c, u, area) == \A d \in Threads \ {c} : ~Shares(d, u, area)

TurnsTaken ==
    \A u \in Users, area \in Areas : <<u, area>> \notin raced =>
        \A c \in Threads : Of(c, u, area) => Alone(c, u, area)

\* Nobody who logs in was shut out, and a copy differs from the record in what is ordered.
OrderKept(u) ==
    /\ account[u] = ordered[u]
    /\ account[u].status = "disabled" => LiveSessions(u) = {}

OrderFits(h, u) ==
    /\ Refreshes(h) => h.account = account[u]
    /\ Changes(h) /\ h.field = "status" =>
          h.account = [account[u] EXCEPT !.status = h.account.status]
    /\ Changes(h) /\ h.field = "role" => h.account = [account[u] EXCEPT !.role = h.account.role]
    /\ (h.plan \in {LoggingIn, Issuing} \/ ByOAuth(h)) /\ ~Makes(h) => account[u].status = "active"
    /\ h.plan = DisablingNext => LiveSessions(u) \subseteq h.todo
    /\ h.plan = Changing /\ h.account.status = "disabled" => LiveSessions(u) = {}

OrdersOf(u) ==
    <<u, "account">> \notin raced =>
        OrderKept(u) /\ \A c \in Threads : Of(c, u, "account") => OrderFits(call[c], u)

\* Sessions that a change of the password should have ended.
Stale(u) == {s \in LiveSessions(u) : sessions[s].key \notin {NoPassword, password[u]}}

KeyFits(h, u) ==
    /\ h.plan = Issuing => h.key \in {NoPassword, password[u]}
    /\ h.plan \in {Creating, CreatingAgent, CreatingPassword} => LiveSessions(u) = {}
    /\ h.plan = Ending => Stale(u) \subseteq h.todo

KeysOf(u) ==
    <<u, "account">> \notin raced /\ u \notin broken =>
        /\ \A c \in Threads : Of(c, u, "account") => KeyFits(call[c], u)
        /\ (\A c \in Threads : Of(c, u, "account") => ~Ends(call[c])) => Stale(u) = {}

\* Who came in through OAuth is a member, also in the copies that logins of others save.
SessionsJoined(u) == \A s \in LiveSessions(u) : sessions[s].key = NoPassword => u \in members

MemberFits(h, u) ==
    h.plan \in {Issuing, RefreshingUser} /\ h.key = NoPassword => u \in members

MembersOf(u) ==
    <<u, "account">> \notin raced =>
        /\ SessionsJoined(u)
        /\ \A c \in Threads : Of(c, u, "account") => MemberFits(call[c], u)
        /\ \A c \in Threads : Joins(call[c]) =>
              (u \in call[c].members <=> u \in members \/ call[c].user = u)

\* One grant at most, and it says what was asked for last.
GrantKept(u) ==
    /\ Len(grants[u]) <= 1
    /\ allowed[u] = "yes" => grants[u] # <<>> /\ grants[u][1]
    /\ allowed[u] = "no" => IF grants[u] = <<>> THEN u \notin Seeded ELSE ~grants[u][1]

GrantFits(h, u) ==
    /\ Seeds(h) => grants[u] = <<>>
    /\ h.plan \in {Setting, Granting} /\ u \in Seeded => grants[u] # <<>>
    /\ h.plan = Granting => h.at = Len(grants[u])

GrantsOf(u) ==
    <<u, "tools">> \notin raced =>
        GrantKept(u) /\ \A c \in Threads : Of(c, u, "tools") => GrantFits(call[c], u)

InTurns ==
    /\ \A u \in Users : OrdersOf(u) /\ KeysOf(u) /\ GrantsOf(u)
    /\ \A u \in Federated : MembersOf(u)

Fits == IInv /\ CallsFit /\ AccountsExist /\ AgentsFollow /\ TurnsTaken /\ InTurns

---------------------------------------------------------------------------
(* What a step leaves alone.                                               *)

CallsStay(v, area) ==
    \A d \in Threads : /\ Of(d, v, area)' <=> Of(d, v, area)
                       /\ Of(d, v, area) => call'[d] = call[d]

SessionsStay(v) ==
    \A s \in LiveSessions(v)' : s \in LiveSessions(v) /\ sessions'[s].key = sessions[s].key

RecordsStay(v) ==
    /\ account'[v] = account[v] /\ ordered'[v] = ordered[v] /\ password'[v] = password[v]
    /\ SessionsStay(v)

LEMMA OrdersStay ==
    ASSUME NEW v \in Users, OrdersOf(v), RecordsStay(v), CallsStay(v, "account"),
           raced \subseteq raced'
    PROVE  OrdersOf(v)'
<1> SUFFICES ASSUME <<v, "account">> \notin raced'
             PROVE  /\ OrderKept(v)'
                    /\ \A d \in Threads : Of(d, v, "account")' => OrderFits(call[d], v)'
  BY DEF OrdersOf
<1>1. OrderKept(v) /\ \A d \in Threads : Of(d, v, "account") => OrderFits(call[d], v)
  BY DEF OrdersOf
<1>2. LiveSessions(v)' \subseteq LiveSessions(v)
  BY DEF RecordsStay, SessionsStay
<1>3. OrderKept(v)'
  BY <1>1, <1>2 DEF OrderKept, RecordsStay
<1>4. ASSUME NEW d \in Threads, Of(d, v, "account")' PROVE OrderFits(call[d], v)'
  <2>1. call'[d] = call[d] /\ OrderFits(call[d], v)
    BY <1>1, <1>4 DEF CallsStay
  <2> QED
    BY <1>2, <2>1 DEF OrderFits, RecordsStay, Refreshes, Changes, Disables, ByOAuth, Makes
<1> QED
  BY <1>3, <1>4

LEMMA KeysStay ==
    ASSUME NEW v \in Users, KeysOf(v), RecordsStay(v), CallsStay(v, "account"),
           raced \subseteq raced', broken \subseteq broken'
    PROVE  KeysOf(v)'
<1> SUFFICES ASSUME <<v, "account">> \notin raced', v \notin broken'
             PROVE  /\ \A d \in Threads : Of(d, v, "account")' => KeyFits(call[d], v)'
                    /\ (\A d \in Threads : Of(d, v, "account")' => ~Ends(call[d])')
                          => Stale(v)' = {}
  BY DEF KeysOf
<1>1. /\ \A d \in Threads : Of(d, v, "account") => KeyFits(call[d], v)
      /\ (\A d \in Threads : Of(d, v, "account") => ~Ends(call[d])) => Stale(v) = {}
  BY DEF KeysOf
<1>2. LiveSessions(v)' \subseteq LiveSessions(v) /\ Stale(v)' \subseteq Stale(v)
  BY DEF RecordsStay, SessionsStay, Stale
<1>3. ASSUME NEW d \in Threads, Of(d, v, "account")' PROVE KeyFits(call[d], v)'
  <2>1. call'[d] = call[d] /\ KeyFits(call[d], v)
    BY <1>1, <1>3 DEF CallsStay
  <2> QED
    BY <1>2, <2>1 DEF KeyFits, RecordsStay
<1>4. ASSUME \A d \in Threads : Of(d, v, "account")' => ~Ends(call[d])' PROVE Stale(v)' = {}
  <2>1. \A d \in Threads : Of(d, v, "account") => ~Ends(call[d])
    BY <1>4 DEF CallsStay, Ends
  <2> QED
    BY <1>1, <1>2, <2>1
<1> QED
  BY <1>3, <1>4

LEMMA GrantsStay ==
    ASSUME NEW v \in Users, GrantsOf(v), grants'[v] = grants[v], allowed'[v] = allowed[v],
           CallsStay(v, "tools"), raced \subseteq raced'
    PROVE  GrantsOf(v)'
<1> SUFFICES ASSUME <<v, "tools">> \notin raced'
             PROVE  GrantKept(v)' /\ \A d \in Threads : Of(d, v, "tools")' => GrantFits(call[d], v)'
  BY DEF GrantsOf
<1>1. GrantKept(v) /\ \A d \in Threads : Of(d, v, "tools") => GrantFits(call[d], v)
  BY DEF GrantsOf
<1>2. ASSUME NEW d \in Threads, Of(d, v, "tools")' PROVE GrantFits(call[d], v)'
  <2>1. call'[d] = call[d] /\ GrantFits(call[d], v)
    BY <1>1, <1>2 DEF CallsStay
  <2> QED
    BY <2>1 DEF GrantFits, Seeds
<1> QED
  BY <1>1, <1>2 DEF GrantKept

\* Of a member of the project, where a login of another may save the members.
LEMMA MembersStay ==
    ASSUME NEW v \in Users, MembersOf(v), SessionsStay(v), CallsStay(v, "account"),
           raced \subseteq raced',
           <<v, "account">> \notin raced' =>
               /\ v \in members' <=> v \in members
               /\ \A d \in Threads : Joins(call[d])' =>
                     \/ call'[d] = call[d]
                     \/ v \in call'[d].members <=> v \in members \/ call'[d].user = v
    PROVE  MembersOf(v)'
<1> SUFFICES ASSUME <<v, "account">> \notin raced'
             PROVE  /\ SessionsJoined(v)'
                    /\ \A d \in Threads : Of(d, v, "account")' => MemberFits(call[d], v)'
                    /\ \A d \in Threads : Joins(call[d])' =>
                          (v \in call'[d].members <=> v \in members' \/ call'[d].user = v)
  BY DEF MembersOf
<1>1. /\ SessionsJoined(v)
      /\ \A d \in Threads : Of(d, v, "account") => MemberFits(call[d], v)
      /\ \A d \in Threads : Joins(call[d]) =>
            (v \in call[d].members <=> v \in members \/ call[d].user = v)
  BY DEF MembersOf
<1>2. SessionsJoined(v)'
  BY <1>1 DEF SessionsJoined, SessionsStay
<1>3. ASSUME NEW d \in Threads, Of(d, v, "account")' PROVE MemberFits(call[d], v)'
  BY <1>1, <1>3 DEF CallsStay, MemberFits
<1>4. ASSUME NEW d \in Threads, Joins(call[d])'
      PROVE  v \in call'[d].members <=> v \in members' \/ call'[d].user = v
  BY <1>1, <1>4 DEF Joins
<1> QED
  BY <1>2, <1>3, <1>4

LEMMA IdleFits ==
    /\ Idle \in Call /\ CallFits(Idle) /\ Idle.plan = <<>> /\ Idle.user \notin Users
    /\ ~Joins(Idle) /\ ~Ends(Idle) /\ ~Makes(Idle) /\ ~MakesAgent(Idle) /\ ~Seeds(Idle)
    /\ \A u : OrderFits(Idle, u) /\ KeyFits(Idle, u) /\ MemberFits(Idle, u) /\ GrantFits(Idle, u)
<1>1. /\ Idle \in Call /\ Idle.plan = <<>> /\ Idle.user \notin Users /\ Idle.account.exists
  BY IdleIsCall, AccountsAssumption DEF Idle, NewAccount
<1>2. /\ ~Joins(Idle) /\ ~Ends(Idle) /\ ~Makes(Idle) /\ ~MakesAgent(Idle) /\ ~Seeds(Idle)
      /\ ~Refreshes(Idle) /\ ~ByOAuth(Idle) /\ ~Disables(Idle) /\ ~Changes(Idle)
      /\ Idle.plan \notin AccountPlans \cup ToolPlans
  BY <1>1, AccountPlansGoOn, ToolPlansGoOn
     DEF Joins, Ends, Makes, MakesAgent, Seeds, Refreshes, ByOAuth, Disables, Changes,
         AccountPlans, ToolPlans
<1>3. CallFits(Idle)
  BY <1>1, <1>2 DEF CallFits, AccountPlans
<1> QED
  BY <1>1, <1>2, <1>3 DEF OrderFits, KeyFits, MemberFits, GrantFits, AccountPlans, ToolPlans

---------------------------------------------------------------------------
(* A step of one handler.                                                  *)

\* Handlers that go on or end, none comes in: who took turns still does.
LEMMA TurnsStayTaken ==
    ASSUME TurnsTaken, NEW c \in Threads, NEW g \in Call, call \in [Threads -> Call],
           call' = [call EXCEPT ![c] = g],
           g.user \in Users => g.user = call[c].user /\ g.area = call[c].area,
           g # Idle => call[c] # Idle /\ g.user \in Users,
           raced' = raced
    PROVE  TurnsTaken'
<1> SUFFICES ASSUME NEW u \in Users, NEW area \in Areas, <<u, area>> \notin raced',
                    NEW d \in Threads, Of(d, u, area)',
                    NEW e \in Threads \ {d}, Shares(e, u, area)'
             PROVE  FALSE
  BY DEF TurnsTaken, Alone
<1>1. Of(d, u, area)
  BY DEF Of
<1>2. Shares(e, u, area)
  <2>1. CASE e = c
    <3>1. call'[e] = g /\ g # Idle
      BY <2>1 DEF Shares
    <3> QED
      BY <2>1, <3>1 DEF Shares
  <2>2. CASE e # c
    BY <2>2 DEF Shares
  <2> QED
    BY <2>1, <2>2
<1> QED
  BY <1>1, <1>2 DEF TurnsTaken, Alone

\* What is left to show of a step of a handler of an account.
LEMMA AccountStep ==
    ASSUME Fits, IInv', NEW c \in Threads, NEW u \in Users, NEW g \in Call,
           call' = [call EXCEPT ![c] = g], CallFits(g),
           g = Idle \/ (g.user = u /\ g.area = "account"),
           Of(c, u, "account") \/ call[c] = Idle,
           raced \subseteq raced', broken \subseteq broken', TurnsTaken',
           <<u, "account">> \notin raced' => Alone(c, u, "account"),
           grants' = grants, allowed' = allowed,
           \A v \in Users \ {u} : RecordsStay(v),
           AccountsExist', AgentsFollow',
           <<u, "account">> \notin raced' =>
               /\ OrderKept(u)' /\ OrderFits(g, u)'
               /\ u \notin broken' => KeyFits(g, u)' /\ (~Ends(g) => Stale(u)' = {})
               /\ u \in Federated => SessionsJoined(u)' /\ MemberFits(g, u)',
           \A v \in Federated \ {u} : <<v, "account">> \notin raced' =>
               (v \in members' <=> v \in members),
           Joins(g) => \A v \in Federated : v \in g.members <=> v \in members' \/ v = u
    PROVE  Fits'
<1> USE AccountsAssumption
<1>0. call \in [Threads -> Call] /\ call'[c] = g /\ \A d \in Threads \ {c} : call'[d] = call[d]
  BY DEF Fits, IInv, TypeOK
<1>1. CallsFit'
  BY <1>0 DEF Fits, CallsFit
<1>2. \A v \in Users \ {u} : CallsStay(v, "account")
  BY <1>0, IdleFits DEF CallsStay, Of
<1>3. \A v \in Users : CallsStay(v, "tools")
  BY <1>0, IdleFits DEF CallsStay, Of
<1>4. \A v \in Users \ {u} : OrdersOf(v)' /\ KeysOf(v)'
  BY <1>2, OrdersStay, KeysStay DEF Fits, InTurns
<1>5. \A v \in Users : GrantsOf(v)'
  BY <1>3, GrantsStay DEF Fits, InTurns
<1>6. ASSUME NEW v \in Federated \ {u} PROVE MembersOf(v)'
  <2>1. \A d \in Threads : Joins(call[d])' => call'[d] = call[d] \/ d = c
    BY <1>0
  <2>2. ASSUME Joins(call[c])', <<v, "account">> \notin raced'
        PROVE  v \in call'[c].members <=> v \in members \/ call'[c].user = v
    <3>1. Joins(g) /\ g # Idle
      BY <1>0, <2>2, IdleFits DEF Joins
    <3> QED
      BY <1>0, <2>2, <3>1
  <2>3. v \in Users /\ MembersOf(v) /\ SessionsStay(v) /\ CallsStay(v, "account")
    BY <1>2 DEF Fits, InTurns, RecordsStay
  <2> QED
    BY <2>1, <2>2, <2>3, MembersStay
<1>7. ASSUME <<u, "account">> \notin raced', NEW d \in Threads \ {c}
      PROVE  ~Of(d, u, "account")' /\ (u \in Federated => ~Joins(call[d])')
  <2>1. ~Shares(d, u, "account") /\ call'[d] = call[d]
    BY <1>0, <1>7 DEF Alone
  <2>2. ~Of(d, u, "account")
    BY <2>1, IdleFits DEF Shares, Of
  <2>3. ASSUME u \in Federated, Joins(call[d]) PROVE FALSE
    <3>1. call[d].plan \in {JoiningMember, RefreshingMember}
      BY <2>3 DEF Joins
    <3>2. CallFits(call[d]) /\ ByOAuth(call[d]) /\ call[d] # Idle
      BY <2>3, <3>1, IdleFits DEF Fits, CallsFit, ByOAuth, Refreshes
    <3>3. call[d].user \in Federated
      BY <3>2 DEF CallFits
    <3>4. call[d].area # "tools"
      BY <3>1, <3>2, AccountPlansGoOn, ToolPlansGoOn DEF CallFits, ToolPlans
    <3>5. call[d].area = "account"
      BY <1>0, <3>4 DEF Call, Areas
    <3> QED
      BY <2>1, <2>3, <3>2, <3>3, <3>5 DEF Shares
  <2> QED
    BY <2>1, <2>2, <2>3 DEF Of, Joins
<1>8. OrdersOf(u)'
  BY <1>0, <1>7 DEF OrdersOf, OrderFits
<1>9. KeysOf(u)'
  <2> SUFFICES ASSUME <<u, "account">> \notin raced', u \notin broken'
               PROVE  /\ \A d \in Threads : Of(d, u, "account")' => KeyFits(call[d], u)'
                      /\ (\A d \in Threads : Of(d, u, "account")' => ~Ends(call[d])')
                            => Stale(u)' = {}
    BY DEF KeysOf
  <2>1. \A d \in Threads : Of(d, u, "account")' => KeyFits(call[d], u)'
    BY <1>0, <1>7 DEF KeyFits
  <2>2. ASSUME \A d \in Threads : Of(d, u, "account")' => ~Ends(call[d])' PROVE Stale(u)' = {}
    BY <1>0, <2>2, IdleFits DEF Of, Ends
  <2> QED
    BY <2>1, <2>2
<1>10. ASSUME u \in Federated PROVE MembersOf(u)'
  <2> SUFFICES ASSUME <<u, "account">> \notin raced'
               PROVE  /\ SessionsJoined(u)'
                      /\ \A d \in Threads : Of(d, u, "account")' => MemberFits(call[d], u)'
                      /\ \A d \in Threads : Joins(call[d])' =>
                            (u \in call'[d].members <=> u \in members' \/ call'[d].user = u)
    BY DEF MembersOf
  <2>1. \A d \in Threads : Of(d, u, "account")' => MemberFits(call[d], u)'
    BY <1>0, <1>7, <1>10 DEF MemberFits
  <2>2. ASSUME NEW d \in Threads, Joins(call[d])'
        PROVE  u \in call'[d].members <=> u \in members' \/ call'[d].user = u
    <3>1. d = c /\ call'[d] = g
      BY <1>0, <1>7, <1>10, <2>2
    <3>2. Joins(g) /\ g.user = u
      BY <2>2, <3>1, IdleFits DEF Joins
    <3> QED
      BY <1>10, <3>1, <3>2
  <2> QED
    BY <1>10, <2>1, <2>2
<1>11. \A v \in Federated : MembersOf(v)'
  BY <1>6, <1>10
<1>12. InTurns'
  BY <1>4, <1>5, <1>8, <1>9, <1>11 DEF InTurns
<1> QED
  BY <1>1, <1>12 DEF Fits

\* And of a handler of the tools, who leaves the account alone.
LEMMA ToolStep ==
    ASSUME Fits, IInv', NEW c \in Threads, NEW u \in Users, NEW g \in Call,
           call' = [call EXCEPT ![c] = g], CallFits(g),
           g = Idle \/ (g.user = u /\ g.area = "tools"),
           Of(c, u, "tools") \/ call[c] = Idle,
           raced \subseteq raced', broken \subseteq broken', TurnsTaken',
           <<u, "tools">> \notin raced' => Alone(c, u, "tools"),
           account' = account, agents' = agents, password' = password, members' = members,
           sessions' = sessions, ordered' = ordered,
           \A v \in Users \ {u} : grants'[v] = grants[v] /\ allowed'[v] = allowed[v],
           <<u, "tools">> \notin raced' => GrantKept(u)' /\ GrantFits(g, u)'
    PROVE  Fits'
<1> USE AccountsAssumption
<1>0. call \in [Threads -> Call] /\ call'[c] = g /\ \A d \in Threads \ {c} : call'[d] = call[d]
  BY DEF Fits, IInv, TypeOK
<1>1. CallsFit'
  BY <1>0 DEF Fits, CallsFit
<1>2. \A v \in Users : CallsStay(v, "account")
  BY <1>0, IdleFits DEF CallsStay, Of
<1>3. \A v \in Users \ {u} : CallsStay(v, "tools")
  BY <1>0, IdleFits DEF CallsStay, Of
<1>4. \A v \in Users : SessionsStay(v) /\ RecordsStay(v)
  BY DEF RecordsStay, SessionsStay, LiveSessions
<1>5. \A v \in Users : OrdersOf(v)' /\ KeysOf(v)'
  BY <1>2, <1>4, OrdersStay, KeysStay DEF Fits, InTurns
<1>6. \A v \in Users \ {u} : GrantsOf(v)'
  BY <1>3, GrantsStay DEF Fits, InTurns
<1>7. GrantsOf(u)'
  <2> SUFFICES ASSUME <<u, "tools">> \notin raced'
               PROVE  /\ GrantKept(u)'
                      /\ \A d \in Threads : Of(d, u, "tools")' => GrantFits(call[d], u)'
    BY DEF GrantsOf
  <2>1. \A d \in Threads \ {c} : ~Of(d, u, "tools")'
    BY <1>0, IdleFits DEF Alone, Shares, Of
  <2> QED
    BY <1>0, <2>1 DEF GrantFits
<1>8. ~Joins(g) /\ (g # Idle => g.area = "tools")
  <2>1. ASSUME Joins(g) PROVE FALSE
    <3>1. g # Idle /\ g.plan \in {JoiningMember, RefreshingMember}
      BY <2>1, IdleFits DEF Joins
    <3> QED
      BY <3>1, AccountPlansGoOn, ToolPlansGoOn DEF CallFits, ToolPlans
  <2> QED
    BY <2>1
<1>9. \A v \in Federated : MembersOf(v)'
  BY <1>0, <1>2, <1>4, <1>8, MembersStay DEF Fits, InTurns
<1>10. AccountsExist'
  BY <1>2 DEF Fits, AccountsExist, CallsStay, Makes
<1>11. AgentsFollow'
  BY <1>2 DEF Fits, AgentsFollow, CallsStay, MakesAgent
<1> QED
  BY <1>1, <1>5, <1>6, <1>7, <1>9, <1>10, <1>11 DEF Fits, InTurns

---------------------------------------------------------------------------
(* Calls come in.                                                          *)

LEMMA BeginTurns ==
    ASSUME Fits, NEW c \in Threads, NEW u \in Users, NEW h \in Call, NEW g \in Call,
           g = [h EXCEPT !.user = u], Begin(c, u, h)
    PROVE  /\ call[c] = Idle /\ call' = [call EXCEPT ![c] = g] /\ g.user = u /\ g.area = h.area
           /\ raced \subseteq raced' /\ broken' = broken
           /\ <<u, h.area>> \notin raced' => Alone(c, u, h.area)
           /\ TurnsTaken'
<1>1. /\ call[c] = Idle /\ call' = [call EXCEPT ![c] = g] /\ g.user = u /\ g.area = h.area
      /\ raced \subseteq raced' /\ broken' = broken
  BY DEF Begin, Call
<1>2. \A d \in Threads : Shares(d, u, h.area) =>
          <<u, h.area>> \in raced' /\ <<call[d].user, h.area>> \in raced'
  BY DEF Begin
<1>3. \A d \in Threads \ {c} : call'[d] = call[d]
  BY <1>1 DEF Fits, IInv, TypeOK
<1>4. call'[c] = g
  BY <1>1 DEF Fits, IInv, TypeOK
<1>5. ASSUME NEW v \in Users, NEW area \in Areas, <<v, area>> \notin raced',
             NEW d \in Threads, Of(d, v, area)', NEW e \in Threads \ {d}, Shares(e, v, area)'
      PROVE  FALSE
  <2>1. CASE d # c /\ e # c
    <3>1. Of(d, v, area) /\ Shares(e, v, area)
      BY <1>3, <1>5, <2>1 DEF Of, Shares
    <3> QED
      BY <1>1, <1>5, <3>1 DEF Fits, TurnsTaken, Alone
  <2>2. CASE d = c
    <3>1. v = u /\ area = h.area
      BY <1>1, <1>4, <1>5, <2>2 DEF Of
    <3>2. Shares(e, u, h.area)
      BY <1>3, <1>5, <2>2, <3>1 DEF Shares
    <3> QED
      BY <1>2, <1>5, <3>1, <3>2
  <2>3. CASE e = c
    <3>1. area = h.area /\ (u = v \/ {u, v} \subseteq Federated)
      BY <1>1, <1>4, <1>5, <2>3 DEF Shares
    <3>2. call[d].user = v /\ call[d].area = h.area /\ call[d] # Idle
      BY <1>3, <1>5, <2>3, <3>1, IdleFits DEF Of
    <3>3. Shares(d, u, h.area)
      BY <3>1, <3>2 DEF Shares
    <3> QED
      BY <1>2, <1>5, <3>1, <3>2, <3>3
  <2> QED
    BY <2>1, <2>2, <2>3
<1>6. <<u, h.area>> \notin raced' => Alone(c, u, h.area)
  BY <1>2 DEF Alone
<1>7. TurnsTaken'
  BY <1>5 DEF TurnsTaken, Alone
<1> QED
  BY <1>1, <1>6, <1>7

LEMMA BeginAccount ==
    ASSUME Fits, NEW c \in Threads, NEW u \in Users, NEW h \in Call, NEW g \in Call,
           g = [h EXCEPT !.user = u], Begin(c, u, h), h.area = "account", CallFits(g),
           ~Makes(g) => account[u].exists,
           g.plan \notin {Issuing, RefreshingUser, JoiningMember, RefreshingMember},
           OrderKept(u) => OrderFits(g, u),
           Stale(u) = {} => KeyFits(g, u)
    PROVE  Fits'
<1>1. /\ call[c] = Idle /\ call' = [call EXCEPT ![c] = g] /\ g.user = u /\ g.area = "account"
      /\ raced \subseteq raced' /\ broken' = broken
      /\ <<u, "account">> \notin raced' => Alone(c, u, "account")
      /\ TurnsTaken'
  BY BeginTurns
<1>2. /\ account' = account /\ agents' = agents /\ password' = password /\ members' = members
      /\ sessions' = sessions /\ grants' = grants /\ ordered' = ordered /\ allowed' = allowed
  BY DEF Begin, records, history
<1>3. IInv'
  BY BeginTyped DEF Fits
<1>4. call \in [Threads -> Call] /\ call'[c] = g /\ \A d \in Threads \ {c} : call'[d] = call[d]
  BY <1>1 DEF Fits, IInv, TypeOK
<1>5. \A v \in Users : RecordsStay(v) /\ LiveSessions(v)' = LiveSessions(v)
  BY <1>2 DEF RecordsStay, SessionsStay, LiveSessions
<1>6. AccountsExist'
  BY <1>1, <1>2, <1>4 DEF Fits, AccountsExist, Of, Makes
<1>7. AgentsFollow'
  BY <1>1, <1>2, <1>4, IdleFits DEF Fits, AgentsFollow, Of, MakesAgent
<1>8. ~Joins(g)
  BY DEF Joins
<1>9. ASSUME <<u, "account">> \notin raced'
      PROVE  /\ OrderKept(u)' /\ OrderFits(g, u)'
             /\ u \notin broken' => KeyFits(g, u)' /\ (~Ends(g) => Stale(u)' = {})
             /\ u \in Federated => SessionsJoined(u)' /\ MemberFits(g, u)'
  <2>1. \A d \in Threads : ~Of(d, u, "account")
    BY <1>1, <1>9, IdleFits DEF Alone, Shares, Of
  <2>2. OrderKept(u) /\ (u \notin broken => Stale(u) = {}) /\ (u \in Federated => SessionsJoined(u))
    BY <1>1, <1>9, <2>1 DEF Fits, InTurns, OrdersOf, KeysOf, MembersOf
  <2>3. OrderKept(u)' /\ OrderFits(g, u)'
    BY <1>2, <1>5, <2>2 DEF OrderKept, OrderFits
  <2>4. Stale(u)' = Stale(u)
    BY <1>2, <1>5 DEF Stale
  <2>5. u \notin broken' => KeyFits(g, u)' /\ (~Ends(g) => Stale(u)' = {})
    BY <1>1, <1>2, <1>5, <2>2, <2>4 DEF KeyFits
  <2>6. u \in Federated => SessionsJoined(u)' /\ MemberFits(g, u)'
    BY <1>2, <1>5, <2>2 DEF SessionsJoined, MemberFits
  <2> QED
    BY <2>3, <2>5, <2>6
<1> QED
  BY <1>1, <1>2, <1>3, <1>5, <1>6, <1>7, <1>8, <1>9, AccountStep

LEMMA BeginTools ==
    ASSUME Fits, NEW c \in Threads, NEW u \in Users, NEW h \in Call, NEW g \in Call,
           g = [h EXCEPT !.user = u], Begin(c, u, h), h.area = "tools", CallFits(g),
           g.plan \in {Seeding, SeedingToSet}
    PROVE  Fits'
<1>1. /\ call[c] = Idle /\ call' = [call EXCEPT ![c] = g] /\ g.user = u /\ g.area = "tools"
      /\ raced \subseteq raced' /\ broken' = broken
      /\ <<u, "tools">> \notin raced' => Alone(c, u, "tools")
      /\ TurnsTaken'
  BY BeginTurns
<1>2. /\ account' = account /\ agents' = agents /\ password' = password /\ members' = members
      /\ sessions' = sessions /\ grants' = grants /\ ordered' = ordered /\ allowed' = allowed
  BY DEF Begin, records, history
<1>3. IInv'
  BY BeginTyped DEF Fits
<1>4. <<u, "tools">> \notin raced' => GrantKept(u)'
  BY <1>1, <1>2 DEF Fits, InTurns, GrantsOf, GrantKept
<1>5. GrantFits(g, u)'
  BY ToolPlansGoOn DEF GrantFits, Seeds
<1> QED
  BY <1>1, <1>2, <1>3, <1>4, <1>5, ToolStep

---------------------------------------------------------------------------
LEMMA PlanFields ==
    ASSUME NEW p \in Seq(Steps)
    PROVE  /\ Plan(p) \in Call /\ Plan(p).plan = p /\ Plan(p).area = "account"
           /\ Plan(p).account = NewAccount /\ Plan(p).field = "none" /\ Plan(p).key = NoPassword
           /\ Plan(p).todo = {} /\ NewAccount.exists /\ NewAccount.status = "active"
  BY PlanIsCall DEF Plan, Idle, NewAccount

LEMMA PlansTyped ==
    /\ Creating \in Seq(Steps) /\ Entering \in Seq(Steps) /\ Refreshing \in Seq(Steps)
    /\ LoggingIn \in Seq(Steps) /\ Renewing \in Seq(Steps) /\ Resetting \in Seq(Steps)
    /\ Ending \in Seq(Steps) /\ Disabling \in Seq(Steps) /\ Changing \in Seq(Steps)
    /\ Seeding \in Seq(Steps) /\ SeedingToSet \in Seq(Steps)
  BY StepsTyped DEF Creating, Entering, Refreshing, LoggingIn, Renewing, Resetting, Ending,
                  Disabling, Changing, Seeding, SeedingToSet

\* Its kind tells everything of an account's call that has just come in.
LEMMA FirstFits ==
    ASSUME NEW g \in Call, g.account.exists, g.area = "account",
           \/ g.plan \in {Creating, Entering} /\ g.field = "new" /\ g.account = NewAccount
           \/ g.plan = Refreshing /\ g.field = "none"
           \/ g.plan = LoggingIn /\ g.key # NoPassword
           \/ g.plan \in {Renewing, Resetting, Ending}
           \/ g.plan = Disabling /\ g.field = "status" /\ g.account.status = "disabled"
           \/ g.plan = Changing /\ g.field \in {"status", "role"},
           g.plan \in {Entering, Refreshing} => g.key = NoPassword /\ g.user \in Federated
    PROVE  /\ CallFits(g)
           /\ g.plan \notin {Issuing, RefreshingUser, JoiningMember, RefreshingMember}
           /\ Makes(g) <=> g.plan \in {Creating, Entering}
           /\ Refreshes(g) <=> g.plan = Refreshing
           /\ Changes(g) <=> g.plan \in {Disabling, Changing}
           /\ g.plan # DisablingNext
           /\ g.plan \in {LoggingIn, Issuing} \/ ByOAuth(g) =>
                 g.plan \in {LoggingIn, Entering, Refreshing}
           /\ g.plan \notin {CreatingAgent, CreatingPassword}
<1>1. CASE g.plan = Creating
  BY <1>1, PlansDiffer
     DEF CallFits, Makes, Refreshes, Disables, Changes, ByOAuth, Seeds, AccountPlans
<1>2. CASE g.plan = Entering
  BY <1>2, PlansDiffer
     DEF CallFits, Makes, Refreshes, Disables, Changes, ByOAuth, Seeds, AccountPlans
<1>3. CASE g.plan = Refreshing
  BY <1>3, PlansDiffer
     DEF CallFits, Makes, Refreshes, Disables, Changes, ByOAuth, Seeds, AccountPlans
<1>4. CASE g.plan = LoggingIn
  BY <1>4, PlansDiffer
     DEF CallFits, Makes, Refreshes, Disables, Changes, ByOAuth, Seeds, AccountPlans
<1>5. CASE g.plan = Renewing
  BY <1>5, PlansDiffer
     DEF CallFits, Makes, Refreshes, Disables, Changes, ByOAuth, Seeds, AccountPlans
<1>6. CASE g.plan = Resetting
  BY <1>6, PlansDiffer
     DEF CallFits, Makes, Refreshes, Disables, Changes, ByOAuth, Seeds, AccountPlans
<1>7. CASE g.plan = Ending
  BY <1>7, PlansDiffer
     DEF CallFits, Makes, Refreshes, Disables, Changes, ByOAuth, Seeds, AccountPlans
<1>8. CASE g.plan = Disabling
  BY <1>8, PlansDiffer
     DEF CallFits, Makes, Refreshes, Disables, Changes, ByOAuth, Seeds, AccountPlans
<1>9. CASE g.plan = Changing
  BY <1>9, PlansDiffer
     DEF CallFits, Makes, Refreshes, Disables, Changes, ByOAuth, Seeds, AccountPlans
<1> QED
  BY <1>1, <1>2, <1>3, <1>4, <1>5, <1>6, <1>7, <1>8, <1>9

\* An account that is not there has no sessions.
LEMMA NoSessionsYet ==
    ASSUME AccountsExist, NEW u \in Users, ~account[u].exists
    PROVE  LiveSessions(u) = {}
  BY DEF AccountsExist, LiveSessions

LEMMA ComesFits ==
    ASSUME Fits, NEW c \in Threads, Comes(c)
    PROVE  Fits'
<1> USE AccountsAssumption
<1>1. ASSUME NEW s \in DOMAIN sessions, Logout(c, s) PROVE Fits'
  <2> DEFINE u == sessions[s].user
  <2>1. u \in Users /\ {s} \subseteq Nat
    <3>1. sessions \in Seq(Session) /\ s \in 1..Len(sessions)
      BY DEF Fits, IInv, TypeOK
    <3>2. sessions[s] \in Session
      BY <3>1
    <3> QED
      BY <3>1, <3>2 DEF Session
  <2>2. PICK h : h = [Plan(Ending) EXCEPT !.todo = {s}]
    OBVIOUS
  <2>3. PICK g : g = [h EXCEPT !.user = u]
    OBVIOUS
  <2>4. h \in Call /\ g \in Call
    BY <2>1, <2>2, <2>3, PlansTyped, PlanFields, CallWith
  <2>5. /\ h.area = "account" /\ g.area = "account" /\ g.plan = Ending /\ g.todo = {s}
        /\ g.account = NewAccount /\ g.account.exists
    BY <2>2, <2>3, <2>4, PlansTyped, PlanFields DEF Call
  <2>6. /\ CallFits(g) /\ ~Makes(g) /\ ~Refreshes(g) /\ ~Changes(g) /\ ~ByOAuth(g)
        /\ g.plan \notin {Issuing, RefreshingUser, JoiningMember, RefreshingMember, LoggingIn,
                          DisablingNext, Changing, Creating, CreatingAgent, CreatingPassword}
    BY <2>4, <2>5, FirstFits, PlansDiffer
  <2>7. account[u].exists
    BY <1>1 DEF Fits, AccountsExist
  <2>8. OrderFits(g, u) /\ (Stale(u) = {} => KeyFits(g, u))
    BY <2>6 DEF OrderFits, KeyFits
  <2>9. Begin(c, u, h)
    BY <1>1, <2>2 DEF Logout, Ending
  <2> HIDE DEF u
  <2> QED
    BY <2>1, <2>3, <2>4, <2>5, <2>6, <2>7, <2>8, <2>9, BeginAccount
<1>2. ASSUME NEW u \in Users, OAuthLogin(c, u)
      PROVE  Fits'
  <2>1. CASE ~account[u].exists
    <3>1. PICK h : h = [Plan(Entering) EXCEPT !.field = "new"]
      OBVIOUS
    <3>2. PICK g : g = [h EXCEPT !.user = u]
      OBVIOUS
    <3>3. h \in Call /\ g \in Call
      BY <3>1, <3>2, PlansTyped, PlanFields, CallWith, ConstantsTyped
    <3>4. /\ h.area = "account" /\ g.area = "account" /\ g.plan = Entering /\ g.user = u
          /\ g.account.exists /\ g.field = "new" /\ g.account = NewAccount /\ g.key = NoPassword
          /\ u \in Federated
      BY <1>2, <2>1, <3>1, <3>2, <3>3, PlansTyped, PlanFields DEF Call, OAuthLogin, Active,
         Account, Fits, IInv, TypeOK
    <3>5. /\ CallFits(g)
          /\ g.plan \notin {Issuing, RefreshingUser, JoiningMember, RefreshingMember}
      BY <1>2, <2>1, <3>3, <3>4, FirstFits, PlansDiffer DEF OAuthLogin
    <3>6. ~Makes(g) => account[u].exists
      BY <1>2, <2>1, <3>3, <3>4, FirstFits, PlansDiffer DEF Makes, OAuthLogin, Active,
         Authenticated
    <3>7. OrderKept(u) => OrderFits(g, u)
      BY <1>2, <2>1, <3>3, <3>4, FirstFits, PlansDiffer DEF OrderFits, OrderKept, OAuthLogin,
         Active
    <3>8. Stale(u) = {} => KeyFits(g, u)
      BY <1>2, <2>1, <3>3, <3>4, FirstFits, PlansDiffer, NoSessionsYet DEF KeyFits, OAuthLogin,
         Fits
    <3>9. Begin(c, u, h)
      BY <1>2, <2>1, <3>1 DEF OAuthLogin, Entering, Active
    <3> QED
      BY <3>2, <3>3, <3>4, <3>5, <3>6, <3>7, <3>8, <3>9, BeginAccount
  <2>2. CASE account[u].exists
    <3>1. PICK h : h = [Plan(Refreshing) EXCEPT !.account = account[u]]
      OBVIOUS
    <3>2. PICK g : g = [h EXCEPT !.user = u]
      OBVIOUS
    <3>3. h \in Call /\ g \in Call
      BY <3>1, <3>2, PlansTyped, PlanFields, CallWith, ConstantsTyped DEF Fits, IInv, TypeOK
    <3>4. /\ h.area = "account" /\ g.area = "account" /\ g.plan = Refreshing /\ g.user = u
          /\ g.account.exists /\ g.field = "none" /\ g.account = account[u] /\ g.key = NoPassword
          /\ u \in Federated /\ account[u].status = "active"
      BY <1>2, <2>2, <3>1, <3>2, <3>3, PlansTyped, PlanFields DEF Call, OAuthLogin, Active,
         Account, Fits, IInv, TypeOK
    <3>5. /\ CallFits(g)
          /\ g.plan \notin {Issuing, RefreshingUser, JoiningMember, RefreshingMember}
      BY <1>2, <2>2, <3>3, <3>4, FirstFits, PlansDiffer DEF OAuthLogin
    <3>6. ~Makes(g) => account[u].exists
      BY <1>2, <2>2, <3>3, <3>4, FirstFits, PlansDiffer DEF Makes, OAuthLogin, Active,
         Authenticated
    <3>7. OrderKept(u) => OrderFits(g, u)
      BY <1>2, <2>2, <3>3, <3>4, FirstFits, PlansDiffer DEF OrderFits, OrderKept, OAuthLogin,
         Active
    <3>8. Stale(u) = {} => KeyFits(g, u)
      BY <1>2, <2>2, <3>3, <3>4, FirstFits, PlansDiffer, NoSessionsYet DEF KeyFits, OAuthLogin,
         Fits
    <3>9. Begin(c, u, h)
      BY <1>2, <2>2, <3>1 DEF OAuthLogin, Refreshing, Active
    <3> QED
      BY <3>2, <3>3, <3>4, <3>5, <3>6, <3>7, <3>8, <3>9, BeginAccount
  <2> QED
    BY <1>2, <2>1, <2>2 DEF OAuthLogin
<1>3. ASSUME NEW u \in Users, SeedGrants(c, u) PROVE Fits'
  <2>1. PICK h : h = [Plan(Seeding) EXCEPT !.area = "tools"]
    OBVIOUS
  <2>2. PICK g : g = [h EXCEPT !.user = u]
    OBVIOUS
  <2>3. h \in Call /\ g \in Call
    BY <2>1, <2>2, PlansTyped, PlanFields, CallWith, ConstantsTyped
  <2>4. h.area = "tools" /\ g.area = "tools" /\ g.plan = Seeding /\ g.account.exists
    BY <2>1, <2>2, <2>3, PlansTyped, PlanFields DEF Call
  <2>5. CallFits(g)
    BY <2>4, AccountPlansGoOn, ToolPlansGoOn
       DEF CallFits, ToolPlans, Makes, Changes, Disables, Refreshes, ByOAuth, Seeds
  <2>6. Begin(c, u, h)
    BY <1>3, <2>1 DEF SeedGrants, Seeding
  <2> QED
    BY <2>2, <2>3, <2>4, <2>5, <2>6, BeginTools
<1>4. ASSUME NEW u \in Users, NEW on \in BOOLEAN, SetTool(c, u, on) PROVE Fits'
  <2>1. PICK h : h = [Plan(SeedingToSet) EXCEPT !.area = "tools", !.on = on]
    OBVIOUS
  <2>2. PICK g : g = [h EXCEPT !.user = u]
    OBVIOUS
  <2>3. h \in Call /\ g \in Call
    BY <2>1, <2>2, PlansTyped, PlanFields, CallWith, ConstantsTyped
  <2>4. h.area = "tools" /\ g.area = "tools" /\ g.plan = SeedingToSet /\ g.account.exists
    BY <2>1, <2>2, <2>3, PlansTyped, PlanFields DEF Call
  <2>5. CallFits(g)
    BY <2>4, AccountPlansGoOn, ToolPlansGoOn
       DEF CallFits, ToolPlans, Makes, Changes, Disables, Refreshes, ByOAuth, Seeds
  <2>6. Begin(c, u, h)
    BY <1>4, <2>1 DEF SetTool, SeedingToSet
  <2> QED
    BY <2>2, <2>3, <2>4, <2>5, <2>6, BeginTools
<1>5. ASSUME NEW u \in Users, NEW role \in Roles, SetRole(c, u, role)
      PROVE  Fits'
  <2>0. [account[u] EXCEPT !.role = role] \in Account
    <3>1. account[u] \in Account
      BY DEF Fits, IInv, TypeOK
    <3> QED
      BY <3>1 DEF Account
  <2>1. PICK h : h = [Plan(Changing) EXCEPT !.field = "role",
                                    !.account = [account[u] EXCEPT !.role = role]]
    OBVIOUS
  <2>2. PICK g : g = [h EXCEPT !.user = u]
    OBVIOUS
  <2>3. h \in Call /\ g \in Call
    BY <2>1, <2>2, PlansTyped, PlanFields, CallWith, ConstantsTyped, <2>0
  <2>4. /\ h.area = "account" /\ g.area = "account" /\ g.plan = Changing /\ g.user = u
        /\ g.account.exists /\ g.field = "role" /\ g.account = [account[u] EXCEPT !.role = role]
        /\ g.account.status = account[u].status /\ g.account.role = role
    BY <1>5, <2>1, <2>2, <2>3, PlansTyped, PlanFields DEF Call, SetRole, Active, Account, Fits,
       IInv, TypeOK
  <2>5. /\ CallFits(g)
        /\ g.plan \notin {Issuing, RefreshingUser, JoiningMember, RefreshingMember}
    BY <1>5, <2>3, <2>4, FirstFits, PlansDiffer DEF SetRole
  <2>6. ~Makes(g) => account[u].exists
    BY <1>5, <2>3, <2>4, FirstFits, PlansDiffer DEF Makes, SetRole, Active, Authenticated
  <2>7. OrderKept(u) => OrderFits(g, u)
    BY <1>5, <2>3, <2>4, FirstFits, PlansDiffer DEF OrderFits, OrderKept, SetRole, Active
  <2>8. Stale(u) = {} => KeyFits(g, u)
    BY <1>5, <2>3, <2>4, FirstFits, PlansDiffer, NoSessionsYet DEF KeyFits, SetRole, Fits
  <2>9. Begin(c, u, h)
    BY <1>5, <2>1 DEF SetRole, Changing
  <2> QED
    BY <2>2, <2>3, <2>4, <2>5, <2>6, <2>7, <2>8, <2>9, BeginAccount
<1>6. ASSUME NEW u \in Users, NEW status \in {"active", "disabled"}, SetStatus(c, u, status)
      PROVE  Fits'
  <2>a. PICK a : a = [account[u] EXCEPT !.status = status]
    OBVIOUS
  <2>0. /\ a \in Account /\ a.status = status /\ a.exists
        /\ a = [account[u] EXCEPT !.status = a.status]
    <3>1. account[u] \in Account
      BY DEF Fits, IInv, TypeOK
    <3>2. a.exists = account[u].exists
      BY <2>a, <3>1 DEF Account
    <3>3. a \in Account /\ a.status = status
      BY ONLY <2>a, <3>1, status \in {"active", "disabled"} DEF Account
    <3> QED
      BY <1>6, <2>a, <3>2, <3>3 DEF SetStatus
  <2>1. CASE status = "disabled"
    <3>1. PICK h : h = [Plan(Disabling) EXCEPT !.field = "status", !.account = a]
      OBVIOUS
    <3>2. PICK g : g = [h EXCEPT !.user = u]
      OBVIOUS
    <3>3. h \in Call /\ g \in Call
      BY <3>1, <3>2, PlansTyped, PlanFields, CallWith, ConstantsTyped, <2>0
    <3>4. /\ h.area = "account" /\ g.area = "account" /\ g.plan = Disabling /\ g.user = u
          /\ g.account.exists /\ g.field = "status" /\ g.account = a /\ g.account.status = status
      BY <1>6, <2>1, <3>1, <3>2, <3>3, <2>0, PlansTyped, PlanFields DEF Call, SetStatus, Active,
         Account, Fits, IInv, TypeOK
    <3>5. /\ CallFits(g)
          /\ g.plan \notin {Issuing, RefreshingUser, JoiningMember, RefreshingMember}
      BY <1>6, <2>1, <3>3, <3>4, FirstFits, PlansDiffer DEF SetStatus
    <3>6. ~Makes(g) => account[u].exists
      BY <1>6, <2>1, <3>3, <3>4, FirstFits, PlansDiffer DEF Makes, SetStatus, Active,
         Authenticated
    <3>7. OrderKept(u) => OrderFits(g, u)
      BY <1>6, <2>0, <2>1, <3>3, <3>4, FirstFits, PlansDiffer DEF OrderFits, OrderKept, SetStatus,
         Active
    <3>8. Stale(u) = {} => KeyFits(g, u)
      BY <1>6, <2>1, <3>3, <3>4, FirstFits, PlansDiffer, NoSessionsYet DEF KeyFits, SetStatus,
         Fits
    <3>9. Begin(c, u, h)
      BY <1>6, <2>1, <2>a, <3>1 DEF SetStatus, Disabling, Changing
    <3> QED
      BY <3>2, <3>3, <3>4, <3>5, <3>6, <3>7, <3>8, <3>9, BeginAccount
  <2>2. CASE status # "disabled"
    <3>1. PICK h : h = [Plan(Changing) EXCEPT !.field = "status", !.account = a]
      OBVIOUS
    <3>2. PICK g : g = [h EXCEPT !.user = u]
      OBVIOUS
    <3>3. h \in Call /\ g \in Call
      BY <3>1, <3>2, PlansTyped, PlanFields, CallWith, ConstantsTyped, <2>0
    <3>4. /\ h.area = "account" /\ g.area = "account" /\ g.plan = Changing /\ g.user = u
          /\ g.account.exists /\ g.field = "status" /\ g.account = a /\ g.account.status = status
      BY <1>6, <2>2, <3>1, <3>2, <3>3, <2>0, PlansTyped, PlanFields DEF Call, SetStatus, Active,
         Account, Fits, IInv, TypeOK
    <3>5. /\ CallFits(g)
          /\ g.plan \notin {Issuing, RefreshingUser, JoiningMember, RefreshingMember}
      BY <1>6, <2>2, <3>3, <3>4, FirstFits, PlansDiffer DEF SetStatus
    <3>6. ~Makes(g) => account[u].exists
      BY <1>6, <2>2, <3>3, <3>4, FirstFits, PlansDiffer DEF Makes, SetStatus, Active,
         Authenticated
    <3>7. OrderKept(u) => OrderFits(g, u)
      BY <1>6, <2>0, <2>2, <3>3, <3>4, FirstFits, PlansDiffer DEF OrderFits, OrderKept, SetStatus,
         Active
    <3>8. Stale(u) = {} => KeyFits(g, u)
      BY <1>6, <2>2, <3>3, <3>4, FirstFits, PlansDiffer, NoSessionsYet DEF KeyFits, SetStatus,
         Fits
    <3>9. Begin(c, u, h)
      BY <1>6, <2>2, <2>a, <3>1 DEF SetStatus, Disabling, Changing
    <3> QED
      BY <3>2, <3>3, <3>4, <3>5, <3>6, <3>7, <3>8, <3>9, BeginAccount
  <2> QED
    BY <1>6, <2>1, <2>2 DEF SetStatus
<1>7. ASSUME NEW u \in Users, NEW p \in Passwords, Login(c, u, p)
      PROVE  Fits'
  <2>1. PICK h : h = [Plan(LoggingIn) EXCEPT !.key = p]
    OBVIOUS
  <2>2. PICK g : g = [h EXCEPT !.user = u]
    OBVIOUS
  <2>3. h \in Call /\ g \in Call
    BY <2>1, <2>2, PlansTyped, PlanFields, CallWith, ConstantsTyped
  <2>4. /\ h.area = "account" /\ g.area = "account" /\ g.plan = LoggingIn /\ g.user = u
        /\ g.account.exists /\ g.key = p /\ g.key # NoPassword
    BY <1>7, <2>1, <2>2, <2>3, PlansTyped, PlanFields DEF Call, Login, Active, Account, Fits,
       IInv, TypeOK
  <2>5. /\ CallFits(g)
        /\ g.plan \notin {Issuing, RefreshingUser, JoiningMember, RefreshingMember}
    BY <1>7, <2>3, <2>4, FirstFits, PlansDiffer DEF Login
  <2>6. ~Makes(g) => account[u].exists
    BY <1>7, <2>3, <2>4, FirstFits, PlansDiffer DEF Makes, Login, Active, Authenticated
  <2>7. OrderKept(u) => OrderFits(g, u)
    BY <1>7, <2>3, <2>4, FirstFits, PlansDiffer DEF OrderFits, OrderKept, Login, Active
  <2>8. Stale(u) = {} => KeyFits(g, u)
    BY <1>7, <2>3, <2>4, FirstFits, PlansDiffer, NoSessionsYet DEF KeyFits, Login, Fits
  <2>9. Begin(c, u, h)
    BY <1>7, <2>1 DEF Login, LoggingIn
  <2> QED
    BY <2>2, <2>3, <2>4, <2>5, <2>6, <2>7, <2>8, <2>9, BeginAccount
<1>8. ASSUME NEW u \in Users, NEW p \in Passwords, ResetPassword(c, u, p)
      PROVE  Fits'
  <2>1. PICK h : h = [Plan(Resetting) EXCEPT !.new = p]
    OBVIOUS
  <2>2. PICK g : g = [h EXCEPT !.user = u]
    OBVIOUS
  <2>3. h \in Call /\ g \in Call
    BY <2>1, <2>2, PlansTyped, PlanFields, CallWith, ConstantsTyped
  <2>4. /\ h.area = "account" /\ g.area = "account" /\ g.plan = Resetting /\ g.user = u
        /\ g.account.exists
    BY <1>8, <2>1, <2>2, <2>3, PlansTyped, PlanFields DEF Call, ResetPassword, Active, Account,
       Fits, IInv, TypeOK
  <2>5. /\ CallFits(g)
        /\ g.plan \notin {Issuing, RefreshingUser, JoiningMember, RefreshingMember}
    BY <1>8, <2>3, <2>4, FirstFits, PlansDiffer DEF ResetPassword
  <2>6. ~Makes(g) => account[u].exists
    BY <1>8, <2>3, <2>4, FirstFits, PlansDiffer DEF Makes, ResetPassword, Active, Authenticated
  <2>7. OrderKept(u) => OrderFits(g, u)
    BY <1>8, <2>3, <2>4, FirstFits, PlansDiffer DEF OrderFits, OrderKept, ResetPassword, Active
  <2>8. Stale(u) = {} => KeyFits(g, u)
    BY <1>8, <2>3, <2>4, FirstFits, PlansDiffer, NoSessionsYet DEF KeyFits, ResetPassword, Fits
  <2>9. Begin(c, u, h)
    BY <1>8, <2>1 DEF ResetPassword, Resetting
  <2> QED
    BY <2>2, <2>3, <2>4, <2>5, <2>6, <2>7, <2>8, <2>9, BeginAccount
<1>9. ASSUME NEW u \in Users, NEW p \in Passwords, CreateUser(c, u, p)
      PROVE  Fits'
  <2>1. PICK h : h = [Plan(Creating) EXCEPT !.field = "new", !.new = p]
    OBVIOUS
  <2>2. PICK g : g = [h EXCEPT !.user = u]
    OBVIOUS
  <2>3. h \in Call /\ g \in Call
    BY <2>1, <2>2, PlansTyped, PlanFields, CallWith, ConstantsTyped
  <2>4. /\ h.area = "account" /\ g.area = "account" /\ g.plan = Creating /\ g.user = u
        /\ g.account.exists /\ g.field = "new" /\ g.account = NewAccount
    BY <1>9, <2>1, <2>2, <2>3, PlansTyped, PlanFields DEF Call, CreateUser, Active, Account, Fits,
       IInv, TypeOK
  <2>5. /\ CallFits(g)
        /\ g.plan \notin {Issuing, RefreshingUser, JoiningMember, RefreshingMember}
    BY <1>9, <2>3, <2>4, FirstFits, PlansDiffer DEF CreateUser
  <2>6. ~Makes(g) => account[u].exists
    BY <1>9, <2>3, <2>4, FirstFits, PlansDiffer DEF Makes, CreateUser, Active, Authenticated
  <2>7. OrderKept(u) => OrderFits(g, u)
    BY <1>9, <2>3, <2>4, FirstFits, PlansDiffer DEF OrderFits, OrderKept, CreateUser, Active
  <2>8. Stale(u) = {} => KeyFits(g, u)
    BY <1>9, <2>3, <2>4, FirstFits, PlansDiffer, NoSessionsYet DEF KeyFits, CreateUser, Fits
  <2>9. Begin(c, u, h)
    BY <1>9, <2>1 DEF CreateUser, Creating
  <2> QED
    BY <2>2, <2>3, <2>4, <2>5, <2>6, <2>7, <2>8, <2>9, BeginAccount
<1>10. ASSUME NEW u \in Users, NEW p \in Passwords, NEW q \in Passwords, ChangePassword(c, u, p, q)
      PROVE  Fits'
  <2>1. PICK h : h = [Plan(Renewing) EXCEPT !.key = p, !.new = q]
    OBVIOUS
  <2>2. PICK g : g = [h EXCEPT !.user = u]
    OBVIOUS
  <2>3. h \in Call /\ g \in Call
    BY <2>1, <2>2, PlansTyped, PlanFields, CallWith, ConstantsTyped
  <2>4. /\ h.area = "account" /\ g.area = "account" /\ g.plan = Renewing /\ g.user = u
        /\ g.account.exists
    BY <1>10, <2>1, <2>2, <2>3, PlansTyped, PlanFields DEF Call, ChangePassword, Active, Account,
       Fits, IInv, TypeOK
  <2>5. /\ CallFits(g)
        /\ g.plan \notin {Issuing, RefreshingUser, JoiningMember, RefreshingMember}
    BY <1>10, <2>3, <2>4, FirstFits, PlansDiffer DEF ChangePassword
  <2>6. ~Makes(g) => account[u].exists
    BY <1>10, <2>3, <2>4, FirstFits, PlansDiffer DEF Makes, ChangePassword, Active, Authenticated
  <2>7. OrderKept(u) => OrderFits(g, u)
    BY <1>10, <2>3, <2>4, FirstFits, PlansDiffer DEF OrderFits, OrderKept, ChangePassword, Active
  <2>8. Stale(u) = {} => KeyFits(g, u)
    BY <1>10, <2>3, <2>4, FirstFits, PlansDiffer, NoSessionsYet DEF KeyFits, ChangePassword, Fits
  <2>9. Begin(c, u, h)
    BY <1>10, <2>1 DEF ChangePassword, Renewing
  <2> QED
    BY <2>2, <2>3, <2>4, <2>5, <2>6, <2>7, <2>8, <2>9, BeginAccount
<1> QED
  BY <1>1, <1>2, <1>3, <1>4, <1>5, <1>6, <1>7, <1>8, <1>9, <1>10 DEF Comes

---------------------------------------------------------------------------
(* Handlers of accounts go on.                                             *)

LEMMA RestTyped ==
    ASSUME NEW x \in Call
    PROVE  /\ Rest(x) \in Call
           /\ x.plan = <<>> => Rest(x) = Idle
           /\ x.plan # <<>> => Rest(x) = x
  BY IdleFits DEF Rest

\* What a call of each kind has to fit.
LEMMA PlanTells ==
    ASSUME NEW h \in Call, h.area = "account", h.account.exists,
           \/ h.plan \in {Creating, Entering} /\ h.field = "new" /\ h.account = NewAccount
           \/ h.plan \in {CreatingAgent, CreatingPassword, Renewing, Resetting, Listing, Ending}
           \/ h.plan \in {EnteringAgent, Joining, JoiningMember}
           \/ h.plan \in {Refreshing, RefreshingMember, RefreshingUser} /\ h.field = "none"
           \/ h.plan = LoggingIn /\ h.key # NoPassword
           \/ h.plan = Issuing /\ (h.key = NoPassword => h.user \in Federated)
           \/ h.plan \in {Disabling, DisablingNext} /\ h.field = "status"
                 /\ h.account.status = "disabled"
           \/ h.plan = Changing /\ h.field \in {"status", "role"},
           h.plan \in {Entering, EnteringAgent, Joining, JoiningMember, Refreshing,
                       RefreshingMember, RefreshingUser}
               => h.key = NoPassword /\ h.user \in Federated
    PROVE  CallFits(h)
<1>1. CASE h.plan = Creating
  BY <1>1, PlansDiffer
     DEF CallFits, Makes, Refreshes, Disables, Changes, ByOAuth, Seeds, AccountPlans
<1>2. CASE h.plan = CreatingAgent
  BY <1>2, PlansDiffer
     DEF CallFits, Makes, Refreshes, Disables, Changes, ByOAuth, Seeds, AccountPlans
<1>3. CASE h.plan = CreatingPassword
  BY <1>3, PlansDiffer
     DEF CallFits, Makes, Refreshes, Disables, Changes, ByOAuth, Seeds, AccountPlans
<1>4. CASE h.plan = Entering
  BY <1>4, PlansDiffer
     DEF CallFits, Makes, Refreshes, Disables, Changes, ByOAuth, Seeds, AccountPlans
<1>5. CASE h.plan = EnteringAgent
  BY <1>5, PlansDiffer
     DEF CallFits, Makes, Refreshes, Disables, Changes, ByOAuth, Seeds, AccountPlans
<1>6. CASE h.plan = Joining
  BY <1>6, PlansDiffer
     DEF CallFits, Makes, Refreshes, Disables, Changes, ByOAuth, Seeds, AccountPlans
<1>7. CASE h.plan = JoiningMember
  BY <1>7, PlansDiffer
     DEF CallFits, Makes, Refreshes, Disables, Changes, ByOAuth, Seeds, AccountPlans
<1>8. CASE h.plan = Refreshing
  BY <1>8, PlansDiffer
     DEF CallFits, Makes, Refreshes, Disables, Changes, ByOAuth, Seeds, AccountPlans
<1>9. CASE h.plan = RefreshingMember
  BY <1>9, PlansDiffer
     DEF CallFits, Makes, Refreshes, Disables, Changes, ByOAuth, Seeds, AccountPlans
<1>10. CASE h.plan = RefreshingUser
  BY <1>10, PlansDiffer
     DEF CallFits, Makes, Refreshes, Disables, Changes, ByOAuth, Seeds, AccountPlans
<1>11. CASE h.plan = LoggingIn
  BY <1>11, PlansDiffer
     DEF CallFits, Makes, Refreshes, Disables, Changes, ByOAuth, Seeds, AccountPlans
<1>12. CASE h.plan = Issuing
  BY <1>12, PlansDiffer
     DEF CallFits, Makes, Refreshes, Disables, Changes, ByOAuth, Seeds, AccountPlans
<1>13. CASE h.plan = Renewing
  BY <1>13, PlansDiffer
     DEF CallFits, Makes, Refreshes, Disables, Changes, ByOAuth, Seeds, AccountPlans
<1>14. CASE h.plan = Resetting
  BY <1>14, PlansDiffer
     DEF CallFits, Makes, Refreshes, Disables, Changes, ByOAuth, Seeds, AccountPlans
<1>15. CASE h.plan = Listing
  BY <1>15, PlansDiffer
     DEF CallFits, Makes, Refreshes, Disables, Changes, ByOAuth, Seeds, AccountPlans
<1>16. CASE h.plan = Ending
  BY <1>16, PlansDiffer
     DEF CallFits, Makes, Refreshes, Disables, Changes, ByOAuth, Seeds, AccountPlans
<1>17. CASE h.plan = Disabling
  BY <1>17, PlansDiffer
     DEF CallFits, Makes, Refreshes, Disables, Changes, ByOAuth, Seeds, AccountPlans
<1>18. CASE h.plan = DisablingNext
  BY <1>18, PlansDiffer
     DEF CallFits, Makes, Refreshes, Disables, Changes, ByOAuth, Seeds, AccountPlans
<1>19. CASE h.plan = Changing
  BY <1>19, PlansDiffer
     DEF CallFits, Makes, Refreshes, Disables, Changes, ByOAuth, Seeds, AccountPlans
<1> QED
  BY <1>1, <1>2, <1>3, <1>4, <1>5, <1>6, <1>7, <1>8, <1>9, <1>10, <1>11, <1>12, <1>13, <1>14,
     <1>15, <1>16, <1>17, <1>18, <1>19

\* What a handler has still to do fits if all of it did.
LEMMA NextFits ==
    ASSUME NEW h \in Call, CallFits(h), h.plan \in AccountPlans, h.area = "account",
           NEW x \in Call, x.plan = Tail(h.plan), x.area = h.area, x.account = h.account,
           x.field = h.field, x.key = h.key, x.user = h.user
    PROVE  CallFits(Rest(x))
<1>a. x.account.exists /\ x.area = "account"
  BY DEF CallFits
<1>b. x.plan # <<>> => Rest(x) = x
  BY RestTyped
<1>c. x.plan = <<>> => CallFits(Rest(x))
  BY RestTyped, IdleFits
<1>1. CASE h.plan = Creating
  <2>1. x.plan = CreatingAgent /\ x.plan # <<>>
    BY <1>1, AccountPlansGoOn
  <2> QED
    BY <1>a, <1>b, <2>1, PlansDiffer, PlanTells
<1>2. CASE h.plan = CreatingAgent
  <2>1. x.plan = CreatingPassword /\ x.plan # <<>>
    BY <1>2, AccountPlansGoOn
  <2> QED
    BY <1>a, <1>b, <2>1, PlansDiffer, PlanTells
<1>3. CASE h.plan = CreatingPassword
  BY <1>c, <1>3, AccountPlansGoOn
<1>4. CASE h.plan = Entering
  <2>1. x.plan = EnteringAgent /\ x.plan # <<>>
    BY <1>4, AccountPlansGoOn
  <2>2. x.key = NoPassword /\ x.user \in Federated
    BY <1>4 DEF CallFits, ByOAuth, Refreshes, Disables
  <2> QED
    BY <1>a, <1>b, <2>1, <2>2, PlansDiffer, PlanTells
<1>5. CASE h.plan = EnteringAgent
  <2>1. x.plan = Joining /\ x.plan # <<>>
    BY <1>5, AccountPlansGoOn
  <2>2. x.key = NoPassword /\ x.user \in Federated
    BY <1>5 DEF CallFits, ByOAuth, Refreshes, Disables
  <2> QED
    BY <1>a, <1>b, <2>1, <2>2, PlansDiffer, PlanTells
<1>6. CASE h.plan = Joining
  <2>1. x.plan = Issuing /\ x.plan # <<>>
    BY <1>6, AccountPlansGoOn
  <2>2. x.key = NoPassword /\ x.user \in Federated
    BY <1>6 DEF CallFits, ByOAuth, Refreshes, Disables
  <2> QED
    BY <1>a, <1>b, <2>1, <2>2, PlansDiffer, PlanTells
<1>7. CASE h.plan = JoiningMember
  <2>1. x.plan = Issuing /\ x.plan # <<>>
    BY <1>7, AccountPlansGoOn
  <2>2. x.key = NoPassword /\ x.user \in Federated
    BY <1>7 DEF CallFits, ByOAuth, Refreshes, Disables
  <2> QED
    BY <1>a, <1>b, <2>1, <2>2, PlansDiffer, PlanTells
<1>8. CASE h.plan = Refreshing
  <2>1. x.plan = RefreshingUser /\ x.plan # <<>>
    BY <1>8, AccountPlansGoOn
  <2>2. x.key = NoPassword /\ x.user \in Federated /\ x.field = "none"
    BY <1>8 DEF CallFits, ByOAuth, Refreshes, Disables
  <2> QED
    BY <1>a, <1>b, <2>1, <2>2, PlansDiffer, PlanTells
<1>9. CASE h.plan = RefreshingMember
  <2>1. x.plan = RefreshingUser /\ x.plan # <<>>
    BY <1>9, AccountPlansGoOn
  <2>2. x.key = NoPassword /\ x.user \in Federated /\ x.field = "none"
    BY <1>9 DEF CallFits, ByOAuth, Refreshes, Disables
  <2> QED
    BY <1>a, <1>b, <2>1, <2>2, PlansDiffer, PlanTells
<1>10. CASE h.plan = RefreshingUser
  <2>1. x.plan = Issuing /\ x.plan # <<>>
    BY <1>10, AccountPlansGoOn
  <2>2. x.key = NoPassword /\ x.user \in Federated /\ x.field = "none"
    BY <1>10 DEF CallFits, ByOAuth, Refreshes, Disables
  <2> QED
    BY <1>a, <1>b, <2>1, <2>2, PlansDiffer, PlanTells
<1>11. CASE h.plan = LoggingIn
  <2>1. x.plan = Issuing /\ x.plan # <<>>
    BY <1>11, AccountPlansGoOn
  <2>2. x.key # NoPassword
    BY <1>11 DEF CallFits, ByOAuth, Refreshes, Disables
  <2> QED
    BY <1>a, <1>b, <2>1, <2>2, PlansDiffer, PlanTells
<1>12. CASE h.plan = Issuing
  BY <1>c, <1>12, AccountPlansGoOn
<1>13. CASE h.plan = Renewing
  <2>1. x.plan = Resetting /\ x.plan # <<>>
    BY <1>13, AccountPlansGoOn
  <2> QED
    BY <1>a, <1>b, <2>1, PlansDiffer, PlanTells
<1>14. CASE h.plan = Resetting
  <2>1. x.plan = Listing /\ x.plan # <<>>
    BY <1>14, AccountPlansGoOn
  <2> QED
    BY <1>a, <1>b, <2>1, PlansDiffer, PlanTells
<1>15. CASE h.plan = Listing
  <2>1. x.plan = Ending /\ x.plan # <<>>
    BY <1>15, AccountPlansGoOn
  <2> QED
    BY <1>a, <1>b, <2>1, PlansDiffer, PlanTells
<1>16. CASE h.plan = Ending
  BY <1>c, <1>16, AccountPlansGoOn
<1>17. CASE h.plan = Disabling
  <2>1. x.plan = DisablingNext /\ x.plan # <<>>
    BY <1>17, AccountPlansGoOn
  <2>2. x.field = "status" /\ x.account.status = "disabled"
    BY <1>17 DEF CallFits, ByOAuth, Refreshes, Disables
  <2> QED
    BY <1>a, <1>b, <2>1, <2>2, PlansDiffer, PlanTells
<1>18. CASE h.plan = DisablingNext
  <2>1. x.plan = Changing /\ x.plan # <<>>
    BY <1>18, AccountPlansGoOn
  <2>2. x.field = "status" /\ x.account.status = "disabled"
    BY <1>18 DEF CallFits, ByOAuth, Refreshes, Disables
  <2> QED
    BY <1>a, <1>b, <2>1, <2>2, PlansDiffer, PlanTells
<1>19. CASE h.plan = Changing
  BY <1>c, <1>19, AccountPlansGoOn
<1> QED
  BY <1>1, <1>2, <1>3, <1>4, <1>5, <1>6, <1>7, <1>8, <1>9, <1>10, <1>11, <1>12, <1>13, <1>14,
     <1>15, <1>16, <1>17, <1>18, <1>19 DEF AccountPlans

\* A handler that is at a step of an account.
LEMMA AtAccount ==
    ASSUME Fits, NEW c \in Threads, NEW step, At(c, step),
           step \notin {"seed", "default", "set", "grant"}
    PROVE  /\ call[c] \in Call /\ call[c].user \in Users /\ CallFits(call[c])
           /\ call[c].area = "account" /\ call[c].plan \in AccountPlans
           /\ Head(call[c].plan) = step
           /\ Next1(c) \in Call
           /\ Next1(c) = [call[c] EXCEPT !.plan = Tail(call[c].plan)]
           /\ Of(c, call[c].user, "account")
<1>1. call[c] \in Call /\ call[c].user \in Users /\ CallFits(call[c]) /\ Next1(c) \in Call
  BY AtTyped DEF Fits, CallsFit
<1>2. call[c].plan # <<>> /\ Head(call[c].plan) = step
  BY DEF At
<1>3. call[c].area # "tools"
  BY <1>1, <1>2, PlansDiffer DEF CallFits, ToolPlans
<1> QED
  BY <1>1, <1>2, <1>3 DEF Call, Areas, CallFits, Next1, Of

\* What it may rely on if it is alone.
LEMMA AloneHere ==
    ASSUME Fits, NEW c \in Threads, NEW u \in Users, Of(c, u, "account"),
           <<u, "account">> \notin raced
    PROVE  /\ Alone(c, u, "account")
           /\ OrderKept(u) /\ OrderFits(call[c], u)
           /\ u \notin broken => KeyFits(call[c], u) /\ (~Ends(call[c]) => Stale(u) = {})
           /\ u \in Federated => /\ SessionsJoined(u) /\ MemberFits(call[c], u)
                                 /\ Joins(call[c]) => u \in call[c].members
<1>1. Alone(c, u, "account")
  BY DEF Fits, TurnsTaken, Areas
<1>2. \A d \in Threads \ {c} : ~Of(d, u, "account")
  BY <1>1, IdleFits DEF Alone, Shares, Of
<1>3. OrderKept(u) /\ OrderFits(call[c], u)
  BY DEF Fits, InTurns, OrdersOf
<1>4. u \notin broken => KeyFits(call[c], u) /\ (~Ends(call[c]) => Stale(u) = {})
  BY <1>2 DEF Fits, InTurns, KeysOf
<1>5. u \in Federated => /\ SessionsJoined(u) /\ MemberFits(call[c], u)
                         /\ Joins(call[c]) => u \in call[c].members
  BY DEF Fits, InTurns, MembersOf, Of
<1> QED
  BY <1>1, <1>3, <1>4, <1>5

\* A step goes on as its call.
LEMMA GoesOnTurns ==
    ASSUME Fits, NEW c \in Threads, NEW x \in Call, NEW g \in Call, g = Rest(x), GoOn(c, x),
           call[c] # Idle, call[c].user \in Users,
           x = Idle \/ (x.user = call[c].user /\ x.area = call[c].area)
    PROVE  /\ call' = [call EXCEPT ![c] = g] /\ TurnsTaken'
           /\ g = Idle \/ (g = x /\ g.user = call[c].user /\ g.area = call[c].area)
           /\ raced' = raced /\ broken' = broken
           /\ call'[c] = g /\ \A d \in Threads \ {c} : call'[d] = call[d]
<1>1. /\ call' = [call EXCEPT ![c] = g] /\ raced' = raced /\ broken' = broken
      /\ call \in [Threads -> Call]
  BY DEF GoOn, Fits, IInv, TypeOK
<1>2. g = Idle \/ (g = x /\ g.user = call[c].user /\ g.area = call[c].area)
  BY RestTyped, IdleFits
<1>3. TurnsTaken'
  BY <1>1, <1>2, IdleFits, TurnsStayTaken DEF Fits
<1> QED
  BY <1>1, <1>2, <1>3

\* Steps that make neither an account nor an agent nor a session.
LEMMA AccountGoesOn ==
    ASSUME Fits, IInv', NEW c \in Threads, NEW step, At(c, step),
           step \notin {"seed", "default", "set", "grant", "user", "agent"},
           NEW u \in Users, u = call[c].user,
           NEW x \in Call, NEW g \in Call, g = Rest(x), GoOn(c, x), CallFits(g),
           x = Idle \/ (x.user = u /\ x.area = "account"),
           ~Makes(g),
           account' = account, agents' = agents, ordered' = ordered, grants' = grants,
           allowed' = allowed, DOMAIN sessions' = DOMAIN sessions,
           \A s \in DOMAIN sessions : /\ sessions'[s].user = sessions[s].user
                                      /\ sessions'[s].key = sessions[s].key
                                      /\ sessions'[s].live => sessions[s].live,
           \A v \in Users \ {u} : password'[v] = password[v],
           <<u, "account">> \notin raced =>
               /\ OrderFits(g, u)'
               /\ u \notin broken => KeyFits(g, u)' /\ (~Ends(g) => Stale(u)' = {})
               /\ u \in Federated => SessionsJoined(u)' /\ MemberFits(g, u)',
           \A v \in Federated \ {u} : <<v, "account">> \notin raced =>
               (v \in members' <=> v \in members),
           Joins(g) => \A v \in Federated : v \in g.members <=> v \in members' \/ v = u
    PROVE  Fits'
<1>1. /\ call[c] \in Call /\ CallFits(call[c]) /\ Of(c, u, "account")
      /\ call[c].plan \in AccountPlans /\ call[c].area = "account" /\ call[c] # Idle
  BY AtAccount, IdleFits
<1>2. /\ call' = [call EXCEPT ![c] = g] /\ TurnsTaken'
      /\ g = Idle \/ (g = x /\ g.user = u /\ g.area = "account")
      /\ raced' = raced /\ broken' = broken
      /\ call'[c] = g /\ \A d \in Threads \ {c} : call'[d] = call[d]
  BY <1>1, GoesOnTurns
<1>3. \A v \in Users : LiveSessions(v)' \subseteq LiveSessions(v) /\ SessionsStay(v)
  BY DEF LiveSessions, SessionsStay
<1>4. ~Makes(call[c]) /\ ~MakesAgent(call[c])
  BY AtAccount, PlansDiffer DEF Makes, MakesAgent
<1>5. AccountsExist'
  <2>1. \A s \in DOMAIN sessions' :
           /\ account'[sessions'[s].user].exists
           /\ sessions'[s].key = NoPassword => sessions'[s].user \in Federated
    BY DEF Fits, AccountsExist
  <2>2. \A d \in Threads, v \in Users :
           Of(d, v, "account")' /\ ~Makes(call[d])' => account'[v].exists
    BY <1>1, <1>2, <1>4, IdleFits DEF Fits, AccountsExist, Of, Makes
  <2> QED
    BY <2>1, <2>2 DEF AccountsExist
<1>6. AgentsFollow'
  <2> SUFFICES ASSUME NEW v \in Users, account[v].exists, v \notin broken, v \notin agents
               PROVE  \E d \in Threads : Of(d, v, "account")' /\ MakesAgent(call[d])'
    BY <1>2 DEF AgentsFollow
  <2>1. PICK d \in Threads : Of(d, v, "account") /\ MakesAgent(call[d])
    BY DEF Fits, AgentsFollow
  <2>2. d # c
    BY <1>4, <2>1
  <2> QED
    BY <1>2, <2>1, <2>2 DEF Of, MakesAgent
<1>7. OrderKept(u) => OrderKept(u)'
  BY <1>3 DEF OrderKept
<1>8. <<u, "account">> \notin raced' =>
          /\ OrderKept(u)' /\ OrderFits(g, u)' /\ Alone(c, u, "account")
          /\ u \notin broken' => KeyFits(g, u)' /\ (~Ends(g) => Stale(u)' = {})
          /\ u \in Federated => SessionsJoined(u)' /\ MemberFits(g, u)'
  BY <1>1, <1>2, <1>7, AloneHere
<1>9. \A v \in Users \ {u} : RecordsStay(v)
  BY <1>3 DEF RecordsStay
<1> QED
  BY <1>1, <1>2, <1>5, <1>6, <1>8, <1>9, AccountStep

\* Who has nothing to do fits whatever becomes of the records.
LEMMA IdleStaysFit ==
    \A u : OrderFits(Idle, u)' /\ KeyFits(Idle, u)' /\ MemberFits(Idle, u)' /\ GrantFits(Idle, u)'
<1>1. /\ ~Refreshes(Idle) /\ ~ByOAuth(Idle) /\ ~Disables(Idle) /\ ~Changes(Idle) /\ ~Seeds(Idle)
      /\ Idle.plan \notin AccountPlans \cup ToolPlans
  BY IdleFits, PlansDiffer DEF Refreshes, ByOAuth, Disables, Changes, AccountPlans, ToolPlans
<1> QED
  BY <1>1 DEF OrderFits, KeyFits, MemberFits, GrantFits, AccountPlans, ToolPlans

\* The plans that begin with a step.
LEMMA PlansAt ==
    ASSUME NEW p \in AccountPlans
    PROVE  /\ Head(p) = "user" => p \in {Creating, Entering, RefreshingUser, Changing}
           /\ Head(p) = "agent" => p \in {CreatingAgent, EnteringAgent}
           /\ Head(p) = "verify" => p \in {LoggingIn, Renewing}
           /\ Head(p) = "password" => p \in {CreatingPassword, Resetting}
           /\ Head(p) = "list" => p \in {Listing, Disabling}
           /\ Head(p) = "revoke" => p \in {Ending, DisablingNext}
           /\ Head(p) = "project" => p \in {Joining, Refreshing}
           /\ Head(p) = "member" => p \in {JoiningMember, RefreshingMember}
           /\ Head(p) = "session" => p = Issuing
  BY PlansDiffer DEF AccountPlans

\* And what a handler with a plan is not about.
LEMMA PlansAbout ==
    ASSUME NEW h
    PROVE  /\ h.plan \in {Resetting, Listing, Ending, CreatingAgent, CreatingPassword, Issuing} =>
                 ~Refreshes(h) /\ ~Changes(h) /\ ~ByOAuth(h) /\ ~Joins(h) /\ ~Makes(h)
                 /\ h.plan # DisablingNext /\ h.plan # Changing /\ h.plan # LoggingIn
           /\ h.plan \in {Resetting, Listing, Ending, CreatingAgent, CreatingPassword} =>
                 h.plan # Issuing /\ h.plan # RefreshingUser
           /\ h.plan \in {Listing, Ending, Resetting, Issuing} =>
                 h.plan \notin {Creating, CreatingAgent, CreatingPassword}
           /\ h.plan \in {Listing, Resetting, Issuing} => h.plan # Ending
           /\ h.plan \in {JoiningMember, RefreshingMember, RefreshingUser, DisablingNext, Changing,
                          EnteringAgent, Joining} =>
                 /\ ~Makes(h) /\ ~Ends(h) /\ h.plan # Issuing
                 /\ h.plan \notin {Creating, CreatingAgent, CreatingPassword}
           /\ h.plan \in {JoiningMember, RefreshingMember, RefreshingUser, EnteringAgent,
                          Joining} =>
                 ~Changes(h) /\ h.plan # DisablingNext /\ h.plan # Changing
           /\ h.plan \in {JoiningMember, EnteringAgent, Joining} => ~Refreshes(h)
           /\ h.plan \in {DisablingNext, Changing} =>
                 /\ ~Refreshes(h) /\ ~ByOAuth(h) /\ ~Joins(h)
                 /\ h.plan # LoggingIn /\ h.plan # RefreshingUser
           /\ h.plan \in {EnteringAgent, Joining, RefreshingUser} => ~Joins(h)
           /\ h.plan \in {EnteringAgent, Joining, JoiningMember, RefreshingMember} =>
                 h.plan # RefreshingUser
           /\ h.plan \in {LoggingIn, Renewing, CreatingPassword, Resetting, Disabling, Issuing,
                          DisablingNext, CreatingAgent, EnteringAgent, Joining, Refreshing,
                          JoiningMember, RefreshingMember, RefreshingUser, Changing, Creating,
                          Entering} => ~Ends(h)
<1>1. ASSUME h.plan \in {Resetting, Listing, Ending, CreatingAgent, CreatingPassword, Issuing}
      PROVE  /\ ~Refreshes(h) /\ ~Changes(h) /\ ~ByOAuth(h) /\ ~Joins(h) /\ ~Makes(h)
             /\ h.plan # DisablingNext /\ h.plan # Changing /\ h.plan # LoggingIn
             /\ h.plan # Issuing => h.plan # RefreshingUser
  BY <1>1, PlansDiffer DEF Refreshes, Changes, Disables, ByOAuth, Joins, Makes
<1>2. ASSUME h.plan \in {JoiningMember, RefreshingMember, RefreshingUser, EnteringAgent, Joining}
      PROVE  /\ ~Makes(h) /\ ~Ends(h) /\ ~Changes(h)
             /\ h.plan \notin {Creating, CreatingAgent, CreatingPassword, DisablingNext, Changing,
                               Issuing}
  BY <1>2, PlansDiffer DEF Makes, Ends, Changes, Disables
<1>3. ASSUME h.plan \in {DisablingNext, Changing}
      PROVE  /\ ~Refreshes(h) /\ ~ByOAuth(h) /\ ~Joins(h) /\ ~Makes(h) /\ ~Ends(h)
             /\ h.plan \notin {Creating, CreatingAgent, CreatingPassword, LoggingIn,
                               RefreshingUser, Issuing}
  BY <1>3, PlansDiffer DEF Refreshes, ByOAuth, Joins, Makes, Ends
<1>4. ASSUME h.plan \in {JoiningMember, EnteringAgent, Joining} PROVE ~Refreshes(h)
  BY <1>4, PlansDiffer DEF Refreshes
<1>5. ASSUME h.plan \in {EnteringAgent, Joining, RefreshingUser} PROVE ~Joins(h)
  BY <1>5, PlansDiffer DEF Joins
<1>6. h.plan \in {EnteringAgent, Joining, JoiningMember, RefreshingMember} =>
          h.plan # RefreshingUser
  BY PlansDiffer
<1>7. ASSUME h.plan \in {LoggingIn, Renewing, CreatingPassword, Resetting, Disabling, Issuing,
                         DisablingNext, CreatingAgent, EnteringAgent, Joining, Refreshing,
                         JoiningMember, RefreshingMember, RefreshingUser, Changing, Creating,
                         Entering}
      PROVE  ~Ends(h)
  BY <1>7, PlansDiffer DEF Ends
<1>8. /\ h.plan \in {Listing, Ending, Resetting, Issuing} =>
             h.plan \notin {Creating, CreatingAgent, CreatingPassword}
      /\ h.plan \in {Listing, Resetting, Issuing} => h.plan # Ending
      /\ h.plan \in {Resetting, Listing, Ending, CreatingAgent, CreatingPassword} =>
             h.plan # Issuing
  BY PlansDiffer
<1> QED
  BY <1>1, <1>2, <1>3, <1>4, <1>5, <1>6, <1>7, <1>8

\* Steps after which passwords and sessions are what they were.
LEMMA ReadGoesOn ==
    ASSUME Fits, IInv', NEW c \in Threads, NEW step, At(c, step),
           step \notin {"seed", "default", "set", "grant", "user", "agent"},
           NEW u \in Users, u = call[c].user,
           NEW x \in Call, NEW g \in Call, g = Rest(x), GoOn(c, x), CallFits(g),
           x = Idle \/ (x.user = u /\ x.area = "account"),
           ~Makes(g),
           account' = account, agents' = agents, ordered' = ordered, grants' = grants,
           allowed' = allowed, sessions' = sessions, password' = password,
           <<u, "account">> \notin raced =>
               /\ OrderFits(g, u)
               /\ u \notin broken => KeyFits(g, u) /\ (~Ends(g) => Stale(u) = {})
               /\ u \in Federated => (u \in members => u \in members') /\ MemberFits(g, u)',
           \A v \in Federated \ {u} : <<v, "account">> \notin raced =>
               (v \in members' <=> v \in members),
           Joins(g) => \A v \in Federated : v \in g.members <=> v \in members' \/ v = u
    PROVE  Fits'
<1>1. Of(c, u, "account")
  BY AtAccount
<1>2. LiveSessions(u)' = LiveSessions(u) /\ Stale(u)' = Stale(u)
  BY DEF LiveSessions, Stale
<1>3. OrderFits(g, u) => OrderFits(g, u)'
  BY <1>2 DEF OrderFits
<1>4. KeyFits(g, u) => KeyFits(g, u)'
  BY <1>2 DEF KeyFits
<1>5. ASSUME u \in Federated, <<u, "account">> \notin raced PROVE SessionsJoined(u)'
  BY <1>1, <1>2, <1>5, AloneHere DEF SessionsJoined
<1>6. <<u, "account">> \notin raced =>
          /\ OrderFits(g, u)'
          /\ u \notin broken => KeyFits(g, u)' /\ (~Ends(g) => Stale(u)' = {})
          /\ u \in Federated => SessionsJoined(u)' /\ MemberFits(g, u)'
  BY <1>2, <1>3, <1>4, <1>5
<1> QED
  BY <1>6, AccountGoesOn

LEMMA VerifyFits ==
    ASSUME Fits, IInv', NEW c \in Threads, Verify(c)
    PROVE  Fits'
<1>1. PICK u \in Users : u = call[c].user
  BY AtAccount DEF Verify
<1>2. /\ At(c, "verify") /\ Of(c, u, "account") /\ CallFits(call[c])
      /\ call[c] \in Call /\ call[c].area = "account" /\ call[c].plan \in {LoggingIn, Renewing}
      /\ Next1(c) \in Call /\ Next1(c) = [call[c] EXCEPT !.plan = Tail(call[c].plan)]
  BY <1>1, AtAccount, PlansAt DEF Verify
<1>3. PICK x \in Call : /\ x = IF password[u] = call[c].key THEN Next1(c) ELSE Idle
                        /\ GoOn(c, x)
  BY <1>1, <1>2, IdleFits DEF Verify
<1>4. PICK g \in Call : g = Rest(x)
  BY RestTyped
<1>5. /\ account' = account /\ agents' = agents /\ ordered' = ordered /\ grants' = grants
      /\ allowed' = allowed /\ sessions' = sessions /\ password' = password /\ members' = members
  BY DEF Verify, records, history
<1>6. <<u, "account">> \notin raced =>
          OrderFits(call[c], u) /\ (u \notin broken => Stale(u) = {})
  BY <1>1, <1>2, AloneHere, PlansAbout
<1>7. CASE password[u] # call[c].key
  <2>1. x = Idle /\ g = Idle
    BY <1>3, <1>4, <1>7, RestTyped, IdleFits
  <2> QED
    BY <1>1, <1>2, <1>3, <1>4, <1>5, <1>6, <2>1, IdleFits, ReadGoesOn DEF MemberFits
<1>8. CASE password[u] = call[c].key /\ call[c].plan = LoggingIn
  <2>a. /\ x.plan = Tail(call[c].plan) /\ x.user = u /\ x.area = "account"
        /\ x.account = call[c].account /\ x.field = call[c].field /\ x.key = call[c].key
    BY <1>1, <1>2, <1>3, <1>8 DEF Call
  <2>1. x.plan = Issuing /\ x.plan # <<>>
    BY <1>8, <2>a, AccountPlansGoOn
  <2>2. g = x
    BY <1>4, <2>1, RestTyped
  <2>3. CallFits(g)
    BY <1>1, <1>2, <1>4, <2>a, NextFits DEF AccountPlans
  <2>4. x.key # NoPassword
    BY <1>2, <1>8, <2>a DEF CallFits
  <2>5. OrderFits(call[c], u) => OrderFits(g, u)
    <3>1. ~Makes(call[c])
      BY <1>8, PlansDiffer DEF Makes
    <3>2. /\ ~Refreshes(g) /\ ~Changes(g) /\ ~ByOAuth(g) /\ g.plan # DisablingNext
          /\ g.plan # Changing
      BY <2>1, <2>2, PlansAbout
    <3> QED
      BY <1>8, <3>1, <3>2 DEF OrderFits
  <2>6. KeyFits(g, u) /\ MemberFits(g, u)'
    BY <1>8, <2>a, <2>1, <2>2, <2>4, PlansAbout DEF KeyFits, MemberFits
  <2>7. ~Makes(g) /\ ~Joins(g)
    BY <2>1, <2>2, PlansAbout
  <2> QED
    BY <1>1, <1>2, <1>3, <1>4, <1>5, <1>6, <2>a, <2>3, <2>5, <2>6, <2>7, ReadGoesOn
<1>9. CASE password[u] = call[c].key /\ call[c].plan = Renewing
  <2>a. /\ x.plan = Tail(call[c].plan) /\ x.user = u /\ x.area = "account"
        /\ x.account = call[c].account /\ x.field = call[c].field /\ x.key = call[c].key
    BY <1>1, <1>2, <1>3, <1>9 DEF Call
  <2>1. x.plan = Resetting /\ x.plan # <<>>
    BY <1>9, <2>a, AccountPlansGoOn
  <2>2. g = x
    BY <1>4, <2>1, RestTyped
  <2>3. CallFits(g)
    BY <1>1, <1>2, <1>4, <2>a, NextFits DEF AccountPlans
  <2>4. OrderFits(g, u) /\ KeyFits(g, u) /\ MemberFits(g, u)' /\ ~Makes(g) /\ ~Joins(g)
    BY <2>1, <2>2, PlansAbout DEF OrderFits, KeyFits, MemberFits
  <2> QED
    BY <1>1, <1>2, <1>3, <1>4, <1>5, <1>6, <2>a, <2>3, <2>4, ReadGoesOn
<1> QED
  BY <1>2, <1>7, <1>8, <1>9

LEMMA ListSessionsFits ==
    ASSUME Fits, IInv', NEW c \in Threads, ListSessions(c)
    PROVE  Fits'
<1>1. PICK u \in Users : u = call[c].user
  BY AtAccount DEF ListSessions
<1>2. /\ At(c, "list") /\ Of(c, u, "account") /\ CallFits(call[c])
      /\ call[c] \in Call /\ call[c].area = "account" /\ call[c].plan \in {Listing, Disabling}
      /\ Next1(c) \in Call /\ Next1(c) = [call[c] EXCEPT !.plan = Tail(call[c].plan)]
  BY <1>1, AtAccount, PlansAt DEF ListSessions
<1>3. PICK x \in Call : x = [Next1(c) EXCEPT !.todo = LiveSessions(u)] /\ GoOn(c, x)
  <2>1. LiveSessions(u) \in SUBSET Nat
    BY DEF LiveSessions, Fits, IInv, TypeOK
  <2> QED
    BY <1>1, <1>2, <2>1, CallWith DEF ListSessions
<1>4. PICK g \in Call : g = Rest(x)
  BY RestTyped
<1>5. /\ account' = account /\ agents' = agents /\ ordered' = ordered /\ grants' = grants
      /\ allowed' = allowed /\ sessions' = sessions /\ password' = password /\ members' = members
  BY DEF ListSessions, records, history
<1>6. /\ x.plan = Tail(call[c].plan) /\ x.user = u /\ x.area = "account"
      /\ x.todo = LiveSessions(u) /\ x.account = call[c].account /\ x.field = call[c].field
      /\ x.key = call[c].key
  BY <1>1, <1>2, <1>3 DEF Call
<1>7. x.plan \in {Ending, DisablingNext} /\ x.plan # <<>>
      /\ (x.plan = Ending => call[c].plan = Listing)
      /\ (x.plan = DisablingNext => call[c].plan = Disabling)
  BY <1>2, <1>6, AccountPlansGoOn, PlansDiffer
<1>8. g = x
  BY <1>4, <1>7, RestTyped
<1>9. CallFits(g)
  BY <1>1, <1>2, <1>4, <1>6, NextFits DEF AccountPlans
<1>10. ~Makes(g) /\ ~Joins(g) /\ MemberFits(g, u)'
  BY <1>7, <1>8, PlansAbout DEF MemberFits
<1>11. OrderFits(call[c], u) => OrderFits(g, u)
  <2>1. CASE x.plan = Ending
    BY <1>8, <2>1, PlansAbout DEF OrderFits
  <2>2. CASE x.plan = DisablingNext
    <3>1. Changes(call[c]) /\ Changes(g)
      BY <1>7, <1>8, <2>2 DEF Changes, Disables
    <3>2. /\ ~Refreshes(g) /\ ~ByOAuth(g) /\ g.plan # LoggingIn /\ g.plan # Issuing
          /\ g.plan # Changing
      BY <1>8, <2>2, PlansAbout, PlansDiffer
    <3> QED
      BY <1>6, <1>8, <3>1, <3>2 DEF OrderFits
  <2> QED
    BY <1>7, <2>1, <2>2
<1>12. KeyFits(g, u)
  <2>1. Stale(u) \subseteq g.todo
    BY <1>6, <1>8 DEF Stale
  <2>2. g.plan # Issuing /\ g.plan \notin {Creating, CreatingAgent, CreatingPassword}
    BY <1>7, <1>8, PlansAbout
  <2> QED
    BY <2>1, <2>2 DEF KeyFits
<1>13. <<u, "account">> \notin raced =>
           OrderFits(call[c], u) /\ (u \notin broken => (~Ends(call[c]) => Stale(u) = {}))
  BY <1>1, <1>2, AloneHere
<1>14. ~Ends(g) => ~Ends(call[c])
  <2>1. ~Ends(g) => call[c].plan = Disabling
    BY <1>7, <1>8 DEF Ends
  <2> QED
    BY <2>1, PlansAbout
<1> QED
  BY <1>1, <1>2, <1>3, <1>4, <1>5, <1>6, <1>9, <1>10, <1>11, <1>12, <1>13, <1>14, ReadGoesOn

LEMMA ReadProjectFits ==
    ASSUME Fits, IInv', NEW c \in Threads, ReadProject(c)
    PROVE  Fits'
<1>1. PICK u \in Users : u = call[c].user
  BY AtAccount DEF ReadProject
<1>2. /\ At(c, "project") /\ Of(c, u, "account") /\ CallFits(call[c])
      /\ call[c] \in Call /\ call[c].area = "account" /\ call[c].plan \in {Joining, Refreshing}
      /\ Next1(c) \in Call /\ Next1(c) = [call[c] EXCEPT !.plan = Tail(call[c].plan)]
  BY <1>1, AtAccount, PlansAt DEF ReadProject
<1>3. PICK x \in Call : /\ x = IF u \in members THEN Next1(c)
                               ELSE [Insert(c, "member") EXCEPT !.members = members \cup {u}]
                        /\ GoOn(c, x)
  <2>1. Insert(c, "member") \in Call
    BY <1>2, AtTyped DEF Fits, Steps
  <2>2. members \cup {u} \in SUBSET Users
    BY DEF Fits, IInv, TypeOK
  <2>3. [Insert(c, "member") EXCEPT !.members = members \cup {u}] \in Call
    BY <2>1, <2>2, CallWith
  <2> QED
    BY <1>1, <1>2, <2>3 DEF ReadProject
<1>4. PICK g \in Call : g = Rest(x)
  BY RestTyped
<1>5. /\ account' = account /\ agents' = agents /\ ordered' = ordered /\ grants' = grants
      /\ allowed' = allowed /\ sessions' = sessions /\ password' = password /\ members' = members
  BY DEF ReadProject, records, history
<1>6. call[c].key = NoPassword /\ u \in Federated /\ ByOAuth(call[c])
      /\ (call[c].plan = Refreshing => Refreshes(call[c]) /\ call[c].field = "none")
  BY <1>1, <1>2 DEF CallFits, ByOAuth, Refreshes
<1>7. /\ x.user = u /\ x.area = "account" /\ x.account = call[c].account
      /\ x.field = call[c].field /\ x.key = NoPassword
      /\ x.plan = IF u \in members THEN Tail(call[c].plan) ELSE <<"member">> \o Tail(call[c].plan)
      /\ u \notin members => x.members = members \cup {u}
  BY <1>1, <1>2, <1>3, <1>6 DEF Call, Insert
<1>8. /\ call[c].plan = Joining => x.plan \in {Issuing, JoiningMember}
      /\ call[c].plan = Refreshing => x.plan \in {RefreshingUser, RefreshingMember}
      /\ u \in members <=> x.plan \in {Issuing, RefreshingUser}
      /\ u \notin members <=> x.plan \in {JoiningMember, RefreshingMember}
      /\ x.plan # <<>>
  <2>1. CASE u \in members
    <3>1. x.plan = Tail(call[c].plan)
      BY <1>7, <2>1
    <3>2. CASE call[c].plan = Joining
      <4>1. x.plan = Issuing
        BY <3>1, <3>2, AccountPlansGoOn
      <4> QED
        BY <2>1, <3>2, <4>1, PlansDiffer, AccountPlansGoOn
    <3>3. CASE call[c].plan = Refreshing
      <4>1. x.plan = RefreshingUser
        BY <3>1, <3>3, AccountPlansGoOn
      <4> QED
        BY <2>1, <3>3, <4>1, PlansDiffer, AccountPlansGoOn
    <3> QED
      BY <1>2, <3>2, <3>3
  <2>2. CASE u \notin members
    <3>1. x.plan = <<"member">> \o Tail(call[c].plan)
      BY <1>7, <2>2
    <3>2. CASE call[c].plan = Joining
      <4>1. x.plan = JoiningMember
        BY <3>1, <3>2, AccountPlansGoOn, Inserted
      <4> QED
        BY <2>2, <3>2, <4>1, PlansDiffer, AccountPlansGoOn
    <3>3. CASE call[c].plan = Refreshing
      <4>1. x.plan = RefreshingMember
        BY <3>1, <3>3, AccountPlansGoOn, Inserted
      <4> QED
        BY <2>2, <3>3, <4>1, PlansDiffer, AccountPlansGoOn
    <3> QED
      BY <1>2, <3>2, <3>3
  <2> QED
    BY <2>1, <2>2
<1>9. g = x
  BY <1>4, <1>8, RestTyped
<1>10. CallFits(g)
  <2>1. g.account.exists
    BY <1>2, <1>7, <1>9 DEF CallFits
  <2>2. \/ g.plan = JoiningMember \/ g.plan = Issuing
        \/ g.plan \in {RefreshingMember, RefreshingUser} /\ g.field = "none"
    BY <1>2, <1>6, <1>7, <1>8, <1>9
  <2> QED
    BY <1>6, <1>7, <1>9, <2>1, <2>2, PlanTells
<1>11. ~Makes(g) /\ (Joins(g) <=> u \notin members)
  <2>1. ~Makes(g)
    BY <1>2, <1>8, <1>9, PlansAbout
  <2> QED
    BY <1>8, <1>9, <2>1 DEF Joins
<1>12. MemberFits(g, u)'
  <2>1. g.plan \in {Issuing, RefreshingUser} => u \in members
    BY <1>8, <1>9
  <2> QED
    BY <1>5, <2>1 DEF MemberFits
<1>13. OrderFits(call[c], u) => OrderFits(g, u)
  <2>1. ~Makes(call[c])
    BY <1>2, PlansDiffer DEF Makes
  <2>2. Refreshes(g) => Refreshes(call[c])
    <3>1. CASE call[c].plan = Joining
      <4>1. ~Refreshes(g)
        BY <1>8, <1>9, <3>1, PlansAbout
      <4> QED
        BY <4>1
    <3> QED
      BY <1>2, <1>6, <3>1
  <2>3. ~Changes(g) /\ g.plan # DisablingNext /\ g.plan # Changing
    BY <1>2, <1>8, <1>9, PlansAbout
  <2> QED
    BY <1>6, <1>7, <1>9, <2>1, <2>2, <2>3 DEF OrderFits
<1>14. KeyFits(g, u)
  <2>1. g.plan # Ending /\ g.plan \notin {Creating, CreatingAgent, CreatingPassword}
    BY <1>2, <1>8, <1>9, PlansDiffer
  <2> QED
    BY <1>7, <1>9, <2>1 DEF KeyFits
<1>15. ~Ends(call[c])
  BY <1>2, PlansAbout
<1>16. <<u, "account">> \notin raced =>
           OrderFits(call[c], u) /\ (u \notin broken => Stale(u) = {})
  BY <1>1, <1>2, <1>15, AloneHere
<1>17. Joins(g) => \A v \in Federated : v \in g.members <=> v \in members' \/ v = u
  BY <1>5, <1>7, <1>9, <1>11
<1> QED
  BY <1>1, <1>2, <1>3, <1>4, <1>5, <1>7, <1>10, <1>11, <1>12, <1>13, <1>14, <1>16, <1>17,
     ReadGoesOn

LEMMA SaveProjectFits ==
    ASSUME Fits, IInv', NEW c \in Threads, SaveProject(c)
    PROVE  Fits'
<1>1. PICK u \in Users : u = call[c].user
  BY AtAccount DEF SaveProject
<1>2. /\ At(c, "member") /\ Of(c, u, "account") /\ CallFits(call[c])
      /\ call[c] \in Call /\ call[c].area = "account"
      /\ call[c].plan \in {JoiningMember, RefreshingMember}
      /\ Next1(c) \in Call /\ Next1(c) = [call[c] EXCEPT !.plan = Tail(call[c].plan)]
  BY <1>1, AtAccount, PlansAt DEF SaveProject
<1>3. PICK x \in Call : x = Next1(c) /\ GoOn(c, x)
  BY <1>2 DEF SaveProject
<1>4. PICK g \in Call : g = Rest(x)
  BY RestTyped
<1>5. /\ account' = account /\ agents' = agents /\ ordered' = ordered /\ grants' = grants
      /\ allowed' = allowed /\ sessions' = sessions /\ password' = password
      /\ members' = call[c].members
  BY DEF SaveProject, history
<1>6. Joins(call[c]) /\ ByOAuth(call[c]) /\ call[c].key = NoPassword /\ u \in Federated
  BY <1>1, <1>2 DEF CallFits, ByOAuth, Refreshes, Joins
<1>7. /\ x.user = u /\ x.area = "account" /\ x.account = call[c].account
      /\ x.field = call[c].field /\ x.key = NoPassword
      /\ x.plan = Tail(call[c].plan)
  BY <1>1, <1>2, <1>3, <1>6 DEF Call
<1>8. /\ \/ call[c].plan = JoiningMember /\ x.plan = Issuing
         \/ call[c].plan = RefreshingMember /\ x.plan = RefreshingUser
      /\ x.plan # <<>>
  <2>1. CASE call[c].plan = JoiningMember
    <3>1. x.plan = Issuing
      BY <1>7, <2>1, AccountPlansGoOn
    <3>2. Issuing # <<>>
      BY AccountPlansGoOn
    <3> QED
      BY <2>1, <3>1, <3>2
  <2>2. CASE call[c].plan = RefreshingMember
    BY <1>7, <2>2, AccountPlansGoOn
  <2> QED
    BY <1>2, <2>1, <2>2
<1>9. g = x
  BY <1>4, <1>8, RestTyped
<1>10. CallFits(g)
  BY <1>2, <1>4, <1>6, <1>7, <1>1, NextFits DEF AccountPlans
<1>11. ~Makes(g) /\ ~Joins(g) /\ ~Ends(call[c])
  BY <1>2, <1>8, <1>9, PlansAbout
<1>12. <<u, "account">> \notin raced =>
           /\ OrderFits(call[c], u) /\ (u \notin broken => Stale(u) = {})
           /\ u \in members'
  BY <1>1, <1>2, <1>5, <1>6, <1>11, AloneHere
<1>13. OrderFits(call[c], u) => OrderFits(g, u)
  <2>1. ~Makes(call[c])
    BY <1>2, PlansAbout
  <2>2. Refreshes(g) => Refreshes(call[c])
    <3>1. CASE x.plan = Issuing
      BY <1>9, <3>1, PlansAbout
    <3> QED
      BY <1>8, <3>1 DEF Refreshes
  <2>3. ~Changes(g) /\ g.plan # DisablingNext /\ g.plan # Changing
    BY <1>8, <1>9, PlansAbout
  <2> QED
    BY <1>6, <1>7, <1>9, <2>1, <2>2, <2>3 DEF OrderFits
<1>14. KeyFits(g, u)
  <2>1. g.plan # Ending /\ g.plan \notin {Creating, CreatingAgent, CreatingPassword}
    BY <1>8, <1>9, PlansDiffer
  <2> QED
    BY <1>7, <1>9, <2>1 DEF KeyFits
<1>15. ASSUME NEW v \in Federated \ {u}, <<v, "account">> \notin raced
       PROVE  v \in members' <=> v \in members
  <2>1. v \in Users /\ MembersOf(v)
    BY AccountsAssumption DEF Fits, InTurns
  <2> QED
    BY <1>1, <1>5, <1>6, <1>15, <2>1 DEF MembersOf
<1>16. <<u, "account">> \notin raced => MemberFits(g, u)'
  BY <1>12 DEF MemberFits
<1> QED
  BY <1>1, <1>2, <1>3, <1>4, <1>5, <1>7, <1>10, <1>11, <1>12, <1>13, <1>14, <1>15, <1>16,
     ReadGoesOn

LEMMA SavePasswordFits ==
    ASSUME Fits, IInv', NEW c \in Threads, SavePassword(c)
    PROVE  Fits'
<1>1. PICK u \in Users : u = call[c].user
  BY AtAccount DEF SavePassword
<1>2. /\ At(c, "password") /\ Of(c, u, "account") /\ CallFits(call[c])
      /\ call[c] \in Call /\ call[c].area = "account"
      /\ call[c].plan \in {CreatingPassword, Resetting}
      /\ Next1(c) \in Call /\ Next1(c) = [call[c] EXCEPT !.plan = Tail(call[c].plan)]
  BY <1>1, AtAccount, PlansAt DEF SavePassword
<1>3. PICK x \in Call : x = Next1(c) /\ GoOn(c, x)
  BY <1>2 DEF SavePassword
<1>4. PICK g \in Call : g = Rest(x)
  BY RestTyped
<1>5. /\ account' = account /\ agents' = agents /\ ordered' = ordered /\ grants' = grants
      /\ allowed' = allowed /\ sessions' = sessions /\ members' = members
      /\ \A v \in Users \ {u} : password'[v] = password[v]
  BY <1>1 DEF SavePassword, history, Fits, IInv, TypeOK
<1>6. /\ x.plan = Tail(call[c].plan) /\ x.user = u /\ x.area = "account"
      /\ x.account = call[c].account /\ x.field = call[c].field /\ x.key = call[c].key
  BY <1>1, <1>2, <1>3 DEF Call
<1>7. CallFits(g)
  BY <1>1, <1>2, <1>4, <1>6, NextFits DEF AccountPlans
<1>8. <<u, "account">> \notin raced =>
          /\ OrderKept(u)
          /\ u \notin broken => KeyFits(call[c], u)
          /\ u \in Federated => SessionsJoined(u)
  BY <1>1, <1>2, AloneHere
<1>9. LiveSessions(u)' = LiveSessions(u) /\ (SessionsJoined(u) => SessionsJoined(u)')
  BY <1>5 DEF LiveSessions, SessionsJoined
<1>10. CASE call[c].plan = CreatingPassword
  <2>1. x.plan = <<>>
    BY <1>6, <1>10, AccountPlansGoOn
  <2>2. g = Idle
    BY <1>4, <2>1, RestTyped
  <2>3. OrderFits(g, u)' /\ KeyFits(g, u)' /\ MemberFits(g, u)' /\ ~Makes(g) /\ ~Joins(g)
    BY <2>2, IdleFits, IdleStaysFit
  <2>4. KeyFits(call[c], u) => Stale(u)' = {}
    BY <1>9, <1>10 DEF KeyFits, Stale
  <2> QED
    BY <1>1, <1>2, <1>3, <1>4, <1>5, <1>6, <1>7, <1>8, <1>9, <2>3, <2>4, AccountGoesOn
<1>11. CASE call[c].plan = Resetting
  <2>1. x.plan = Listing /\ x.plan # <<>>
    BY <1>6, <1>11, AccountPlansGoOn
  <2>2. g = x
    BY <1>4, <2>1, RestTyped
  <2>3. /\ ~Refreshes(g) /\ ~Changes(g) /\ ~ByOAuth(g) /\ ~Joins(g) /\ ~Makes(g)
        /\ g.plan # DisablingNext /\ g.plan # Changing /\ g.plan # LoggingIn /\ g.plan # Issuing
        /\ g.plan # RefreshingUser /\ g.plan # Ending
        /\ g.plan \notin {Creating, CreatingAgent, CreatingPassword}
    BY <2>1, <2>2, PlansAbout
  <2>4. OrderFits(g, u)' /\ KeyFits(g, u)' /\ MemberFits(g, u)'
    BY <2>3 DEF OrderFits, KeyFits, MemberFits
  <2>5. Ends(g)
    BY <2>1, <2>2 DEF Ends
  <2> QED
    BY <1>1, <1>2, <1>3, <1>4, <1>5, <1>6, <1>7, <1>8, <1>9, <2>3, <2>4, <2>5, AccountGoesOn
<1> QED
  BY <1>2, <1>10, <1>11

\* The last session that was listed is ended: what is to come may rely on there being none.
LEMMA RevokeFits ==
    ASSUME Fits, IInv', NEW c \in Threads, Revoke(c)
    PROVE  Fits'
<1>1. PICK u \in Users : u = call[c].user
  BY AtAccount DEF Revoke
<1>2. /\ At(c, "revoke") /\ Of(c, u, "account") /\ CallFits(call[c])
      /\ call[c] \in Call /\ call[c].area = "account"
      /\ call[c].plan \in {Ending, DisablingNext}
      /\ Next1(c) \in Call /\ Next1(c) = [call[c] EXCEPT !.plan = Tail(call[c].plan)]
  BY <1>1, AtAccount, PlansAt DEF Revoke
<1>3. /\ account' = account /\ agents' = agents /\ ordered' = ordered /\ grants' = grants
      /\ allowed' = allowed /\ password' = password /\ members' = members
  BY DEF Revoke, history
<1>4. <<u, "account">> \notin raced =>
          /\ OrderFits(call[c], u)
          /\ u \notin broken => KeyFits(call[c], u) /\ (~Ends(call[c]) => Stale(u) = {})
          /\ u \in Federated => SessionsJoined(u)
  BY <1>1, <1>2, AloneHere
<1>5. call[c].plan = DisablingNext => ~Ends(call[c])
  BY PlansAbout
<1>6. CASE call[c].todo = {} /\ GoOn(c, Next1(c)) /\ UNCHANGED sessions
  <2>1. PICK x \in Call : x = Next1(c) /\ GoOn(c, x)
    BY <1>2, <1>6
  <2>2. PICK g \in Call : g = Rest(x)
    BY RestTyped
  <2>3. /\ x.plan = Tail(call[c].plan) /\ x.user = u /\ x.area = "account"
        /\ x.account = call[c].account /\ x.field = call[c].field /\ x.key = call[c].key
    BY <1>1, <1>2, <2>1 DEF Call
  <2>4. CallFits(g)
    BY <1>1, <1>2, <2>2, <2>3, NextFits DEF AccountPlans
  <2>5. CASE call[c].plan = Ending
    <3>1. x.plan = <<>>
      BY <2>3, <2>5, AccountPlansGoOn
    <3>2. g = Idle
      BY <2>2, <3>1, RestTyped
    <3>3. KeyFits(call[c], u) => Stale(u) = {}
      BY <1>6, <2>5 DEF KeyFits
    <3>4. OrderFits(g, u) /\ KeyFits(g, u) /\ MemberFits(g, u)' /\ ~Makes(g) /\ ~Joins(g)
      BY <3>2, IdleFits, IdleStaysFit
    <3> QED
      BY <1>1, <1>2, <1>3, <1>4, <1>6, <2>1, <2>2, <2>3, <2>4, <3>3, <3>4, ReadGoesOn
  <2>6. CASE call[c].plan = DisablingNext
    <3>1. x.plan = Changing /\ x.plan # <<>>
      BY <2>3, <2>6, AccountPlansGoOn
    <3>2. g = x
      BY <2>2, <3>1, RestTyped
    <3>3. /\ ~Refreshes(g) /\ ~ByOAuth(g) /\ ~Joins(g) /\ ~Makes(g) /\ ~Ends(g)
          /\ g.plan # LoggingIn /\ g.plan # RefreshingUser /\ g.plan # Issuing
          /\ g.plan \notin {Creating, CreatingAgent, CreatingPassword}
          /\ g.plan # DisablingNext /\ g.plan # Ending
      BY <3>1, <3>2, PlansAbout, PlansDiffer
    <3>4. Changes(call[c])
      BY <2>6 DEF Changes, Disables
    <3>5. OrderFits(call[c], u) => OrderFits(g, u)
      BY <1>6, <2>3, <2>6, <3>1, <3>2, <3>3, <3>4 DEF OrderFits
    <3>6. KeyFits(g, u) /\ MemberFits(g, u)'
      BY <3>3 DEF KeyFits, MemberFits
    <3> QED
      BY <1>1, <1>2, <1>3, <1>4, <1>5, <1>6, <2>1, <2>2, <2>3, <2>4, <2>6, <3>3, <3>5, <3>6,
         ReadGoesOn
  <2> QED
    BY <1>2, <2>5, <2>6
<1>7. ASSUME NEW s \in call[c].todo,
             sessions' = [sessions EXCEPT ![s].live = FALSE],
             GoOn(c, [call[c] EXCEPT !.todo = @ \ {s}])
      PROVE  Fits'
  <2>1. PICK x \in Call : x = [call[c] EXCEPT !.todo = @ \ {s}] /\ GoOn(c, x)
    <3>1. call[c].todo \ {s} \in SUBSET Nat
      BY <1>2 DEF Call
    <3> QED
      BY <1>2, <1>7, <3>1, CallWith
  <2>2. /\ x.plan = call[c].plan /\ x.user = u /\ x.area = "account"
        /\ x.account = call[c].account /\ x.field = call[c].field /\ x.key = call[c].key
        /\ x.todo = call[c].todo \ {s}
    BY <1>1, <1>2, <2>1 DEF Call
  <2>3. PICK g \in Call : g = Rest(x) /\ g = x
    BY <1>2, <2>2, RestTyped, AccountPlansGoOn
  <2>4. CallFits(g)
    <3>1. call[c].plan = DisablingNext =>
              call[c].field = "status" /\ call[c].account.status = "disabled"
      BY <1>2 DEF CallFits, Disables
    <3> QED
      BY <1>2, <2>2, <2>3, <3>1, PlansDiffer, PlanTells DEF CallFits
  <2>5. /\ DOMAIN sessions' = DOMAIN sessions
        /\ \A t \in DOMAIN sessions : /\ sessions'[t].user = sessions[t].user
                                      /\ sessions'[t].key = sessions[t].key
                                      /\ sessions'[t].live => sessions[t].live /\ t # s
    <3>1. \A t \in DOMAIN sessions : sessions[t] \in Session
      BY DEF Fits, IInv, TypeOK
    <3>2. ASSUME NEW t \in DOMAIN sessions
          PROVE  /\ sessions'[t].user = sessions[t].user
                 /\ sessions'[t].key = sessions[t].key
                 /\ sessions'[t].live => sessions[t].live /\ t # s
      BY <1>7, <3>1 DEF Session
    <3> QED
      BY <1>7, <3>2
  <2>6. LiveSessions(u)' \subseteq LiveSessions(u) \ {s} /\ Stale(u)' \subseteq Stale(u) \ {s}
    BY <1>3, <2>5 DEF LiveSessions, Stale
  <2>7. SessionsJoined(u) => SessionsJoined(u)'
    BY <1>3, <2>5, <2>6 DEF SessionsJoined, LiveSessions
  <2>8. ~Makes(g) /\ ~Joins(g) /\ ~Refreshes(g) /\ ~ByOAuth(g)
        /\ g.plan \notin {Issuing, RefreshingUser, LoggingIn, Changing, Creating, CreatingAgent,
                          CreatingPassword}
        /\ (Ends(call[c]) => Ends(g)) /\ (Changes(g) => Changes(call[c]))
    <3>1. CASE call[c].plan = Ending
      BY <2>2, <2>3, <3>1, PlansAbout DEF Ends, Changes, Disables
    <3>2. CASE call[c].plan = DisablingNext
      BY <1>5, <2>2, <2>3, <3>2, PlansAbout, PlansDiffer DEF Ends, Changes, Disables
    <3> QED
      BY <1>2, <3>1, <3>2
  <2>9. OrderFits(call[c], u) => OrderFits(g, u)'
    BY <1>3, <2>2, <2>3, <2>6, <2>8 DEF OrderFits
  <2>10. KeyFits(call[c], u) => KeyFits(g, u)'
    BY <2>2, <2>3, <2>6, <2>8 DEF KeyFits
  <2>11. MemberFits(g, u)'
    BY <2>8 DEF MemberFits
  <2>12. u \notin broken /\ <<u, "account">> \notin raced /\ ~Ends(g) => Stale(u)' = {}
    BY <1>4, <2>6, <2>8
  <2> QED
    BY <1>1, <1>2, <1>3, <1>4, <2>1, <2>2, <2>3, <2>4, <2>5, <2>7, <2>8, <2>9, <2>10, <2>11,
       <2>12, AccountGoesOn
<1> QED
  BY <1>6, <1>7 DEF Revoke

\* Accounts and agents that a step has nothing to do with.
LEMMA AgentsStillFollow ==
    ASSUME Fits, NEW c \in Threads, ~MakesAgent(call[c]), account' = account,
           agents' = agents, broken' = broken,
           \A d \in Threads \ {c} : call'[d] = call[d]
    PROVE  AgentsFollow'
<1> SUFFICES ASSUME NEW v \in Users, account[v].exists, v \notin broken, v \notin agents
             PROVE  \E d \in Threads : Of(d, v, "account")' /\ MakesAgent(call[d])'
  BY DEF AgentsFollow
<1>1. PICK d \in Threads : Of(d, v, "account") /\ MakesAgent(call[d])
  BY DEF Fits, AgentsFollow
<1>2. d # c
  BY <1>1
<1> QED
  BY <1>1, <1>2 DEF Of, MakesAgent

\* The session is one that nobody was shut out of: the account is active and the password is
\* the one of today.
LEMMA IssueSessionFits ==
    ASSUME Fits, IInv', NEW c \in Threads, IssueSession(c)
    PROVE  Fits'
<1>1. PICK u \in Users : u = call[c].user
  BY AtAccount DEF IssueSession
<1>2. /\ Of(c, u, "account") /\ CallFits(call[c])
      /\ call[c] \in Call /\ call[c].area = "account" /\ call[c] # Idle
      /\ call[c].plan = Issuing
      /\ Next1(c) \in Call /\ Next1(c) = [call[c] EXCEPT !.plan = Tail(call[c].plan)]
  BY <1>1, AtAccount, PlansAt, IdleFits DEF IssueSession
<1>3. PICK x \in Call : x = Next1(c) /\ GoOn(c, x)
  BY <1>2 DEF IssueSession
<1>4. PICK g \in Call : g = Rest(x)
  BY RestTyped
<1>5. /\ account' = account /\ agents' = agents /\ ordered' = ordered /\ grants' = grants
      /\ allowed' = allowed /\ password' = password /\ members' = members
  BY DEF IssueSession, history
<1>6. x.plan = <<>> /\ x.user = u /\ x.area = "account"
  <2>1. x.plan = Tail(call[c].plan) /\ x.user = u /\ x.area = "account"
    BY <1>1, <1>2, <1>3 DEF Call
  <2> QED
    BY <1>2, <2>1, AccountPlansGoOn
<1>7. g = Idle
  BY <1>4, <1>6, RestTyped
<1>8. /\ call' = [call EXCEPT ![c] = g] /\ TurnsTaken' /\ raced' = raced /\ broken' = broken
      /\ call'[c] = g /\ \A d \in Threads \ {c} : call'[d] = call[d]
  <2>1. /\ call[c].user \in Users /\ call[c] # Idle /\ g = Rest(x) /\ GoOn(c, x)
        /\ x.user = call[c].user /\ x.area = call[c].area /\ call[c].user = u
        /\ call[c].area = "account"
    BY <1>1, <1>2, <1>3, <1>4, <1>6
  <2> QED
    BY <2>1, GoesOnTurns
<1>9. PICK issued : /\ issued.user = u /\ issued.key = call[c].key /\ issued.live
                    /\ sessions' = Append(sessions, issued)
  BY <1>1 DEF IssueSession
<1>10. /\ DOMAIN sessions' = DOMAIN sessions \cup {Len(sessions) + 1}
       /\ Len(sessions) + 1 \notin DOMAIN sessions
       /\ \A s \in DOMAIN sessions : sessions'[s] = sessions[s]
       /\ sessions'[Len(sessions) + 1] = issued
  <2>1. sessions \in Seq(Session)
    BY DEF Fits, IInv, TypeOK
  <2> QED
    BY <1>9, <2>1
<1>11. ~Makes(call[c]) /\ ~MakesAgent(call[c]) /\ ~Ends(call[c])
  BY <1>2, PlansDiffer, PlansAbout DEF Makes, MakesAgent
<1>12. account[u].exists /\ (call[c].key = NoPassword => u \in Federated)
  BY <1>1, <1>2, <1>11 DEF Fits, AccountsExist, CallFits
<1>13. AccountsExist'
  <2>1. \A s \in DOMAIN sessions' :
           /\ account'[sessions'[s].user].exists
           /\ sessions'[s].key = NoPassword => sessions'[s].user \in Federated
    BY <1>5, <1>9, <1>10, <1>12 DEF Fits, AccountsExist
  <2>2. \A d \in Threads, v \in Users :
           Of(d, v, "account")' /\ ~Makes(call[d])' => account'[v].exists
    BY <1>5, <1>7, <1>8, IdleFits DEF Fits, AccountsExist, Of, Makes
  <2> QED
    BY <2>1, <2>2 DEF AccountsExist
<1>14. AgentsFollow'
  BY <1>5, <1>8, <1>11, AgentsStillFollow
<1>15. \A v \in Users \ {u} : RecordsStay(v)
  BY <1>5, <1>9, <1>10 DEF RecordsStay, SessionsStay, LiveSessions
<1>16. ASSUME <<u, "account">> \notin raced
       PROVE  /\ OrderKept(u)' /\ Alone(c, u, "account")
              /\ u \notin broken => Stale(u)' = {}
              /\ u \in Federated => SessionsJoined(u)'
  <2>1. /\ OrderKept(u) /\ OrderFits(call[c], u) /\ Alone(c, u, "account")
        /\ u \notin broken => KeyFits(call[c], u) /\ Stale(u) = {}
        /\ u \in Federated => SessionsJoined(u) /\ MemberFits(call[c], u)
    BY <1>2, <1>11, <1>16, AloneHere
  <2>2. account[u].status = "active"
    BY <1>2, <1>11, <2>1 DEF OrderFits
  <2>3. OrderKept(u)'
    BY <1>5, <2>1, <2>2 DEF OrderKept
  <2>4. u \notin broken => Stale(u)' = {}
    BY <1>2, <1>5, <1>9, <1>10, <2>1 DEF KeyFits, Stale, LiveSessions
  <2>5. u \in Federated => SessionsJoined(u)'
    BY <1>2, <1>5, <1>9, <1>10, <2>1 DEF MemberFits, SessionsJoined, LiveSessions
  <2> QED
    BY <2>1, <2>3, <2>4, <2>5
<1>17. CallFits(g) /\ ~Joins(g)
       /\ OrderFits(g, u)' /\ KeyFits(g, u)' /\ MemberFits(g, u)'
  BY <1>7, IdleFits, IdleStaysFit
<1> QED
  BY <1>2, <1>5, <1>7, <1>8, <1>13, <1>14, <1>15, <1>16, <1>17, AccountStep

\* Whoever waits for its agent is not forgotten.
LEMMA SaveAgentFits ==
    ASSUME Fits, IInv', NEW c \in Threads, SaveAgent(c)
    PROVE  Fits'
<1>1. PICK u \in Users : u = call[c].user
  BY AtAccount DEF SaveAgent
<1>2. /\ Of(c, u, "account") /\ CallFits(call[c])
      /\ call[c] \in Call /\ call[c].area = "account" /\ call[c] # Idle
      /\ call[c].plan \in {CreatingAgent, EnteringAgent}
      /\ Next1(c) \in Call /\ Next1(c) = [call[c] EXCEPT !.plan = Tail(call[c].plan)]
  BY <1>1, AtAccount, PlansAt, IdleFits DEF SaveAgent
<1>3. PICK x \in Call : x = Next1(c) /\ GoOn(c, x)
  BY <1>2 DEF SaveAgent
<1>4. PICK g \in Call : g = Rest(x)
  BY RestTyped
<1>5. /\ account' = account /\ agents' = agents \cup {u} /\ ordered' = ordered
      /\ grants' = grants /\ allowed' = allowed /\ password' = password /\ members' = members
      /\ sessions' = sessions
  BY <1>1 DEF SaveAgent, history
<1>6. /\ x.plan = Tail(call[c].plan) /\ x.user = u /\ x.area = "account"
      /\ x.account = call[c].account /\ x.field = call[c].field /\ x.key = call[c].key
  BY <1>1, <1>2, <1>3 DEF Call
<1>7. /\ \/ call[c].plan = CreatingAgent /\ x.plan = CreatingPassword
         \/ call[c].plan = EnteringAgent /\ x.plan = Joining
      /\ x.plan # <<>>
  <2>1. CASE call[c].plan = CreatingAgent
    BY <1>6, <2>1, AccountPlansGoOn
  <2>2. CASE call[c].plan = EnteringAgent
    BY <1>6, <2>2, AccountPlansGoOn
  <2> QED
    BY <1>2, <2>1, <2>2
<1>8. g = x
  BY <1>4, <1>7, RestTyped
<1>9. /\ call' = [call EXCEPT ![c] = g] /\ TurnsTaken' /\ raced' = raced /\ broken' = broken
      /\ call'[c] = g /\ \A d \in Threads \ {c} : call'[d] = call[d]
  <2>1. /\ call[c].user \in Users /\ call[c] # Idle /\ g = Rest(x) /\ GoOn(c, x)
        /\ x.user = call[c].user /\ x.area = call[c].area /\ call[c].user = u
        /\ call[c].area = "account"
    BY <1>1, <1>2, <1>3, <1>4, <1>6
  <2> QED
    BY <2>1, GoesOnTurns
<1>10. CallFits(g)
  BY <1>1, <1>2, <1>4, <1>6, NextFits DEF AccountPlans
<1>11. /\ ~Makes(g) /\ ~Joins(g) /\ ~Ends(g) /\ ~Ends(call[c])
       /\ ~Refreshes(g) /\ ~Changes(g)
       /\ g.plan \notin {DisablingNext, Changing, Issuing, RefreshingUser, Ending}
  BY <1>2, <1>7, <1>8, PlansAbout, PlansDiffer
<1>12. ~Makes(call[c])
  BY <1>2, PlansAbout
<1>13. AccountsExist'
  <2>1. account[u].exists
    BY <1>2, <1>12 DEF Fits, AccountsExist
  <2>2. \A d \in Threads, v \in Users :
           Of(d, v, "account")' /\ ~Makes(call[d])' => account'[v].exists
    BY <1>5, <1>6, <1>8, <1>9, <2>1 DEF Fits, AccountsExist, Of, Makes
  <2> QED
    BY <1>5, <2>2 DEF Fits, AccountsExist
<1>14. AgentsFollow'
  <2> SUFFICES ASSUME NEW v \in Users, account[v].exists, v \notin broken, v \notin agents, v # u
               PROVE  \E d \in Threads : Of(d, v, "account")' /\ MakesAgent(call[d])'
    BY <1>5, <1>9 DEF AgentsFollow
  <2>1. PICK d \in Threads : Of(d, v, "account") /\ MakesAgent(call[d])
    BY DEF Fits, AgentsFollow
  <2>2. d # c
    BY <1>1, <2>1 DEF Of
  <2> QED
    BY <1>9, <2>1, <2>2 DEF Of, MakesAgent
<1>15. \A v \in Users : RecordsStay(v) /\ LiveSessions(v)' = LiveSessions(v)
  BY <1>5 DEF RecordsStay, SessionsStay, LiveSessions
<1>16. ASSUME <<u, "account">> \notin raced
       PROVE  /\ OrderKept(u)' /\ OrderFits(g, u)' /\ Alone(c, u, "account")
              /\ u \notin broken => KeyFits(g, u)' /\ Stale(u)' = {}
              /\ u \in Federated => SessionsJoined(u)'
  <2>1. /\ OrderKept(u) /\ OrderFits(call[c], u) /\ Alone(c, u, "account")
        /\ u \notin broken => KeyFits(call[c], u) /\ Stale(u) = {}
        /\ u \in Federated => SessionsJoined(u)
    BY <1>2, <1>11, <1>16, AloneHere
  <2>2. OrderKept(u)' /\ (u \in Federated => SessionsJoined(u)')
    BY <1>5, <1>15, <2>1 DEF OrderKept, SessionsJoined
  <2>3. OrderFits(g, u)'
    <3>1. CASE call[c].plan = CreatingAgent
      <4>1. ~ByOAuth(g) /\ g.plan # LoggingIn
        BY <1>7, <1>8, <3>1, PlansAbout, PlansDiffer
      <4> QED
        BY <1>11, <4>1 DEF OrderFits
    <3>2. CASE call[c].plan = EnteringAgent
      <4>1. account[u].status = "active"
        BY <1>12, <2>1, <3>2 DEF OrderFits, ByOAuth
      <4> QED
        BY <1>5, <1>11, <4>1 DEF OrderFits
    <3> QED
      BY <1>2, <3>1, <3>2
  <2>4. u \notin broken => KeyFits(g, u)'
    <3>1. CASE call[c].plan = CreatingAgent
      BY <1>11, <1>15, <2>1, <3>1 DEF KeyFits
    <3>2. CASE call[c].plan = EnteringAgent
      <4>1. g.plan \notin {Creating, CreatingAgent, CreatingPassword}
        BY <1>7, <1>8, <3>2, PlansDiffer
      <4> QED
        BY <1>11, <4>1 DEF KeyFits
    <3> QED
      BY <1>2, <3>1, <3>2
  <2>5. Stale(u)' = Stale(u)
    BY <1>5, <1>15 DEF Stale
  <2> QED
    BY <2>1, <2>2, <2>3, <2>4, <2>5
<1>17. MemberFits(g, u)'
  BY <1>11 DEF MemberFits
<1> QED
  BY <1>2, <1>5, <1>6, <1>8, <1>9, <1>10, <1>11, <1>13, <1>14, <1>15, <1>16, <1>17, AccountStep

\* A copy that is saved is the record but for what is ordered with it.
LEMMA SaveUserFits ==
    ASSUME Fits, IInv', NEW c \in Threads, SaveUser(c)
    PROVE  Fits'
<1>1. PICK u \in Users : u = call[c].user
  BY AtAccount DEF SaveUser
<1>2. /\ Of(c, u, "account") /\ CallFits(call[c])
      /\ call[c] \in Call /\ call[c].area = "account" /\ call[c] # Idle
      /\ call[c].plan \in {Creating, Entering, RefreshingUser, Changing}
      /\ Next1(c) \in Call /\ Next1(c) = [call[c] EXCEPT !.plan = Tail(call[c].plan)]
  BY <1>1, AtAccount, PlansAt, IdleFits DEF SaveUser
<1>3. PICK x \in Call : x = Next1(c) /\ GoOn(c, x)
  BY <1>2 DEF SaveUser
<1>4. PICK g \in Call : g = Rest(x)
  BY RestTyped
<1>5. PICK saved \in Account : saved = call[c].account /\ saved.exists
  BY <1>2 DEF Call, CallFits
<1>6. /\ agents' = agents /\ grants' = grants /\ allowed' = allowed /\ password' = password
      /\ members' = members /\ sessions' = sessions
      /\ account' = [account EXCEPT ![u] = saved]
      /\ account'[u] = saved /\ \A v \in Users \ {u} : account'[v] = account[v]
      /\ \A v \in Users \ {u} : ordered'[v] = ordered[v]
      /\ call[c].field = "new" => ordered'[u] = saved
      /\ call[c].field = "status" =>
            ordered'[u] = [ordered[u] EXCEPT !.status = saved.status]
      /\ call[c].field = "role" => ordered'[u] = [ordered[u] EXCEPT !.role = saved.role]
      /\ call[c].field = "none" => ordered'[u] = ordered[u]
  BY <1>1, <1>5 DEF SaveUser, Fits, IInv, TypeOK
<1>7. /\ x.plan = Tail(call[c].plan) /\ x.user = u /\ x.area = "account"
      /\ x.account = call[c].account /\ x.field = call[c].field /\ x.key = call[c].key
  BY <1>1, <1>2, <1>3 DEF Call
<1>8. /\ \/ call[c].plan = Creating /\ x.plan = CreatingAgent /\ g = x
         \/ call[c].plan = Entering /\ x.plan = EnteringAgent /\ g = x
         \/ call[c].plan = RefreshingUser /\ x.plan = Issuing /\ g = x
         \/ call[c].plan = Changing /\ x.plan = <<>> /\ g = Idle
  <2>1. CASE call[c].plan = Creating
    BY <1>4, <1>7, <2>1, AccountPlansGoOn, RestTyped
  <2>2. CASE call[c].plan = Entering
    BY <1>4, <1>7, <2>2, AccountPlansGoOn, RestTyped
  <2>3. CASE call[c].plan = RefreshingUser
    <3>1. x.plan = Issuing /\ Issuing # <<>>
      BY <1>7, <2>3, AccountPlansGoOn
    <3> QED
      BY <1>4, <2>3, <3>1, RestTyped
  <2>4. CASE call[c].plan = Changing
    <3>1. x.plan = <<>>
      BY <1>7, <2>4, AccountPlansGoOn
    <3> QED
      BY <1>4, <2>4, <3>1, RestTyped
  <2> QED
    BY <1>2, <2>1, <2>2, <2>3, <2>4
<1>9. /\ call' = [call EXCEPT ![c] = g] /\ TurnsTaken' /\ raced' = raced /\ broken' = broken
      /\ call'[c] = g /\ \A d \in Threads \ {c} : call'[d] = call[d]
      /\ g = Idle \/ (g.user = u /\ g.area = "account")
  <2>1. /\ call[c].user \in Users /\ call[c] # Idle /\ g = Rest(x) /\ GoOn(c, x)
        /\ x.user = call[c].user /\ x.area = call[c].area /\ call[c].user = u
        /\ call[c].area = "account"
    BY <1>1, <1>2, <1>3, <1>4, <1>7
  <2> QED
    BY <2>1, GoesOnTurns
<1>10. CallFits(g)
  BY <1>1, <1>2, <1>4, <1>7, NextFits DEF AccountPlans
<1>11. ~Makes(g) /\ ~Joins(g) /\ ~Ends(g) /\ ~Ends(call[c])
       /\ g.plan \notin {RefreshingUser, Ending, DisablingNext, Changing, LoggingIn}
       /\ ~Refreshes(g) /\ ~Changes(g)
  <2>1. CASE g = Idle
    <3>1. g.plan = <<>> /\ ~Makes(g) /\ ~Joins(g) /\ ~Ends(g)
      BY <2>1, IdleFits
    <3>2. g.plan \notin AccountPlans
      BY <3>1, PlansDiffer
    <3>3. ~Ends(call[c])
      BY <1>2, PlansAbout
    <3> QED
      BY <3>1, <3>2, <3>3 DEF Refreshes, Changes, Disables, AccountPlans
  <2>2. CASE g.plan \in {CreatingAgent, EnteringAgent, Issuing}
    BY <1>2, <2>2, PlansAbout, PlansDiffer
  <2> QED
    BY <1>8, <2>1, <2>2
<1>12. AccountsExist'
  <2>1. \A v \in Users : account[v].exists => account'[v].exists
    BY <1>5, <1>6
  <2>2. \A s \in DOMAIN sessions : sessions[s].user \in Users
    <3>1. sessions \in Seq(Session)
      BY DEF Fits, IInv, TypeOK
    <3>2. \A s \in DOMAIN sessions : sessions[s] \in Session
      BY <3>1
    <3> QED
      BY <3>2 DEF Session
  <2>3. \A d \in Threads, v \in Users :
           Of(d, v, "account")' /\ ~Makes(call[d])' => account'[v].exists
    BY <1>5, <1>6, <1>9, <2>1, IdleFits DEF Fits, AccountsExist, Of, Makes
  <2> QED
    BY <1>6, <2>1, <2>2, <2>3 DEF Fits, AccountsExist
<1>13. AgentsFollow'
  <2> SUFFICES ASSUME NEW v \in Users, account'[v].exists, v \notin broken, v \notin agents
               PROVE  \E d \in Threads : Of(d, v, "account")' /\ MakesAgent(call[d])'
    BY <1>6, <1>9 DEF AgentsFollow
  <2>1. ~MakesAgent(call[c])
    BY <1>2, PlansDiffer DEF MakesAgent
  <2>2. CASE account[v].exists
    <3>1. PICK d \in Threads : Of(d, v, "account") /\ MakesAgent(call[d])
      BY <2>2 DEF Fits, AgentsFollow
    <3>2. d # c
      BY <2>1, <3>1
    <3> QED
      BY <1>9, <3>1, <3>2 DEF Of, MakesAgent
  <2>3. CASE ~account[v].exists
    <3>1. v = u
      BY <1>6, <2>3
    <3>2. Makes(call[c])
      BY <1>2, <2>3, <3>1 DEF Fits, AccountsExist
    <3>3. MakesAgent(g) /\ g # Idle
      BY <1>8, <3>2, IdleFits, PlansDiffer DEF Makes, MakesAgent
    <3> QED
      BY <1>9, <3>1, <3>3 DEF Of, MakesAgent
  <2> QED
    BY <2>2, <2>3
<1>14. \A v \in Users : SessionsStay(v) /\ LiveSessions(v)' = LiveSessions(v)
  BY <1>6 DEF SessionsStay, LiveSessions
<1>15. \A v \in Users \ {u} : RecordsStay(v)
  BY <1>6, <1>14 DEF RecordsStay
<1>16. ASSUME <<u, "account">> \notin raced
       PROVE  /\ OrderKept(u)' /\ OrderFits(g, u)' /\ Alone(c, u, "account")
              /\ u \notin broken => KeyFits(g, u)' /\ Stale(u)' = {}
              /\ u \in Federated => SessionsJoined(u)' /\ MemberFits(g, u)'
  <2>1. /\ OrderKept(u) /\ OrderFits(call[c], u) /\ Alone(c, u, "account")
        /\ u \notin broken => KeyFits(call[c], u) /\ Stale(u) = {}
        /\ u \in Federated => SessionsJoined(u) /\ MemberFits(call[c], u)
    BY <1>2, <1>11, <1>16, AloneHere
  <2>2. /\ u \notin broken => Stale(u)' = {}
        /\ u \in Federated => SessionsJoined(u)'
    <3>1. Stale(u)' = Stale(u)
      BY <1>6, <1>14 DEF Stale
    <3> QED
      BY <1>6, <1>14, <2>1, <3>1 DEF SessionsJoined
  <2>3. CASE call[c].plan \in {Creating, Entering}
    <3>1. saved = NewAccount /\ call[c].field = "new" /\ saved.status = "active"
      BY <1>2, <1>5, <2>3 DEF CallFits, Makes, NewAccount
    <3>2. OrderKept(u)'
      BY <1>6, <3>1 DEF OrderKept
    <3>3. OrderFits(g, u)'
      BY <1>6, <1>11, <3>1 DEF OrderFits
    <3>4. g.plan # Issuing /\ (g.plan \in {Creating, CreatingAgent, CreatingPassword} =>
                                  call[c].plan = Creating)
      BY <1>8, <2>3, PlansDiffer
    <3>5. u \notin broken => KeyFits(g, u)'
      BY <1>11, <1>14, <2>1, <3>4 DEF KeyFits
    <3>6. MemberFits(g, u)'
      BY <1>11, <3>4 DEF MemberFits
    <3> QED
      BY <2>1, <2>2, <3>2, <3>3, <3>5, <3>6
  <2>4. CASE call[c].plan = RefreshingUser
    <3>1. /\ Refreshes(call[c]) /\ ByOAuth(call[c]) /\ ~Makes(call[c])
          /\ call[c].field = "none" /\ call[c].key = NoPassword
      BY <1>2, <2>4, PlansAbout DEF CallFits, Refreshes, ByOAuth
    <3>2. saved = account[u] /\ account[u].status = "active"
      BY <1>5, <2>1, <3>1 DEF OrderFits
    <3>3. OrderKept(u)'
      BY <1>6, <2>1, <3>1, <3>2 DEF OrderKept
    <3>4. OrderFits(g, u)'
      BY <1>6, <1>11, <3>2 DEF OrderFits
    <3>5. g.plan = Issuing /\ g.key = NoPassword
          /\ g.plan \notin {Creating, CreatingAgent, CreatingPassword}
      BY <1>7, <1>8, <2>4, <3>1, PlansDiffer
    <3>6. KeyFits(g, u)'
      BY <1>11, <3>5 DEF KeyFits
    <3>7. u \in Federated => MemberFits(g, u)'
      BY <1>6, <2>1, <2>4, <3>1 DEF MemberFits
    <3> QED
      BY <2>1, <2>2, <3>3, <3>4, <3>6, <3>7
  <2>5. CASE call[c].plan = Changing
    <3>1. g = Idle
      BY <1>8, <2>5, PlansDiffer
    <3>2. Changes(call[c]) /\ call[c].field \in {"status", "role"}
      BY <1>2, <2>5 DEF CallFits, Changes
    <3>3. account[u] = ordered[u] /\ ordered'[u] = saved
      <4>1. account[u] = ordered[u]
        BY <2>1 DEF OrderKept
      <4>2. CASE call[c].field = "status"
        BY <1>5, <1>6, <2>1, <3>2, <4>1, <4>2 DEF OrderFits
      <4>3. CASE call[c].field = "role"
        BY <1>5, <1>6, <2>1, <3>2, <4>1, <4>3 DEF OrderFits
      <4> QED
        BY <3>2, <4>1, <4>2, <4>3
    <3>4. saved.status = "disabled" => LiveSessions(u) = {}
      BY <1>5, <2>1, <2>5 DEF OrderFits
    <3>5. OrderKept(u)'
      BY <1>6, <1>14, <3>3, <3>4 DEF OrderKept
    <3> QED
      BY <2>1, <2>2, <3>1, <3>5, IdleStaysFit
  <2> QED
    BY <1>2, <2>3, <2>4, <2>5
<1> QED
  BY <1>2, <1>6, <1>9, <1>10, <1>11, <1>12, <1>13, <1>15, <1>16, AccountStep

---------------------------------------------------------------------------
(* Handlers of tools go on.                                                *)

LEMMA ToolsAt ==
    ASSUME NEW p \in ToolPlans
    PROVE  /\ Head(p) = "seed" => p \in {Seeding, SeedingToSet}
           /\ Head(p) = "default" => p \in {Defaulting, DefaultingToSet}
           /\ Head(p) = "set" => p = Setting
           /\ Head(p) = "grant" => p = Granting
  BY PlansDiffer DEF ToolPlans

\* A handler that is at a step of the tools.
LEMMA AtTools ==
    ASSUME Fits, NEW c \in Threads, NEW step, At(c, step),
           step \in {"seed", "default", "set", "grant"}
    PROVE  /\ call[c] \in Call /\ call[c].user \in Users /\ CallFits(call[c])
           /\ call[c].area = "tools" /\ call[c].plan \in ToolPlans /\ call[c] # Idle
           /\ Head(call[c].plan) = step
           /\ Next1(c) \in Call
           /\ Next1(c) = [call[c] EXCEPT !.plan = Tail(call[c].plan)]
           /\ \A s \in Steps : Insert(c, s) \in Call
           /\ Of(c, call[c].user, "tools")
<1>1. /\ call[c] \in Call /\ call[c].user \in Users /\ CallFits(call[c]) /\ Next1(c) \in Call
      /\ call[c] # Idle /\ \A s \in Steps : Insert(c, s) \in Call
  BY AtTyped DEF Fits, CallsFit
<1>2. call[c].plan # <<>> /\ Head(call[c].plan) = step
  BY DEF At
<1>3. call[c].plan \notin AccountPlans
  BY <1>2, AccountPlansGoOn DEF AccountPlans
<1>4. call[c].area = "tools" /\ call[c].plan \in ToolPlans
  BY <1>1, <1>2, <1>3 DEF CallFits
<1> QED
  BY <1>1, <1>2, <1>4 DEF Next1, Of

\* What a call about the tools has to fit.
LEMMA ToolTells ==
    ASSUME NEW h \in Call, h.area = "tools", h.account.exists, h.plan \in ToolPlans,
           h.plan \in {Defaulting, DefaultingToSet} => h.user \in Seeded
    PROVE  CallFits(h)
<1>1. h.plan \notin AccountPlans /\ h.plan # <<>>
  <2>1. Head(h.plan) \in {"seed", "default", "set", "grant"} /\ h.plan # <<>>
    BY ToolPlansGoOn DEF ToolPlans
  <2>2. ASSUME NEW p \in AccountPlans PROVE Head(p) \notin {"seed", "default", "set", "grant"}
    BY AccountPlansGoOn DEF AccountPlans
  <2> QED
    BY <2>1, <2>2
<1>2. /\ ~Makes(h) /\ ~Changes(h) /\ ~Disables(h) /\ ~Refreshes(h) /\ ~ByOAuth(h)
      /\ h.plan # Issuing /\ h.plan # LoggingIn
  BY <1>1 DEF Makes, Changes, Disables, Refreshes, ByOAuth, AccountPlans
<1> QED
  BY <1>1, <1>2 DEF CallFits, Seeds

\* A grant that is the only one.
LEMMA OnlyOne ==
    ASSUME NEW S, NEW s \in Seq(S), NEW x \in S
    PROVE  /\ s = <<>> => /\ Len(Append(s, x)) = 1 /\ Append(s, x) # <<>>
                          /\ Append(s, x)[1] = x
           /\ Len(s) = 1 => /\ Len([s EXCEPT ![1] = x]) = 1 /\ [s EXCEPT ![1] = x] # <<>>
                            /\ [s EXCEPT ![1] = x][1] = x
           /\ s # <<>> /\ Len(s) <= 1 => Len(s) = 1
<1>1. s # <<>> /\ Len(s) <= 1 => Len(s) = 1
  <2>1. s # <<>> => Len(s) \in Nat \ {0}
    BY EmptySeq, Zenon
  <2> QED
    BY <2>1
<1>2. ASSUME s = <<>>
      PROVE  Len(Append(s, x)) = 1 /\ Append(s, x) # <<>> /\ Append(s, x)[1] = x
  BY <1>2
<1>3. ASSUME Len(s) = 1
      PROVE  /\ Len([s EXCEPT ![1] = x]) = 1 /\ [s EXCEPT ![1] = x] # <<>>
             /\ [s EXCEPT ![1] = x][1] = x
  <2>1. [s EXCEPT ![1] = x] \in Seq(S) /\ Len([s EXCEPT ![1] = x]) = 1
    BY <1>3, ExceptSeq
  <2>2. [s EXCEPT ![1] = x][1] = x
    BY <1>3
  <2> QED
    BY <2>1, <2>2
<1> QED
  BY <1>1, <1>2, <1>3

\* What is left to show of a step of the tools.
LEMMA ToolGoesOn ==
    ASSUME Fits, IInv', NEW c \in Threads, NEW step, At(c, step),
           step \in {"seed", "default", "set", "grant"},
           NEW u \in Users, u = call[c].user,
           NEW x \in Call, NEW g \in Call, g = Rest(x), GoOn(c, x), CallFits(g),
           x.user = u /\ x.area = "tools",
           account' = account, agents' = agents, password' = password, members' = members,
           sessions' = sessions, ordered' = ordered,
           \A v \in Users \ {u} : grants'[v] = grants[v] /\ allowed'[v] = allowed[v],
           <<u, "tools">> \notin raced /\ GrantKept(u) /\ GrantFits(call[c], u) =>
               GrantKept(u)' /\ GrantFits(g, u)'
    PROVE  Fits'
<1>1. /\ call[c] \in Call /\ call[c] # Idle /\ call[c].user = u /\ call[c].area = "tools"
      /\ Of(c, u, "tools")
  BY AtTools
<1>2. /\ call' = [call EXCEPT ![c] = g] /\ TurnsTaken'
      /\ g = Idle \/ (g.user = u /\ g.area = "tools")
      /\ raced' = raced /\ broken' = broken
  BY <1>1, GoesOnTurns
<1>3. <<u, "tools">> \notin raced => Alone(c, u, "tools")
  BY <1>1 DEF Fits, TurnsTaken, Areas
<1>4. <<u, "tools">> \notin raced => GrantKept(u) /\ GrantFits(call[c], u)
  BY <1>1 DEF Fits, InTurns, GrantsOf
<1> QED
  BY <1>1, <1>2, <1>3, <1>4, ToolStep

\* A default grant is read for where there is none yet.
LEMMA ReadForSeedFits ==
    ASSUME Fits, IInv', NEW c \in Threads, ReadForSeed(c)
    PROVE  Fits'
<1>1. PICK u \in Users : u = call[c].user
  BY AtTools DEF ReadForSeed
<1>2. /\ At(c, "seed") /\ CallFits(call[c]) /\ call[c] \in Call /\ call[c].area = "tools"
      /\ call[c].plan \in {Seeding, SeedingToSet}
      /\ Next1(c) \in Call /\ Next1(c) = [call[c] EXCEPT !.plan = Tail(call[c].plan)]
      /\ Insert(c, "default") \in Call
  BY <1>1, AtTools, ToolsAt DEF ReadForSeed, Steps
<1>3. PICK x \in Call : /\ x = IF u \in Seeded /\ grants[u] = <<>>
                               THEN Insert(c, "default") ELSE Next1(c)
                        /\ GoOn(c, x)
  BY <1>1, <1>2 DEF ReadForSeed
<1>4. PICK g \in Call : g = Rest(x)
  BY RestTyped
<1>5. /\ account' = account /\ agents' = agents /\ ordered' = ordered /\ grants' = grants
      /\ allowed' = allowed /\ sessions' = sessions /\ password' = password /\ members' = members
  BY DEF ReadForSeed, records, history
<1>6. /\ x.user = u /\ x.area = "tools" /\ x.account.exists
      /\ u \in Seeded /\ grants[u] = <<>> => x.plan = <<"default">> \o Tail(call[c].plan)
      /\ ~(u \in Seeded /\ grants[u] = <<>>) => x.plan = Tail(call[c].plan)
  BY <1>1, <1>2, <1>3 DEF Call, Insert, CallFits
<1>7. GrantKept(u) => GrantKept(u)'
  BY <1>5 DEF GrantKept
<1>8. CASE u \in Seeded /\ grants[u] = <<>>
  <2>1. x.plan \in {Defaulting, DefaultingToSet} /\ x.plan # <<>>
    BY <1>2, <1>6, <1>8, ToolPlansGoOn, Inserted
  <2>2. g = x
    BY <1>4, <2>1, RestTyped
  <2>3. CallFits(g)
    BY <1>6, <1>8, <2>1, <2>2, ToolTells DEF ToolPlans
  <2>4. GrantFits(g, u)'
    BY <1>5, <1>8, <2>1, <2>2, PlansDiffer DEF GrantFits
  <2> QED
    BY <1>1, <1>2, <1>3, <1>4, <1>5, <1>6, <1>7, <2>3, <2>4, ToolGoesOn
<1>9. CASE ~(u \in Seeded /\ grants[u] = <<>>)
  <2>1. g = Idle \/ (g = x /\ x.plan = Setting)
    <3>1. CASE call[c].plan = Seeding
      <4>1. x.plan = <<>>
        BY <1>6, <1>9, <3>1, ToolPlansGoOn
      <4> QED
        BY <1>4, <4>1, RestTyped
    <3>2. CASE call[c].plan = SeedingToSet
      <4>1. x.plan = Setting /\ Setting # <<>>
        BY <1>6, <1>9, <3>2, ToolPlansGoOn
      <4> QED
        BY <1>4, <4>1, RestTyped
    <3> QED
      BY <1>2, <3>1, <3>2
  <2>2. CallFits(g)
    <3>1. CASE g = x /\ x.plan = Setting
      BY <1>6, <3>1, ToolTells, PlansDiffer DEF ToolPlans
    <3> QED
      BY <2>1, <3>1, IdleFits
  <2>3. GrantFits(g, u)'
    <3>1. CASE g = x /\ x.plan = Setting
      <4>1. ~Seeds(g) /\ g.plan # Granting
        BY <3>1, PlansDiffer DEF Seeds
      <4> QED
        BY <1>5, <1>9, <4>1 DEF GrantFits
    <3> QED
      BY <2>1, <3>1, IdleStaysFit
  <2> QED
    BY <1>1, <1>2, <1>3, <1>4, <1>5, <1>6, <1>7, <2>2, <2>3, ToolGoesOn
<1> QED
  BY <1>8, <1>9

\* What is asked for may be what the last grant says already.
LEMMA ReadForSetFits ==
    ASSUME Fits, IInv', NEW c \in Threads, ReadForSet(c)
    PROVE  Fits'
<1>1. PICK u \in Users : u = call[c].user
  BY AtTools DEF ReadForSet
<1>2. /\ At(c, "set") /\ CallFits(call[c]) /\ call[c] \in Call /\ call[c].area = "tools"
      /\ call[c].plan = Setting
      /\ Next1(c) \in Call /\ Next1(c) = [call[c] EXCEPT !.plan = Tail(call[c].plan)]
      /\ Insert(c, "grant") \in Call
  BY <1>1, AtTools, ToolsAt DEF ReadForSet, Steps
<1>a. PICK last \in Nat : last = Len(grants[u])
  BY DEF Fits, IInv, TypeOK
<1>b. PICK want \in BOOLEAN : want = call[c].on
  BY <1>2 DEF Call
<1>c. PICK change \in BOOLEAN : change = IF last = 0 THEN want ELSE grants[u][last] # want
  <2>1. (IF last = 0 THEN want ELSE grants[u][last] # want) \in BOOLEAN
    OBVIOUS
  <2> QED
    BY <2>1
<1>3. PICK x \in Call : /\ x = IF change THEN [Insert(c, "grant") EXCEPT !.at = last] ELSE Next1(c)
                        /\ GoOn(c, x)
  <2>1. [Insert(c, "grant") EXCEPT !.at = last] \in Call
    BY <1>2, CallWith
  <2> QED
    BY <1>1, <1>2, <1>a, <1>b, <1>c, <2>1 DEF ReadForSet
<1>4. PICK g \in Call : g = Rest(x)
  BY RestTyped
<1>5. /\ account' = account /\ agents' = agents /\ ordered' = ordered /\ grants' = grants
      /\ sessions' = sessions /\ password' = password /\ members' = members
      /\ \A v \in Users \ {u} : allowed'[v] = allowed[v]
      /\ change => allowed' = allowed
      /\ ~change => allowed'[u] = IF want THEN "yes" ELSE "no"
  BY <1>1, <1>a, <1>b, <1>c DEF ReadForSet, records, Fits, IInv, TypeOK
<1>6. /\ x.user = u /\ x.area = "tools" /\ x.account.exists
      /\ change => x.plan = <<"grant">> \o Tail(call[c].plan) /\ x.at = last
      /\ ~change => x.plan = Tail(call[c].plan)
  BY <1>1, <1>2, <1>3 DEF Call, Insert, CallFits
<1>7. Tail(call[c].plan) = <<>>
  BY <1>2, ToolPlansGoOn
<1>8. CASE change
  <2>1. x.plan = Granting /\ x.plan # <<>>
    BY <1>6, <1>7, <1>8, ToolPlansGoOn, Inserted
  <2>2. g = x
    BY <1>4, <2>1, RestTyped
  <2>3. CallFits(g)
    BY <1>6, <2>1, <2>2, PlansDiffer, ToolTells DEF ToolPlans
  <2>4. GrantKept(u) => GrantKept(u)'
    BY <1>5, <1>8 DEF GrantKept
  <2>5. GrantFits(call[c], u) => GrantFits(g, u)'
    <3>1. ~Seeds(g)
      BY <2>1, <2>2, PlansDiffer DEF Seeds
    <3> QED
      BY <1>2, <1>5, <1>6, <1>8, <1>a, <2>1, <2>2, <3>1 DEF GrantFits
  <2> QED
    BY <1>1, <1>2, <1>3, <1>4, <1>5, <1>6, <2>3, <2>4, <2>5, ToolGoesOn
<1>9. CASE ~change
  <2>1. g = Idle
    BY <1>4, <1>6, <1>7, <1>9, RestTyped
  <2>2. GrantKept(u) /\ GrantFits(call[c], u) => GrantKept(u)'
    <3> SUFFICES ASSUME GrantKept(u), GrantFits(call[c], u) PROVE GrantKept(u)'
      OBVIOUS
    <3>1. grants[u] \in Seq(BOOLEAN) /\ Len(grants[u]) <= 1
      BY DEF GrantKept, Fits, IInv, TypeOK
    <3>2. CASE grants[u] = <<>>
      <4>1. last = 0 /\ ~want /\ u \notin Seeded
        BY <1>2, <1>9, <1>a, <1>c, <3>2 DEF GrantFits
      <4> QED
        BY <1>5, <1>9, <3>1, <3>2, <4>1 DEF GrantKept
    <3>3. CASE grants[u] # <<>>
      <4>1. last = 1 /\ grants[u][1] = want
        <5>1. last = 1
          BY <1>a, <3>1, <3>3, OnlyOne
        <5>2. change = (grants[u][1] # want)
          BY <1>c, <5>1
        <5> QED
          BY <1>9, <5>1, <5>2
      <4> QED
        BY <1>5, <1>9, <3>1, <3>3, <4>1 DEF GrantKept
    <3> QED
      BY <3>2, <3>3
  <2>3. CallFits(g) /\ GrantFits(g, u)'
    BY <2>1, IdleFits, IdleStaysFit
  <2> QED
    BY <1>1, <1>2, <1>3, <1>4, <1>5, <1>6, <2>2, <2>3, ToolGoesOn
<1> QED
  BY <1>8, <1>9

LEMMA SaveDefaultFits ==
    ASSUME Fits, IInv', NEW c \in Threads, SaveDefault(c)
    PROVE  Fits'
<1>1. PICK u \in Users : u = call[c].user
  BY AtTools DEF SaveDefault
<1>2. /\ At(c, "default") /\ CallFits(call[c]) /\ call[c] \in Call /\ call[c].area = "tools"
      /\ call[c].plan \in {Defaulting, DefaultingToSet}
      /\ Next1(c) \in Call /\ Next1(c) = [call[c] EXCEPT !.plan = Tail(call[c].plan)]
  BY <1>1, AtTools, ToolsAt DEF SaveDefault
<1>3. PICK x \in Call : x = Next1(c) /\ GoOn(c, x)
  BY <1>2 DEF SaveDefault
<1>4. PICK g \in Call : g = Rest(x)
  BY RestTyped
<1>5. /\ account' = account /\ agents' = agents /\ ordered' = ordered /\ allowed' = allowed
      /\ sessions' = sessions /\ password' = password /\ members' = members
      /\ \A v \in Users \ {u} : grants'[v] = grants[v]
      /\ grants'[u] = Append(grants[u], TRUE)
  BY <1>1 DEF SaveDefault, history, Fits, IInv, TypeOK
<1>6. /\ x.user = u /\ x.area = "tools" /\ x.account.exists /\ x.plan = Tail(call[c].plan)
  BY <1>1, <1>2, <1>3 DEF Call, CallFits
<1>7. g = Idle \/ (g = x /\ x.plan = Setting)
  <2>1. CASE call[c].plan = Defaulting
    <3>1. x.plan = <<>>
      BY <1>6, <2>1, ToolPlansGoOn
    <3> QED
      BY <1>4, <3>1, RestTyped
  <2>2. CASE call[c].plan = DefaultingToSet
    <3>1. x.plan = Setting /\ Setting # <<>>
      BY <1>6, <2>2, ToolPlansGoOn
    <3> QED
      BY <1>4, <3>1, RestTyped
  <2> QED
    BY <1>2, <2>1, <2>2
<1>8. CallFits(g)
  <2>1. CASE g = x /\ x.plan = Setting
    BY <1>6, <2>1, ToolTells, PlansDiffer DEF ToolPlans
  <2> QED
    BY <1>7, <2>1, IdleFits
<1>9. u \in Seeded
  BY <1>1, <1>2 DEF CallFits, Seeds
<1>10. GrantFits(call[c], u) => grants[u] = <<>>
  BY <1>2 DEF GrantFits, Seeds
<1>11. GrantFits(call[c], u) /\ GrantKept(u) => GrantKept(u)' /\ GrantFits(g, u)'
  <2> SUFFICES ASSUME GrantFits(call[c], u), GrantKept(u) PROVE GrantKept(u)' /\ GrantFits(g, u)'
    OBVIOUS
  <2>1. Len(grants'[u]) = 1 /\ grants'[u] # <<>> /\ grants'[u][1]
    <3>1. grants[u] \in Seq(BOOLEAN) /\ grants[u] = <<>>
      BY <1>10 DEF Fits, IInv, TypeOK
    <3>2. /\ Len(Append(grants[u], TRUE)) = 1 /\ Append(grants[u], TRUE) # <<>>
          /\ Append(grants[u], TRUE)[1] = TRUE
      BY ONLY <3>1, OnlyOne
    <3> QED
      BY <1>5, <3>2
  <2>2. allowed'[u] # "no"
    BY <1>5, <1>9, <1>10 DEF GrantKept
  <2>3. GrantFits(g, u)'
    <3>1. CASE g = x /\ x.plan = Setting
      <4>1. ~Seeds(g) /\ g.plan # Granting
        BY <3>1, PlansDiffer DEF Seeds
      <4> QED
        BY <2>1, <4>1 DEF GrantFits
    <3> QED
      BY <1>7, <3>1, IdleStaysFit
  <2> QED
    BY <2>1, <2>2, <2>3 DEF GrantKept
<1> QED
  BY <1>1, <1>2, <1>3, <1>4, <1>5, <1>6, <1>8, <1>11, ToolGoesOn

LEMMA SaveGrantFits ==
    ASSUME Fits, IInv', NEW c \in Threads, SaveGrant(c)
    PROVE  Fits'
<1>1. PICK u \in Users : u = call[c].user
  BY AtTools DEF SaveGrant
<1>2. /\ At(c, "grant") /\ CallFits(call[c]) /\ call[c] \in Call /\ call[c].area = "tools"
      /\ call[c].plan = Granting
      /\ Next1(c) \in Call /\ Next1(c) = [call[c] EXCEPT !.plan = Tail(call[c].plan)]
  BY <1>1, AtTools, ToolsAt DEF SaveGrant
<1>3. PICK x \in Call : x = Next1(c) /\ GoOn(c, x)
  BY <1>2 DEF SaveGrant
<1>4. PICK g \in Call : g = Rest(x)
  BY RestTyped
<1>a. PICK on \in BOOLEAN : on = call[c].on
  BY <1>2 DEF Call
<1>5. /\ account' = account /\ agents' = agents /\ ordered' = ordered
      /\ sessions' = sessions /\ password' = password /\ members' = members
      /\ \A v \in Users \ {u} : grants'[v] = grants[v] /\ allowed'[v] = allowed[v]
      /\ grants'[u] = IF call[c].at = 0 THEN Append(grants[u], on)
                      ELSE [grants[u] EXCEPT ![call[c].at] = on]
      /\ allowed'[u] = IF on THEN "yes" ELSE "no"
  BY <1>1, <1>a DEF SaveGrant, Fits, IInv, TypeOK
<1>6. /\ x.user = u /\ x.area = "tools" /\ x.plan = Tail(call[c].plan)
  BY <1>1, <1>2, <1>3 DEF Call
<1>7. g = Idle
  <2>1. x.plan = <<>>
    BY <1>2, <1>6, ToolPlansGoOn
  <2> QED
    BY <1>4, <2>1, RestTyped
<1>8. CallFits(g) /\ GrantFits(g, u)'
  BY <1>7, IdleFits, IdleStaysFit
<1>9. GrantFits(call[c], u) /\ GrantKept(u) => GrantKept(u)'
  <2> SUFFICES ASSUME GrantFits(call[c], u), GrantKept(u) PROVE GrantKept(u)'
    OBVIOUS
  <2>1. grants[u] \in Seq(BOOLEAN) /\ Len(grants[u]) <= 1 /\ call[c].at = Len(grants[u])
    BY <1>2 DEF GrantFits, GrantKept, Fits, IInv, TypeOK
  <2>2. Len(grants'[u]) = 1 /\ grants'[u] # <<>> /\ grants'[u][1] = on
    <3>1. CASE grants[u] = <<>>
      <4>1. grants'[u] = Append(grants[u], on)
        BY <1>5, <2>1, <3>1
      <4>2. /\ Len(Append(grants[u], on)) = 1 /\ Append(grants[u], on) # <<>>
            /\ Append(grants[u], on)[1] = on
        BY <2>1, <3>1, OnlyOne
      <4> QED
        BY <4>1, <4>2
    <3>2. CASE grants[u] # <<>>
      <4>0. Len(grants[u]) = 1
        BY <2>1, <3>2, OnlyOne
      <4>1. grants'[u] = [grants[u] EXCEPT ![1] = on]
        BY <1>5, <2>1, <4>0
      <4>2. /\ Len([grants[u] EXCEPT ![1] = on]) = 1 /\ [grants[u] EXCEPT ![1] = on] # <<>>
            /\ [grants[u] EXCEPT ![1] = on][1] = on
        BY <2>1, <4>0, OnlyOne
      <4> QED
        BY <4>1, <4>2
    <3> QED
      BY <3>1, <3>2
  <2> QED
    BY <1>5, <2>2 DEF GrantKept
<1> QED
  BY <1>1, <1>2, <1>3, <1>4, <1>5, <1>6, <1>8, <1>9, ToolGoesOn

---------------------------------------------------------------------------
(* Handlers die, and the whole.                                            *)

LEMMA DieFits ==
    ASSUME Fits, IInv', NEW c \in Threads, Die(c)
    PROVE  Fits'
<1>1. PICK u \in Users : u = call[c].user /\ call[c] # Idle
  BY DEF Die, Fits, IInv, AtWorkOnUsers
<1>2. /\ call' = [call EXCEPT ![c] = Idle] /\ broken' = broken \cup {u} /\ raced' = raced
      /\ account' = account /\ agents' = agents /\ password' = password /\ members' = members
      /\ sessions' = sessions /\ grants' = grants /\ ordered' = ordered /\ allowed' = allowed
  BY <1>1 DEF Die, records, history
<1>3. /\ call \in [Threads -> Call] /\ call[c] \in Call
      /\ call'[c] = Idle /\ \A d \in Threads \ {c} : call'[d] = call[d]
  BY <1>2 DEF Fits, IInv, TypeOK
<1>4. PICK g \in Call : g = Idle
  BY IdleFits
<1>5. TurnsTaken'
  BY <1>2, <1>3, <1>4, IdleFits, TurnsStayTaken DEF Fits
<1>6. /\ CallFits(g) /\ ~Joins(g) /\ ~Ends(g)
      /\ OrderFits(g, u)' /\ KeyFits(g, u)' /\ MemberFits(g, u)' /\ GrantFits(g, u)'
  BY <1>4, IdleFits, IdleStaysFit
<1>7. \A v \in Users : RecordsStay(v)
  BY <1>2 DEF RecordsStay, SessionsStay, LiveSessions
<1>8. CASE call[c].area = "account"
  <2>1. Of(c, u, "account")
    BY <1>1, <1>8 DEF Of
  <2>2. <<u, "account">> \notin raced' => Alone(c, u, "account")
    BY <1>2, <2>1, AloneHere
  <2>3. AccountsExist'
    BY <1>2, <1>3, IdleFits DEF Fits, AccountsExist, Of, Makes
  <2>4. AgentsFollow'
    <3> SUFFICES ASSUME NEW v \in Users, account[v].exists, v \notin broken, v # u, v \notin agents
                 PROVE  \E d \in Threads : Of(d, v, "account")' /\ MakesAgent(call[d])'
      BY <1>2 DEF AgentsFollow
    <3>1. PICK d \in Threads : Of(d, v, "account") /\ MakesAgent(call[d])
      BY DEF Fits, AgentsFollow
    <3>2. d # c
      BY <1>1, <3>1 DEF Of
    <3> QED
      BY <1>3, <3>1, <3>2 DEF Of, MakesAgent
  <2>5. <<u, "account">> \notin raced' =>
            OrderKept(u)' /\ (u \in Federated => SessionsJoined(u)')
    <3>1. <<u, "account">> \notin raced =>
              OrderKept(u) /\ (u \in Federated => SessionsJoined(u))
      BY <2>1, AloneHere
    <3> QED
      BY <1>2, <3>1 DEF OrderKept, SessionsJoined, LiveSessions
  <2> QED
    BY <1>2, <1>4, <1>5, <1>6, <1>7, <2>1, <2>2, <2>3, <2>4, <2>5, AccountStep
<1>9. CASE call[c].area = "tools"
  <2>1. Of(c, u, "tools")
    BY <1>1, <1>9 DEF Of
  <2>2. <<u, "tools">> \notin raced' => Alone(c, u, "tools")
    BY <1>2, <2>1 DEF Fits, TurnsTaken, Areas
  <2>3. <<u, "tools">> \notin raced' => GrantKept(u)'
    BY <1>2 DEF Fits, InTurns, GrantsOf, GrantKept
  <2> QED
    BY <1>2, <1>4, <1>5, <1>6, <2>1, <2>2, <2>3, ToolStep
<1> QED
  BY <1>3, <1>8, <1>9 DEF Call, Areas

LEMMA GoesFits ==
    ASSUME Fits, NEW c \in Threads, Goes(c)
    PROVE  Fits'
<1>1. IInv'
  BY GoesTyped DEF Fits
<1> QED
  BY <1>1, SaveUserFits, SaveAgentFits, VerifyFits, SavePasswordFits, ListSessionsFits, RevokeFits,
     IssueSessionFits, ReadProjectFits, SaveProjectFits, ReadForSeedFits, ReadForSetFits,
     SaveDefaultFits, SaveGrantFits
     DEF Goes

LEMMA InitFits == Init => Fits
<1> SUFFICES ASSUME Init PROVE Fits
  OBVIOUS
<1>1. IInv
  BY InitTyped
<1>2. \A c \in Threads : call[c] = Idle
  BY DEF Init
<1>3. \A u \in Users : LiveSessions(u) = {} /\ Stale(u) = {}
  BY DEF Init, LiveSessions, Stale
<1>4. \A c \in Threads, u \in Users, area \in Areas : ~Of(c, u, area)
  BY <1>2, IdleFits DEF Of
<1>5. CallsFit /\ TurnsTaken
  BY <1>2, <1>4, IdleFits DEF CallsFit, TurnsTaken
<1>6. AccountsExist
  BY <1>4 DEF Init, AccountsExist, Areas
<1>7. AgentsFollow
  BY AccountsAssumption DEF Init, AgentsFollow, NewAccount
<1>8. ASSUME NEW u \in Users PROVE OrdersOf(u) /\ KeysOf(u) /\ GrantsOf(u)
  <2>1. OrderKept(u)
    BY <1>3 DEF Init, OrderKept
  <2>2. GrantKept(u)
    <3>1. grants[u] = <<>> /\ allowed[u] = "unset"
      BY DEF Init
    <3> QED
      BY <3>1 DEF GrantKept
  <2> QED
    BY <1>3, <1>4, <2>1, <2>2 DEF OrdersOf, KeysOf, GrantsOf, Areas
<1>9. ASSUME NEW u \in Federated PROVE MembersOf(u)
  <2>1. u \in Users
    BY AccountsAssumption
  <2> QED
    BY <1>2, <1>3, <1>4, <2>1, IdleFits DEF MembersOf, SessionsJoined, Areas
<1> QED
  BY <1>1, <1>5, <1>6, <1>7, <1>8, <1>9 DEF Fits, InTurns

LEMMA FitsInvariance == Spec => []Fits
<1>1. Fits /\ [Next]_vars => Fits'
  <2> SUFFICES ASSUME Fits, [Next]_vars PROVE Fits'
    OBVIOUS
  <2>1. CASE UNCHANGED vars
    <3>1. /\ account' = account /\ agents' = agents /\ password' = password
          /\ members' = members /\ sessions' = sessions /\ grants' = grants /\ call' = call
          /\ ordered' = ordered /\ allowed' = allowed /\ raced' = raced /\ broken' = broken
          /\ made' = made /\ faults' = faults
      BY <2>1 DEF vars, records, history
    <3>2. IInv'
      BY <3>1 DEF Fits, IInv, TypeOK, AtWorkOnUsers
    <3>3. CallsFit' /\ AccountsExist' /\ AgentsFollow' /\ TurnsTaken'
      BY <3>1 DEF Fits, CallsFit, AccountsExist, AgentsFollow, TurnsTaken, Alone, Shares, Of
    <3>4. \A v \in Users : RecordsStay(v) /\ SessionsStay(v)
      BY <3>1 DEF RecordsStay, SessionsStay, LiveSessions
    <3>5. \A v \in Users, area \in Areas : CallsStay(v, area)
      BY <3>1 DEF CallsStay, Of
    <3>6. \A v \in Users : OrdersOf(v)' /\ KeysOf(v)' /\ GrantsOf(v)'
      BY <3>1, <3>4, <3>5, OrdersStay, KeysStay, GrantsStay DEF Fits, InTurns, Areas
    <3>7. \A v \in Federated : MembersOf(v)'
      BY <3>1, <3>4, <3>5, MembersStay, AccountsAssumption DEF Fits, InTurns, Areas
    <3> QED
      BY <3>2, <3>3, <3>6, <3>7 DEF Fits, InTurns
  <2>2. ASSUME NEW c \in Threads, Comes(c) \/ Goes(c) \/ Die(c) PROVE Fits'
    <3>1. Die(c) => IInv'
      BY DieTyped DEF Fits
    <3> QED
      BY <2>2, <3>1, ComesFits, GoesFits, DieFits
  <2> QED
    BY <2>1, <2>2 DEF Next
<1> QED
  BY InitFits, <1>1, PTL DEF Spec

---------------------------------------------------------------------------
LEMMA QuietEnds ==
    ASSUME NEW u \in Users, NEW area \in Areas, Quiet(u, area)
    PROVE  \A c \in Threads : ~Of(c, u, area)
  BY DEF Quiet, Of

\* A live session of an account whose handlers took turns, and none of which died, was
\* obtained through OAuth or with the password of today: whoever came in with an older one
\* was listed when the password was changed or reset, and ended (auth.py change_password,
\* users.py reset_user_password).
THEOREM PasswordEndsSessions == Spec => []SerialPasswordEndsSessions
<1>1. Fits => SerialPasswordEndsSessions
  <2> SUFFICES ASSUME Fits, NEW u \in Users, InTurn(u, "account"), u \notin broken,
                      NEW s \in LiveSessions(u)
               PROVE  sessions[s].key \in {NoPassword, password[u]}
    BY DEF SerialPasswordEndsSessions
  <2>1. \A c \in Threads : ~Of(c, u, "account")
    BY QuietEnds DEF InTurn, Areas
  <2>2. Stale(u) = {}
    BY <2>1 DEF Fits, InTurns, KeysOf, InTurn
  <2> QED
    BY <2>2 DEF Stale
<1> QED
  BY <1>1, FitsInvariance, PTL

\* What admins ordered of an account stands, and what was last said of a tool is what its
\* grants say, wherever handlers took turns, whoever died (users.py update_user, auth.py
\* upsert_oauth_user, tools.py set_agent_tools, data_authorization.py).
THEOREM OrdersStand == Spec => []SerialOrdersStand
<1>1. Fits => SerialOrdersStand
  <2> SUFFICES ASSUME Fits, NEW u \in Users
               PROVE  /\ InTurn(u, "account") =>
                            /\ account[u] = ordered[u]
                            /\ account[u].status = "disabled" => LiveSessions(u) = {}
                      /\ InTurn(u, "tools") /\ allowed[u] # "unset" =>
                            ((\E i \in DOMAIN grants[u] : grants[u][i]) <=> allowed[u] = "yes")
    BY DEF SerialOrdersStand
  <2>1. InTurn(u, "account") => OrderKept(u)
    BY DEF Fits, InTurns, OrdersOf, InTurn
  <2>2. ASSUME InTurn(u, "tools"), allowed[u] # "unset"
        PROVE  (\E i \in DOMAIN grants[u] : grants[u][i]) <=> allowed[u] = "yes"
    <3>1. GrantKept(u)
      BY <2>2 DEF Fits, InTurns, GrantsOf, InTurn
    <3>2. grants[u] \in Seq(BOOLEAN) /\ allowed[u] \in {"unset", "yes", "no"}
      BY DEF Fits, IInv, TypeOK
    <3>3. CASE grants[u] = <<>>
      <4>1. DOMAIN grants[u] = {} /\ allowed[u] # "yes"
        BY <3>1, <3>3 DEF GrantKept
      <4> QED
        BY <4>1
    <3>4. CASE grants[u] # <<>>
      <4>1. Len(grants[u]) = 1
        BY <3>1, <3>2, <3>4, OnlyOne DEF GrantKept
      <4>2. DOMAIN grants[u] = {1}
        BY <3>2, <4>1
      <4>3. allowed[u] = "yes" => grants[u][1]
        BY <3>1, <3>4 DEF GrantKept
      <4>4. allowed[u] = "no" => ~grants[u][1]
        BY <3>1, <3>4 DEF GrantKept
      <4> QED
        BY <2>2, <3>2, <4>2, <4>3, <4>4
    <3> QED
      BY <3>3, <3>4
  <2> QED
    BY <2>1, <2>2 DEF OrderKept
<1> QED
  BY <1>1, FitsInvariance, PTL

\* Whoever has a session has an agent once the handlers of the account are through, however
\* they overlapped, if none of them died; and who came in through OAuth, in turns, is a
\* member of the project (users.py create_user, auth.py upsert_oauth_user).
THEOREM LoginWhole == Spec => []LoginIsWhole
<1>1. Fits => LoginIsWhole
  <2> SUFFICES ASSUME Fits, NEW u \in Users, NEW s \in LiveSessions(u)
               PROVE  /\ Quiet(u, "account") /\ u \notin broken => u \in agents
                      /\ sessions[s].key = NoPassword /\ InTurn(u, "account") => u \in members
    BY DEF LoginIsWhole
  <2>1. s \in DOMAIN sessions /\ sessions[s].user = u
    BY DEF LiveSessions
  <2>2. account[u].exists /\ (sessions[s].key = NoPassword => u \in Federated)
    BY <2>1 DEF Fits, AccountsExist
  <2>3. ASSUME Quiet(u, "account"), u \notin broken PROVE u \in agents
    <3>1. \A c \in Threads : ~Of(c, u, "account")
      BY <2>3, QuietEnds DEF Areas
    <3> QED
      BY <2>2, <2>3, <3>1 DEF Fits, AgentsFollow
  <2>4. ASSUME sessions[s].key = NoPassword, InTurn(u, "account") PROVE u \in members
    <3>1. SessionsJoined(u)
      BY <2>2, <2>4 DEF Fits, InTurns, MembersOf, InTurn
    <3> QED
      BY <2>4, <3>1 DEF SessionsJoined
  <2> QED
    BY <2>3, <2>4
<1> QED
  BY <1>1, FitsInvariance, PTL
====
