------------------------------- MODULE SignIn -------------------------------
(***************************************************************************)
(* The sign-in state of one browser tab, in the developer dashboard or in  *)
(* the super-admin dashboard: the context that holds the session, the      *)
(* guard of the protected routes, the challenge and the login page, and    *)
(* the page where a second factor is enrolled.  Every answer the           *)
(* components wait for arrives in a step of its own, and other tabs,       *)
(* devices and the token refresh change the session in between.            *)
(*                                                                         *)
(* The Supabase client is external.  It keeps the session (cur), calls the *)
(* listener with every change of it, answers questions about the level of  *)
(* assurance from the session it keeps, one at a time and in order, and    *)
(* lists factors by asking the server.  A refresh brings what the session  *)
(* says of the user up to date.                                            *)
(***************************************************************************)
EXTENDS Naturals, Sequences, SequencesExt

CONSTANTS
    Accounts,       \* users of Supabase Auth
    Admins,         \* those with a row in admin_roles
    Apps,           \* which dashboards are looked at
    Failures,       \* which of "aal", "list" and "role" may come back empty
    Budget          \* bound on what people and other devices do

ASSUME AdminsAreAccounts == Admins \subseteq Accounts
ASSUME AppsAreKnown == Apps \subseteq {"developer", "admin"}
ASSUME BudgetIsNat == Budget \in Nat

VARIABLES
    app,            \* which dashboard this tab shows
    factor,         \* the TOTP factor of every account, on the server
    cur,            \* the session the client library keeps
    starting,       \* answers to getSession and INITIAL_SESSION still to come
    session,        \* AuthContext, AdminAuthContext: session
    loading,        \* ... loading
    role,           \* AdminAuthContext: isSuperAdmin
    lookups,        \* queries of admin_roles under way, oldest first
    page,           \* the route
    guard,          \* ProtectedRoute, RequireSuperAdmin
    asks,           \* questions of the mounted guard about its level
    status,         \* MfaChallengePage, AdminMfaChallengePage
    enrolling,      \* SecuritySettingsPage shows a secret to confirm
    roleOf,         \* history: whose role was looked up last
    overtaken,      \* history: a look-up was answered before an older one
    left            \* what is left of the budget

tabVars == <<app, factor, cur, starting, session, loading, role, lookups, page,
             guard, asks, status, enrolling, roleOf, overtaken, left>>

contextVars == <<session, loading, role, lookups, roleOf, overtaken>>
pageVars == <<page, guard, asks, status, enrolling>>

NoSession == [user |-> "nobody", aal |-> 0, factor |-> FALSE]

Session == [user : Accounts, aal : {1, 2}, factor : BOOLEAN]

\* getAuthenticatorAssuranceLevel: the next level differs from the current one.
Unsatisfied(s) == s # NoSession /\ s.aal = 1 /\ s.factor

Level(s) == IF Unsatisfied(s) THEN "mfa" ELSE "pass"

Spend == left > 0 /\ left' = left - 1

\* What a question is answered with.  That it fails is bounded like the rest.
Reply(a, what, answer, empty) ==
    \/ a = answer /\ UNCHANGED left
    \/ a = empty /\ what \in Failures /\ Spend

FreshGuard == [checked |-> FALSE, mfa |-> FALSE, effect |-> TRUE, blind |-> FALSE]

TabInit ==
    /\ app \in Apps
    /\ factor \in [Accounts -> {"none", "verified"}]
    /\ cur \in {NoSession} \cup {s \in Session : s.factor => factor[s.user] = "verified"}
    /\ starting = {"getSession", "INITIAL_SESSION"}
    /\ session = NoSession
    /\ loading = TRUE
    /\ role = "unknown"
    /\ lookups = <<>>
    /\ page = "app"
    /\ guard = FreshGuard
    /\ asks = <<>>
    /\ status = "checking"
    /\ enrolling = FALSE
    /\ roleOf = "nobody"
    /\ overtaken = FALSE
    /\ left = Budget

-----------------------------------------------------------------------------
(* The context.                                                            *)

\* Variant: a role that is known is not looked up again.
CheckAdminRoleOnce(s) ==
    IF s = NoSession
    THEN role' = "unknown" /\ loading' = FALSE /\ UNCHANGED <<lookups, roleOf, overtaken>>
    ELSE /\ lookups' = IF role = "unknown" THEN Append(lookups, s.user) ELSE lookups
         /\ UNCHANGED <<role, roleOf, overtaken>>

\* checkAdminRole: nothing to look up without a session.
CheckAdminRole(s) ==
    IF s = NoSession
    THEN role' = "unknown" /\ loading' = FALSE /\ UNCHANGED <<lookups, roleOf, overtaken>>
    ELSE lookups' = Append(lookups, s.user) /\ UNCHANGED <<role, roleOf, overtaken>>

\* Runs the effect of the guard after the next render.
Notice == guard' = IF page = "app" THEN [guard EXCEPT !.effect = TRUE] ELSE guard

\* Variant: the listener forgets to set loading before the look-up.
ReceiveStillLoaded(s) ==
    /\ session' = s
    /\ IF app = "admin"
       THEN CheckAdminRole(s) /\ (s # NoSession => UNCHANGED loading)
       ELSE loading' = FALSE /\ UNCHANGED <<role, lookups, roleOf, overtaken>>
    /\ Notice

\* Variant: a new session of the same user is not taken for a change.
ReceiveSameUser(s) ==
    /\ session' = s
    /\ IF app = "admin"
       THEN CheckAdminRole(s) /\ (s # NoSession => loading' = TRUE)
       ELSE loading' = FALSE /\ UNCHANGED <<role, lookups, roleOf, overtaken>>
    /\ IF s.user = session.user THEN UNCHANGED guard ELSE Notice

\* onAuthStateChange
Receive(s) ==
    /\ session' = s
    /\ IF app = "admin"
       THEN CheckAdminRole(s) /\ (s # NoSession => loading' = TRUE)
       ELSE loading' = FALSE /\ UNCHANGED <<role, lookups, roleOf, overtaken>>
    /\ Notice

\* The client changes its session and calls the listener.
Emit(s) == cur' = s /\ Receive(s)

GetSession ==
    /\ "getSession" \in starting
    /\ starting' = starting \ {"getSession"}
    /\ session' = cur
    /\ IF app = "admin"
       THEN CheckAdminRole(cur) /\ (cur # NoSession => UNCHANGED loading)
       ELSE loading' = FALSE /\ UNCHANGED <<role, lookups, roleOf, overtaken>>
    /\ Notice
    /\ UNCHANGED <<app, factor, cur, page, asks, status, enrolling, left>>

InitialSession ==
    /\ "INITIAL_SESSION" \in starting
    /\ starting' = starting \ {"INITIAL_SESSION"}
    /\ Receive(cur)
    /\ UNCHANGED <<app, factor, cur, page, asks, status, enrolling, left>>

\* Answers of the database arrive in any order.
RoleAnswer(i) ==
    /\ \E a \in {"yes", "no"} :
         /\ Reply(a, "role", IF lookups[i] \in Admins THEN "yes" ELSE "no", "no")
         /\ role' = a
    /\ roleOf' = lookups[i]
    /\ overtaken' = (overtaken \/ i > 1)
    /\ loading' = FALSE
    /\ lookups' = RemoveAt(lookups, i)
    /\ UNCHANGED <<app, factor, cur, starting, session, pageVars>>

-----------------------------------------------------------------------------
(* The guard.  Its effect runs after the render the new session causes.    *)

\* Variant: the effect returns early without a session and says nothing.
EffectOnForgetsNull(g, s) == [g EXCEPT !.effect = FALSE, !.checked = FALSE]

EffectOn(g, s) == [g EXCEPT !.effect = FALSE, !.checked = (s = NoSession)]

RunEffect ==
    /\ page = "app" /\ guard.effect
    /\ guard' = EffectOn(guard, session)
    /\ asks' = IF session = NoSession THEN asks ELSE Append(asks, "asked")
    /\ enrolling' = (enrolling /\ session = NoSession)
    /\ UNCHANGED <<app, factor, cur, starting, contextVars, page, status, left>>

\* The client answers the first question that has no answer yet ...
Answer(i) ==
    /\ asks[i] = "asked"
    /\ \A j \in 1..(i - 1) : asks[j] # "asked"
    /\ \E a \in {"mfa", "pass", "empty"} :
         /\ Reply(a, "aal", Level(cur), "empty")
         /\ asks' = [asks EXCEPT ![i] = a]
    /\ UNCHANGED <<app, factor, cur, starting, contextVars, page, guard, status, enrolling>>

\* ... and the guard takes the answers in order; an empty one lets pass.
Verdict(g, a) == [g EXCEPT !.checked = TRUE, !.mfa = (a = "mfa"), !.blind = (a = "empty")]

TakeAnswer ==
    /\ asks # <<>> /\ Head(asks) # "asked"
    /\ guard' = Verdict(guard, Head(asks))
    /\ asks' = Tail(asks)
    /\ UNCHANGED <<app, factor, cur, starting, contextVars, page, status, enrolling, left>>

\* What the guards render.
ProtectedRoute ==
    IF loading \/ ~guard.checked THEN "wait"
    ELSE IF session = NoSession THEN "login"
    ELSE IF guard.mfa THEN "challenge" ELSE "shown"

\* A role that is not known yet lets pass.
RequireSuperAdmin ==
    IF loading \/ ~guard.checked THEN "wait"
    ELSE IF session = NoSession THEN "login"
    ELSE IF guard.mfa THEN "challenge"
    ELSE IF role = "no" THEN "denied" ELSE "shown"

View == IF app = "admin" THEN RequireSuperAdmin ELSE ProtectedRoute

\* A guard that leaves takes its questions with it: nobody hears the answers,
\* and the next one starts anew.
Redirect ==
    /\ page = "app" /\ View \in {"login", "challenge"}
    /\ page' = View
    /\ status' = "checking"
    /\ guard' = FreshGuard
    /\ asks' = <<>>
    /\ enrolling' = FALSE
    /\ UNCHANGED <<app, factor, cur, starting, contextVars, left>>

LoginRedirect ==
    /\ page = "login" /\ session # NoSession
    /\ app = "admin" => ~loading /\ role = "yes"
    /\ page' = "app"
    /\ UNCHANGED <<app, factor, cur, starting, contextVars, guard, asks, status, enrolling, left>>

-----------------------------------------------------------------------------
(* The challenge page. *)

CheckSession ==
    /\ page = "challenge" /\ status = "checking"
    /\ status' = IF cur = NoSession THEN "no-session" ELSE "level"
    /\ UNCHANGED <<app, factor, cur, starting, contextVars, page, guard, asks, enrolling, left>>

CheckLevel ==
    /\ page = "challenge" /\ status = "level"
    /\ \E a \in {"mfa", "pass", "empty"} :
         /\ Reply(a, "aal", Level(cur), "empty")
         /\ status' = IF a = "mfa" THEN "factors" ELSE "satisfied"
    /\ UNCHANGED <<app, factor, cur, starting, contextVars, page, guard, asks, enrolling>>

Raised(s) == [s EXCEPT !.aal = 2, !.factor = TRUE]

Enrolled(s) == s # NoSession /\ factor[s.user] = "verified"

ListFactors ==
    /\ page = "challenge" /\ status = "factors"
    /\ \E listed \in BOOLEAN :
         /\ Reply(listed, "list", Enrolled(cur), FALSE)
         /\ status' = IF listed THEN "required" ELSE "satisfied"
    /\ UNCHANGED <<app, factor, cur, starting, contextVars, page, guard, asks, enrolling>>

\* challenge and verify; a wrong code, or a factor that is gone, is an error on the page.
Submit ==
    /\ page = "challenge" /\ status = "required"
    /\ left > 0 /\ left' = left - 1
    /\ Enrolled(cur)
    /\ Emit(Raised(cur))
    /\ status' = "satisfied"
    /\ UNCHANGED <<app, factor, starting, page, asks, enrolling>>

Leave ==
    /\ page = "challenge"
    /\ \/ status = "no-session" /\ page' = "login"
       \/ status = "satisfied" /\ page' = "app"
    /\ status' = "checking"
    /\ UNCHANGED <<app, factor, cur, starting, contextVars, guard, asks, enrolling, left>>

\* Either challenge page, but for the code somebody enters.
Challenge == CheckSession \/ CheckLevel \/ ListFactors \/ Leave

-----------------------------------------------------------------------------
(* Sessions change: here, in another tab, on another device.               *)

SignInAs(u) ==
    /\ Spend
    /\ Emit([user |-> u, aal |-> 1, factor |-> (factor[u] = "verified")])
    /\ UNCHANGED <<app, factor, starting, page, asks, status, enrolling>>

SignOut ==
    /\ Spend /\ cur # NoSession
    /\ Emit(NoSession)
    /\ UNCHANGED <<app, factor, starting, page, asks, status, enrolling>>

\* What the server knows of the user; removing the factor ends the second level.
Fresh(s) == [s EXCEPT !.factor = (factor[s.user] = "verified"),
                      !.aal = IF factor[s.user] = "verified" THEN s.aal ELSE 1]

\* updateUser, of a password, a name or an address: USER_UPDATED.
UpdateUser ==
    /\ Spend /\ cur # NoSession
    /\ Emit([cur EXCEPT !.factor = (factor[cur.user] = "verified")])
    /\ UNCHANGED <<app, factor, starting, page, asks, status, enrolling>>

\* The client refreshes its token before it expires.
TokenRefresh ==
    /\ cur # NoSession /\ cur # Fresh(cur)
    /\ Emit(Fresh(cur))
    /\ UNCHANGED <<app, factor, starting, page, asks, status, enrolling, left>>

FactorElsewhere(u, f) ==
    /\ Spend
    /\ factor' = [factor EXCEPT ![u] = f]
    /\ UNCHANGED <<app, cur, starting, contextVars, pageVars>>

-----------------------------------------------------------------------------
(* Security settings. *)

OnSettings == app = "developer" /\ page = "app" /\ View = "shown" /\ cur # NoSession

StartEnrollment ==
    /\ OnSettings /\ Spend
    /\ ~enrolling /\ factor[cur.user] = "none"
    /\ factor' = [factor EXCEPT ![cur.user] = "unverified"]
    /\ enrolling' = TRUE
    /\ UNCHANGED <<app, cur, starting, contextVars, page, guard, asks, status>>

CancelEnrollment ==
    /\ OnSettings /\ Spend
    /\ enrolling
    /\ enrolling' = FALSE
    /\ UNCHANGED <<app, factor, cur, starting, contextVars, page, guard, asks, status>>

ConfirmEnrollment ==
    /\ OnSettings /\ Spend
    /\ enrolling /\ factor[cur.user] = "unverified"
    /\ factor' = [factor EXCEPT ![cur.user] = "verified"]
    /\ Emit(Raised(cur))
    /\ enrolling' = FALSE
    /\ UNCHANGED <<app, starting, page, asks, status>>

\* The server lets only the second level remove a verified factor.
Unenroll ==
    /\ OnSettings /\ Spend
    /\ \/ factor[cur.user] = "unverified"
       \/ factor[cur.user] = "verified" /\ cur.aal = 2
    /\ factor' = [factor EXCEPT ![cur.user] = "none"]
    /\ UNCHANGED <<app, cur, starting, contextVars, pageVars>>

-----------------------------------------------------------------------------
\* Steps that follow without anybody doing anything.
Settling ==
    \/ GetSession \/ InitialSession
    \/ RunEffect \/ TakeAnswer \/ Redirect \/ LoginRedirect
    \/ Challenge
    \/ \E i \in DOMAIN lookups : RoleAnswer(i)
    \/ \E i \in DOMAIN asks : Answer(i)

People ==
    \/ \E u \in Accounts : SignInAs(u)
    \/ \E u \in Accounts, f \in {"none", "verified"} : FactorElsewhere(u, f)
    \/ SignOut \/ UpdateUser \/ Submit
    \/ StartEnrollment \/ CancelEnrollment \/ ConfirmEnrollment \/ Unenroll

TabNext == Settling \/ TokenRefresh \/ People

TabSpec == TabInit /\ [][TabNext]_tabVars

FairSpec == TabSpec /\ WF_tabVars(Settling) /\ WF_tabVars(TokenRefresh)

-----------------------------------------------------------------------------
(* Second factor (ProtectedRoute.tsx:19-21): a session that has not        *)
(* completed its second factor sees a protected page only while the check  *)
(* of that session is still under way, or after a check that came back     *)
(* empty.  A verdict on an earlier session does not outlast the answers.   *)
GuardCatchesUp ==
    page = "app" /\ View = "shown" /\ Unsatisfied(cur)
        => guard.effect \/ asks # <<>> \/ guard.blind

(* The null of isSuperAdmin means "while checking" (AdminAuthContext:8),   *)
(* and the guard lets it pass: so no session is ever shown a page before   *)
(* some look-up has said yes.                                              *)
ShownAfterYes ==
    app = "admin" /\ page = "app" /\ View = "shown"
        => role = "yes" /\ roleOf \in Admins

(* Look-ups are not cancelled, and an answer about an earlier session may  *)
(* come last (AdminAuthContext:44-49).  Unless one overtook an older one,  *)
(* the role that stays is the role of the session that stays.              *)
RoleIsOfSession ==
    app = "admin" /\ starting = {} /\ lookups = <<>> /\ session # NoSession /\ ~overtaken
        => roleOf = session.user /\ (role = "yes" => session.user \in Admins)

(* However sessions and factors change, a tab left alone comes to rest on  *)
(* a page: no wait without end, no redirects back and forth between the    *)
(* guard, the challenge and the login page once questions are answered.    *)
AtRest ==
    CASE page = "app" -> View \in {"shown", "denied"}
      [] page = "challenge" -> status = "required"
      [] page = "login" -> session = NoSession \/ (app = "admin" /\ role = "no" /\ ~loading)

DashboardSettles == <>[]AtRest

=============================================================================
