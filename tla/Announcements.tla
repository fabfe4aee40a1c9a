--------------------------- MODULE Announcements ---------------------------
(***************************************************************************)
(* A super admin publishes an announcement. AdminAnnouncementsPage inserts *)
(* the row and calls send-announcement-email, which reads the audience and *)
(* its preferences in separate queries, inserts all in-app notifications   *)
(* at once, e-mails batch after batch, writes an audit row and answers     *)
(* with the error of each channel. Meanwhile people sign up, join          *)
(* organizations and change their preferences.                             *)
(*                                                                         *)
(* The audience is everyone, or the members of the organizations on one    *)
(* plan; the page never chooses 'specific'. Counts are kept as sets. The   *)
(* form and the list of the page are a desk of BoardPage.                  *)
(***************************************************************************)
EXTENDS Naturals, FiniteSets

CONSTANTS Announcements, Users,
          BatchSize,  \* BATCH_SIZE
          Failures    \* which of "read", "cap", "write", "key", "send", "audit",
                      \* and "crash" can happen

ASSUME BatchAssumption == BatchSize \in Nat \ {0}

VARIABLES profiles,   \* rows of profiles
          unaddressed,\* those with an empty e-mail address
          members,    \* users in an organization on the plan
          off,        \* preferences switched off; a row that is absent has none
          fan,        \* every announcement and the call that fans it out
          delivered,  \* notifications rows and e-mails Resend took
          audits      \* audit_logs rows with their result

vars == <<profiles, unaddressed, members, off, fan, delivered, audits>>

Channel == {"in_app", "email"}
Toggle  == {"in_app_announcements", "email_product_updates",
            "email_security_alerts"}
Working == {"members", "profiles", "preferences", "in_app", "email",
            "audit", "answer"}
Fan == [pc : Working \cup {"draft", "start", "shown"},
        channels : SUBSET Channel, critical : BOOLEAN,
        audience : {"everyone", "plan"},
        found : SUBSET Users,                 \* userIds, then recipients
        todo : SUBSET (Users \X Channel),     \* filtered recipients not yet tried
        problems : SUBSET (Channel \cup {"delivery"}),
        blind : SUBSET {"audience", "preferences"}, \* history: reads that lost rows
        owed : SUBSET (Users \X Channel),     \* history: in the audience, opted in
                                              \* and with an address all along
        out : SUBSET (Users \X Channel)]      \* history: opted out since then

TypeOK ==
    /\ profiles \subseteq Users
    /\ unaddressed \subseteq profiles
    /\ members \subseteq profiles
    /\ off \subseteq profiles \X Toggle
    /\ fan \in [Announcements -> Fan]
    /\ delivered \subseteq Announcements \X Users \X Channel
    /\ audits \subseteq Announcements \X {"success", "failure"}

Init ==
    /\ profiles = {}
    /\ unaddressed = {}
    /\ members = {}
    /\ off = {}
    /\ fan = [a \in Announcements |->
                [pc |-> "draft", channels |-> {}, critical |-> FALSE,
                 audience |-> "everyone", found |-> {}, todo |-> {},
                 problems |-> {}, blind |-> {}, owed |-> {}, out |-> {}]]
    /\ delivered = {}
    /\ audits = {}

\* The toggle that governs a channel: inAppOptedIn and emailOptedIn.
Governing(a, channel) ==
    IF channel = "in_app" THEN "in_app_announcements"
    ELSE IF fan[a].critical THEN "email_security_alerts"
    ELSE "email_product_updates"

UnderWay(a) == fan[a].pc \in Working

-----------------------------------------------------------------------------
SignUp(u) ==
    /\ u \notin profiles
    /\ profiles' = profiles \cup {u}
    /\ UNCHANGED <<unaddressed, members, off, fan, delivered, audits>>

Join(u) ==
    /\ u \in profiles \ members
    /\ members' = members \cup {u}
    /\ UNCHANGED <<profiles, unaddressed, off, fan, delivered, audits>>

\* savePreferences: an upsert of one toggle. Whoever switches a toggle once a call
\* has begun is neither owed nor spared by it any more.
SetToggle(u, t) ==
    /\ u \in profiles
    /\ off' = IF <<u, t>> \in off THEN off \ {<<u, t>>} ELSE off \cup {<<u, t>>}
    /\ LET changed(a) == {<<u, ch>> : ch \in {ch \in Channel : Governing(a, ch) = t}}
       IN  fan' = [a \in Announcements |->
                     [fan[a] EXCEPT !.owed = @ \ changed(a), !.out = @ \ changed(a)]]
    /\ UNCHANGED <<profiles, unaddressed, members, delivered, audits>>

\* Whoever owns a profile may update it, its e-mail address too (0004:56-59).
SetAddress(u) ==
    /\ u \in profiles
    /\ unaddressed' = IF u \in unaddressed THEN unaddressed \ {u} ELSE unaddressed \cup {u}
    /\ fan' = [a \in Announcements |-> [fan[a] EXCEPT !.owed = @ \ ({u} \X Channel)]]
    /\ UNCHANGED <<profiles, members, off, delivered, audits>>

-----------------------------------------------------------------------------
\* handleSubmit inserts the row; with no channel nothing is called.
Publish(a, channels, audience, critical) ==
    /\ fan[a].pc = "draft"
    /\ fan' = [fan EXCEPT ![a].channels = channels, ![a].audience = audience,
                          ![a].critical = critical,
                          ![a].pc = IF channels = {} THEN "shown" ELSE "start"]
    /\ UNCHANGED <<profiles, unaddressed, members, off, delivered, audits>>

\* The page shows the problems of the answer, or that the call failed.
CallFails(a) == fan' = [fan EXCEPT ![a].pc = "shown", ![a].problems = {"delivery"},
                                   ![a].found = {}, ![a].todo = {}]

Audience(a) == IF fan[a].audience = "everyone" THEN profiles ELSE members

\* The caller's session and role and the announcement; an error refuses the call.
Begin(a) ==
    /\ fan[a].pc = "start"
    /\ \/ LET wanted == (Audience(a) \ unaddressed) \X fan[a].channels
          IN  fan' = [fan EXCEPT
                ![a].pc = IF fan[a].audience = "plan" THEN "members" ELSE "profiles",
                ![a].found = IF fan[a].audience = "plan" THEN {} ELSE Users,
                ![a].owed = {w \in wanted : <<w[1], Governing(a, w[2])>> \notin off},
                ![a].out = {w \in Users \X Channel :
                              <<w[1], Governing(a, w[2])>> \in off}]
       \/ "read" \in Failures /\ CallFails(a)
    /\ UNCHANGED <<profiles, unaddressed, members, off, delivered, audits>>

\* What a query whose error nobody looks at may return: all rows; none after an
\* error; part of them beyond the API's max_rows.
Lossy(rows) == {part \in SUBSET rows :
                  \/ part = rows
                  \/ part = {} /\ "read" \in Failures
                  \/ "cap" \in Failures}

Blind(a, kind, lost) == IF lost THEN fan[a].blind \cup {kind} ELSE fan[a].blind

\* The organizations on the plan, which nothing in the program changes, and
\* their members.
ReadMembers(a) ==
    /\ fan[a].pc = "members"
    /\ \E part \in Lossy(members) :
         fan' = [fan EXCEPT ![a].pc = "profiles", ![a].found = part,
                            ![a].blind = Blind(a, "audience", part # members)]
    /\ UNCHANGED <<profiles, unaddressed, members, off, delivered, audits>>

\* dedupeRecipients leaves out whoever has no address, of the notifications too.
ReadProfiles(a) ==
    /\ fan[a].pc = "profiles"
    /\ LET rows == (profiles \cap fan[a].found) \ unaddressed
       IN  \E part \in Lossy(rows) :
             fan' = [fan EXCEPT ![a].pc = "preferences", ![a].found = part,
                                ![a].blind = Blind(a, "audience", part # rows)]
    /\ UNCHANGED <<profiles, unaddressed, members, off, delivered, audits>>

FilterInAppOnly(a) ==
    /\ fan[a].pc = "preferences"
    /\ \E lost \in BOOLEAN :
         /\ lost => "read" \in Failures
         /\ fan' = [fan EXCEPT
              ![a].pc = "in_app", ![a].found = {},
              ![a].blind = Blind(a, "preferences", lost),
              ![a].todo = {w \in fan[a].found \X fan[a].channels :
                             \/ lost \/ w[2] = "email"
                             \/ <<w[1], Governing(a, w[2])>> \notin off}]
    /\ UNCHANGED <<profiles, unaddressed, members, off, delivered, audits>>

\* Whoever has no row is opted in, and so is everyone after an error.
ReadPreferences(a) ==
    /\ fan[a].pc = "preferences"
    /\ \E lost \in BOOLEAN :
         /\ lost => "read" \in Failures
         /\ fan' = [fan EXCEPT
              ![a].pc = "in_app", ![a].found = {},
              ![a].blind = Blind(a, "preferences", lost),
              ![a].todo = {w \in fan[a].found \X fan[a].channels :
                             lost \/ <<w[1], Governing(a, w[2])>> \notin off}]
    /\ UNCHANGED <<profiles, unaddressed, members, off, delivered, audits>>

Of(a, channel) == {w \in fan[a].todo : w[2] = channel}
Rows(a, ws)    == {<<a, w[1], w[2]>> : w \in ws}

NotifyOrGiveUp(a) ==
    /\ fan[a].pc = "in_app"
    /\ \E failed \in SUBSET Channel :
         LET rows == Rows(a, Of(a, "in_app"))
             left == IF failed # {} THEN {} ELSE Of(a, "email")
         IN  /\ "in_app" \in failed => "write" \in Failures /\ rows # {}
             /\ "email" \in failed => "key" \in Failures /\ Of(a, "email") # {}
             /\ fan' = [fan EXCEPT ![a].pc = IF left = {} THEN "audit" ELSE "email",
                                   ![a].todo = left, ![a].problems = failed]
             /\ \/ delivered' = delivered \cup rows
                \/ "in_app" \in failed /\ UNCHANGED delivered
    /\ UNCHANGED <<profiles, unaddressed, members, off, audits>>

\* One insert for all; after an error its rows may be there or not. Then, before
\* anything else is awaited: without RESEND_API_KEY no e-mail is tried.
NotifyInApp(a) ==
    /\ fan[a].pc = "in_app"
    /\ \E failed \in SUBSET Channel :
         LET rows == Rows(a, Of(a, "in_app"))
             left == IF "email" \in failed THEN {} ELSE Of(a, "email")
         IN  /\ "in_app" \in failed => "write" \in Failures /\ rows # {}
             /\ "email" \in failed => "key" \in Failures /\ Of(a, "email") # {}
             /\ fan' = [fan EXCEPT ![a].pc = IF left = {} THEN "audit" ELSE "email",
                                   ![a].todo = left, ![a].problems = failed]
             /\ \/ delivered' = delivered \cup rows
                \/ "in_app" \in failed /\ UNCHANGED delivered
    /\ UNCHANGED <<profiles, unaddressed, members, off, audits>>

Batches(ws) == {batch \in SUBSET ws :
    Cardinality(batch) = IF Cardinality(ws) < BatchSize THEN Cardinality(ws)
                         ELSE BatchSize}

\* A batch that fails is reported and not tried again; the next one is sent.
SendBatch(a) ==
    /\ fan[a].pc = "email"
    /\ \E batch \in Batches(fan[a].todo), failed \in BOOLEAN :
         LET left == fan[a].todo \ batch
         IN  /\ failed => "send" \in Failures
             /\ fan' = [fan EXCEPT
                  ![a].pc = IF left = {} THEN "audit" ELSE "email", ![a].todo = left,
                  ![a].problems = IF failed THEN @ \cup {"email"} ELSE @]
             /\ \/ delivered' = delivered \cup Rows(a, batch)
                \/ failed /\ UNCHANGED delivered
    /\ UNCHANGED <<profiles, unaddressed, members, off, audits>>

AuditEmailOnly(a) ==
    /\ fan[a].pc = "audit"
    /\ \/ audits' = audits \cup
            {<<a, IF "email" \in fan[a].problems THEN "failure" ELSE "success">>}
       \/ "audit" \in Failures /\ UNCHANGED audits
    /\ fan' = [fan EXCEPT ![a].pc = "answer"]
    /\ UNCHANGED <<profiles, unaddressed, members, off, delivered>>

\* The error of the audit insert is not looked at.
Audit(a) ==
    /\ fan[a].pc = "audit"
    /\ \/ audits' = audits \cup
            {<<a, IF fan[a].problems # {} THEN "failure" ELSE "success">>}
       \/ "audit" \in Failures /\ UNCHANGED audits
    /\ fan' = [fan EXCEPT ![a].pc = "answer"]
    /\ UNCHANGED <<profiles, unaddressed, members, off, delivered>>

Answer(a) ==
    /\ fan[a].pc = "answer"
    /\ fan' = [fan EXCEPT ![a].pc = "shown"]
    /\ UNCHANGED <<profiles, unaddressed, members, off, delivered, audits>>

\* The isolate is killed or its answer lost.
Kill(a) ==
    /\ "crash" \in Failures
    /\ UnderWay(a)
    /\ CallFails(a)
    /\ UNCHANGED <<profiles, unaddressed, members, off, delivered, audits>>

Next ==
    \/ \E u \in Users : SignUp(u) \/ Join(u) \/ SetAddress(u)
                         \/ \E t \in Toggle : SetToggle(u, t)
    \/ \E a \in Announcements :
         \/ \E channels \in SUBSET Channel, audience \in {"everyone", "plan"},
               critical \in BOOLEAN : Publish(a, channels, audience, critical)
         \/ Begin(a) \/ ReadMembers(a) \/ ReadProfiles(a) \/ ReadPreferences(a)
         \/ NotifyInApp(a) \/ SendBatch(a) \/ Audit(a)
         \/ Answer(a) \/ Kill(a)

Spec == Init /\ [][Next]_vars

-----------------------------------------------------------------------------
Missed(a) == {w \in fan[a].owed : <<a, w[1], w[2]>> \notin delivered}

\* Once the page shows a publication, whoever was in the audience, opted in and had
\* an e-mail address all along was reached on every channel the page reports no problem of, unless a
\* read of the audience lost rows: a failure of one channel neither hides nor
\* causes one of the other (send-announcement-email:18-24;
\* AdminAnnouncementsPage:85-101).
UnreportedMeansDelivered == \A a \in Announcements :
    fan[a].pc = "shown" /\ "audience" \notin fan[a].blind
        => \A w \in Missed(a) : fan[a].problems \cap {w[2], "delivery"} # {}

\* Whoever had opted out of a channel before the call and stayed out is not
\* reached on it, unless the read of the preferences failed
\* (send-announcement-email:26-31).
OptedOutIsSpared == \A a \in Announcements :
    "preferences" \notin fan[a].blind
        => \A w \in fan[a].out : <<a, w[1], w[2]>> \notin delivered

\* An audit row that says success belongs to a publication that reached everyone
\* it owed, unless a read of the audience lost rows (send-announcement-email:251).
AuditIsTruthful == \A a \in Announcements :
    <<a, "success">> \in audits /\ "audience" \notin fan[a].blind
        => Missed(a) = {}

=============================================================================
