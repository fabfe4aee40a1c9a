# Codex V1 in TLA+

Codex V1 is a developer platform built on Supabase: Deno Edge Functions behind
API keys (`supabase/functions`), Edge Functions for the dashboards, a Postgres
schema with row-level security (`supabase/migrations`), a developer dashboard
and a super-admin dashboard in React (`apps/developer`, `apps/super-admin`).
There is no server of its own: every piece of coordination is a sequence of
separate database calls made by handlers that run concurrently and may be
killed at any await. This directory holds TLA+ models of that coordination,
TLC runs on small instances and TLAPS proofs.

## 1. Inventory

| Component | State | Operations | Interacts with | Hard part | What makes it correct |
|---|---|---|---|---|---|
| Request pipeline (`_shared/authenticate`, `rateLimit`, `logRequest`, `handler`, and the copies of it in `otp-*`, `uuid-generate`, `hash`, `base64-*`) | `request_logs`, `api_keys`, `projects` | authenticate, check scope, count the window, parse, validate, execute, log, answer | every `/v1` endpoint | the count is read long before the row that makes it grow is inserted; fail-open; log errors ignored | bounded overshoot of the limit; a log row precedes every logged answer |
| One-time codes (`otp-send`, `otp-verify`) | `otp_verifications` | send, verify | pipeline, webhook dispatch | read, decide, unconditional update; kills and lost updates between them | count bounded, nothing closed early, serial requests atomic |
| API keys (`api-keys-create`, `api-keys-rotate`) | `api_keys`, `audit_logs` | create, rotate, revoke | authentication, webhooks | rotate against revoke; audit and event after the update; fire-and-forget `last_used_at` | only a member's direct update of the table brings a revoked key back; audit and events never run ahead of the row |
| Webhooks (`webhooks`, `_shared/dispatchWebhooks`) | `webhooks`, `webhook_deliveries` | create, list, get, update, delete, test, dispatch | emitted by OTP, keys, projects | deletion or disabling during a dispatch; one attempt, no retry; no timeout on the POST | no delivery row without an attempt; deliveries only to subscribed webhooks |
| Projects (`projects-update`, `services/projects.ts`, `ProjectDetailPage`, `ProjectSettingsPage`) | `projects`, copies in open tabs | create, rename, change settings, delete | pipeline, webhooks | forms filled from copies loaded long before; events of two updates in either order | a save undoes nothing it does not show; a subscriber that reads after the event catches up |
| Default organization (`0007`, `services/projects.ts`) | `organizations`, `organization_members` | get or create, list | sign-up, first page load | two calls under READ COMMITTED, no unique constraint on the owner | organization and membership together; serial calls idempotent |
| Row-level security (`0004`, `0006`, `0007`) | policies | select, insert, update, delete per table and role | every dashboard call | helper functions and policies of several migrations compose | rows are read by people their tenant let in and changed by its insiders only |
| Announcement fan-out (`send-announcement-email`, `AdminAnnouncementsPage`) | `announcements`, `notifications`, `notification_preferences`, `audit_logs` | publish, resolve audience, notify in app, e-mail in batches, audit | profiles, Resend | read errors swallowed as empty audiences, partial batches, repeated calls | audit says failure when a channel failed |
| Developer administration (`admin-list-developers`, `admin-suspend-user`, `AdminDevelopersPage`) | `profiles`, auth users, `audit_logs` | list with ban state, suspend, reinstate | super-admin dashboard | ban, audit row and two lists are separate calls; a table of rows with one `busyId`; paging stops at the first error | no two administrators have suspended each other; the page shows its own changes; the trail agrees with the bans |
| Sign-in state (`AuthContext`, `ProtectedRoute`, `MfaChallengePage`, `AdminAuthContext`, `RequireSuperAdmin`) | session, assurance level, role | sign in and out, challenge, guard a route | Supabase Auth callbacks | late promises of an earlier session | the guard agrees with the session once it has its answers; nothing is shown before the role is known; a tab left alone comes to rest |
| Optimistic pages (`NotificationsPage`, `NotificationSettingsPage`, `DeveloperPreferencesPage`, `ApiKeysPage`, `WebhooksPage`) | local copies of rows | toggle, mark read, create, rotate, revoke, reload | database | roll-back to a stale copy, answers out of order, a secret shown once | at rest the page shows the table; the secret shown is the one in force |
| Publishing (`AdminStatusPage`, `AdminChangelogPage`, `AdminAnnouncementsPage`, `AdminApiKeysPage`, `StatusPage`, `ChangelogPage`) | `status_components`, `status_incidents`, `changelog_entries`, `announcements`, `api_keys`, lists on a page | set a status, post, revoke, list again, visit | database, public visitors | one `savingComponentId` for a table of selects; two reads at different times whose errors are dropped; overlapping refreshes | the page at rest shows the tables; a status is what was chosen last; a visitor is told what was posted before it came |
| Analytics (`services/analytics.ts`) | none (reads `request_logs`) | four counts at once | request log | four counts of four snapshots | counts consistent with each other when nothing is written |
| Pure utilities (`validate-*`, `url-*`, `json-*`, `regex-test`, `timestamp-convert`, `utils/diffLines`, `utils/timestamp`, `_shared/crypto`) | none | one function each | pipeline | boundaries | equal to a reference definition |
| Delivery pipeline (`.github/workflows/ci.yml`, `scripts/deploy-functions.sh`) | job states | build, deploy | repository pushes | cancelled runs, needs | no deployment without both builds |
| Seed data, documentation data files, styles, static pages | none | none | none | none | not modelled |

## 2. Modules

| Module | Models | Kind |
|---|---|---|
| `OtpPolicy` | what the one-time-code service promises of one verification | abstract specification |
| `OtpVerification` | `otp-send`, `otp-verify` with concurrent requests | detailed, refines `OtpPolicy` |
| `RequestPipeline` | authenticate, scope, count, run, log, answer | one key, concurrent requests |
| `WebhookDispatch` | `webhooks`, `dispatchWebhookEvent` | one project's webhooks |
| `ApiKeys` | `api-keys-create`, `api-keys-rotate`, `authenticateRequest`, `AdminApiKeysPage` | one project's keys |
| `OrgProvisioning` | sign-up, `get_or_create_default_organization`, first project | all developers |
| `Announcements` | `AdminAnnouncementsPage`, `send-announcement-email` | all announcements |
| `Tenancy` | every policy of 0004, 0006 and 0007 over memberships, projects and rows that change | all tables |
| `SignIn` | session, second factor and role under the guards of both dashboards | one browser tab |
| `Administration` | `AdminDevelopersPage`, `admin-suspend-user`, `admin-list-developers` | all accounts, one page per administrator |
| `ProjectPage` | `ApiKeysPage`, `WebhooksPage` | one page |
| `OptimisticPage` | `NotificationsPage`, `NotificationSettingsPage`, `DeveloperPreferencesPage` | one page and one other tab |
| `ProjectEdits` | `ProjectDetailPage`, `ProjectSettingsPage`, `projects-update`, a subscriber | one project, several tabs |
| `BoardPage` | `AdminStatusPage`, `AdminChangelogPage`, `AdminAnnouncementsPage`, `AdminApiKeysPage`; `StatusPage`, `ChangelogPage` | one page and one visitor |
| `Console` | the router: one of the page modules is mounted | composes `Administration`, `ProjectPage`, `OptimisticPage`, `ProjectEdits`, `BoardPage` |
| `MC*` | symmetry sets, pages of accounts, lists of projects | model checking |
| `*_proofs` | invariants, lemmas and theorems of the module they extend; `Access_proofs` those of `Tenancy` and `SignIn`, `Console_proofs` those of all pages | proofs |

Conventions. One action is the code between two awaits: what a handler decided
from a read stays in its local record while others run. Failures are elements of
the constant `Failures`, so that one module serves runs with and without them.
A call that ends without changing a table (not found, validation error) is a
stuttering step unless something depends on its ending. A field or variable
commented *history* is not in the program; it records what a property needs.
An operator named after a mistake (`WillExceedOneLate`, `AuditOrAnswer`,
`CommitOrgOnly`, ...) is not used by any specification: it is a variant of the
definition below it that the property of the same component is known to reject.

### 2.1 OtpVerification

| Model | Code |
|---|---|
| `otps` | rows of `otp_verifications`: status, `attempt_count`, `expires_at` |
| `Send` | the insert of `otp-send`; the e-mail's errors change nothing |
| `Read`, `Decide` | select by id (otp-verify:54-62) and the tests in their order: not pending, expired, locked out, right, wrong |
| `Write`, `Updated` | `update(...).eq('id', ...)`, on the row as it is by then; the error is not looked at, so `lost` records it |
| `Emit` | `dispatchWebhookEvent`, awaited after the update |
| `Crash` | the isolate is killed at an await |

`wrongs` counts the wrong codes answered (history); the code has no such
counter, since `attempt_count` loses updates.

`OtpPolicy` has the four things that can happen to a verification in one step
each. `ImplementsPolicy` maps `status` to the row's status; `wrongs` is the
same variable. It holds for one request at a time, and with two it does not,
which is what `otp_failed_succeeds` shows.

### 2.2 RequestPipeline

`logs` are the rows of one key in `request_logs`, `Used` is the count of
`checkRateLimit` over `created_at >= now - 60 s` (a rolling window, though
rateLimit.ts:2 calls it fixed), `request` the progress of each request.
`Authenticate`, `Count`, `Run`, `Log`, `Answer` are the awaits of
`defineEndpoint`; *direct* requests are those of the endpoints with their own
copy of the pipeline, which answer a missing scope without a row. `Abandon`
covers a killed isolate and the exception of a body of `null` (hash:47), after
which nothing is logged.

### 2.3 WebhookDispatch

`hooks` is the table, `task` a call of `dispatchWebhookEvent` or `handleTest`,
`leg[d][h]` the progress of dispatch `d` to webhook `h` (the `Promise.all` of
dispatchWebhooks.ts:35-75), `rows` the `webhook_deliveries`. `Post` has the three
outcomes of one POST: answered 2xx, refused or unreachable, and taken without an
answer that arrives. `Record` inserts the row, which fails when the webhook is
gone (foreign key). `Update` and `Delete` run at any moment.

### 2.4 ApiKeys

A key and a secret are named after the call that generates them. `BeginCreate` and
`BeginChange` are the lookups, `Insert`, `Rotate`, `Revoke` the writes by id
alone, `Audit` and `Dispatch` what follows. `AdminRevoke` is the direct update of
the super-admin page, `MemberUpdate` that which the same policy (0004:132-134)
allows every member of the organization: it writes the columns of a row at will,
and so may make a revoked key active again. It concerns the keys in `Direct`.
`wrote` (history) says that a call's change was in the table when its write
returned, since an update that matches no row, or fails, says nothing. `Present`,
`CheckKey`, `CheckProject` follow `authenticateRequest`; `Touch` is its update of
`last_used_at` that nobody awaits, so it may land after a rotation or never.
`late` (history) says the secret was already dead when the request started.

### 2.5 OrgProvisioning

Each select of the function sees what is committed when it runs (READ COMMITTED);
the two inserts become visible at `Commit`; `created_at` is the start of the
transaction, hence `clock`. `Heal` is the upsert of `AuthContext` that nobody
awaits, `Invite` the insert an owner is allowed to make: its `created_at` is the
start of the owner's transaction, or whatever the owner supplies, since the policy
(0004:87-95) asks nothing of it, so it may be older than memberships that are
there already (`Stamps`, beside the next tick of `clock`). `CreateProject` is the
insert under the policy `projects_insert_org_member`. `after` (history) records
which calls of the developer were over when a call began, `displaced` who got an
older membership while owning nothing.

### 2.6 Announcements

`fan[a]` follows the page and the function together: `Publish` is the insert,
`Begin` the checks, then one action per query, one for the insert of all
notifications, one per batch of e-mail, one for the audit row, one for the
answer. `Lossy` is what a query whose error is dropped may return: everything,
nothing after an error, or a part beyond the API's `max_rows`. People without an
e-mail address (`unaddressed`, which `SetAddress` changes) are dropped by
`dedupeRecipients` (send-announcement-email:57-63) when the profiles are read, from
both channels. Two selects of the
plan path are one action, since nothing in the program changes an organization's
plan. `owed`, `out` and `blind` are history: who was in the audience and opted in
and had an address (or opted out) ever since the call began, and which reads lost rows.

### 2.7 Tenancy

`admins`, `owner`, `members`, `home` and `row` are the tables the policies read
and guard: `admin_roles`, `organizations.owner_id`, `organization_members`,
`projects.organization_id`, and one row variable for the tables that hang on a
project or a user. `IsSuperAdmin`, `IsOrgMember`, `ProjectOrgId` are the helper
functions of 0004, each `May...` a policy, each action a command a signed-in user
may send in any order; a command no policy admits is no step. An update policy
without WITH CHECK is applied to the old and to the new row, as Postgres does.
Tables with the same policies are one class: `api_usage` stands for
`otp_verifications`, `announcements` for the changelog and the status page.
`Provision` is the result of `get_or_create_default_organization`, whose inside
is `OrgProvisioning`'s subject. History: `insiders` (who was let in, by an owner or an
administrator), `origin` and `taken` (where a row was made, and that an insider
moved it), `breach` (an outsider made, changed, moved or deleted something; a
change that leaves the row where it is counts).

### 2.8 SignIn

One tab of either dashboard (`app`). `cur` is the session inside the Supabase
client, `session`, `loading` and `role` are the context's copies of it, `guard`
the two state variables of `ProtectedRoute` or `RequireSuperAdmin`, `asks` the
questions its effect has sent about the level of assurance, `lookups` the queries
of `admin_roles` under way, `status` the challenge page. `Receive` is the
listener of `onAuthStateChange`, `RunEffect` the effect on `[session]`,
`RoleAnswer` the rest of `checkAdminRole`, `Challenge` the steps of the
challenge page, which asks again by itself. People sign in and out in this tab
and in others, enrol and remove factors, here or on another device. The client
library is external: it answers level questions in order and from its session,
lists factors by asking the server, and refreshes tokens by itself.
Sign-up and password reset reach the guards as sessions like any other.

### 2.9 Administration

`rank` is `admin_roles` with the order in which rows were granted, `banned` the
accounts whose `banned_until` lies ahead, `audit` the last audit row of an
account. `tab[a]` is the page of administrator `a`, `job` the runs of `refresh`,
`handleSuspend` and `handleReinstate`, each followed through the page and the
function it calls: `Click`, `Change` (the update of the ban: applied, failed, or
applied and answered with an error, after which there is no audit row and the page
does not list again, admin-suspend-user:60-66), `Audit` (the row
whose error is ignored), `TakeAnswer` (the page lists again), `ReadTables`,
`ReadPage` once per page of `listUsers`, `TakeList`. `Disconnect` is the rejected
`fetch` that nothing catches. `Pages` deals the accounts to pages of `listUsers`;
the limit of 500 profiles and the cap of 25 pages are taken to be above the
number of accounts.

### 2.10 ProjectPage, OptimisticPage, ProjectEdits, BoardPage and Console

`ProjectPage` is the page of a selected project's keys or webhooks. `Choose` is a
change of the select with the effect that lists and is never cancelled; the
handlers (`Create`, `RotateOrRevoke`, `ToggleOrDelete`) call a function and list
the project that was selected when they were called. `revealed` is the secret
shown once, with the row it belongs to.

`OptimisticPage` is the notification list or the notification settings: `Change`
shows the new value and starts the save, `Apply` is the save in the database
(a partial upsert of `user_preferences`, or the update of one notification),
`Refuse` and `RollBack` a failed save and its `setPrefs(prefs)`.
`DeveloperPreferencesPage` in another tab saves other columns of the same row.

`ProjectEdits` has the detail page and the settings page in several tabs.
`Load`, `Draft`, `Rename`, `Save`, `Delete` are the pages' steps, `Update` and
`Dispatch` the two awaits of `projects-update`. The subscriber of
`project.updated` is external: since the event names the changed fields and holds
no values (projects-update:74-77), it reads the fields it was told of, some time
later (`Fetch`).

`BoardPage` is a page of the super admins (`desk`): `state` are the statuses of
components or keys, `posted` the incidents or entries, `board` the lists on the
page. A member of `Runs` is a run of the effect or of a handler: `Submit`,
`ChangeStatus` and `Revoke` begin one, `Insert` or `Write` is its call, `TakeAnswer`
begins the `refresh` at its end, `Read` is one query of that (AdminStatusPage has two
at once), `TakeLists` shows them. An insert that fails may have been made; the
error of an update is not looked at; a query that fails reads nothing. `Visit`,
`VisitorReads` and `VisitorSees` are the effect of `StatusPage` or `ChangelogPage`.
Lists hold the newest rows only: 20 incidents (AdminStatusPage:41), 50 announcements
(AdminAnnouncementsPage:35), 200 keys (AdminApiKeysPage:23), ten incidents for a
visitor (StatusPage:37), which `Limits` says; `listed` are the keys among the newest,
and a row is `Displaced` once as many newer ones are there.
History: `chosen` (the last choice for a component), `loosened` (components whose
select was enabled while their change was being saved, which the single
`savingComponentId` makes possible), `spoilt` (whose update failed).

`Console` is the router of both applications: it mounts one page, and that page
steps. An answer that arrives after the page was left sets the state of a
component that is gone, which is why no page's behaviour depends on those visited
before.

## 3. Runs

| Run | Instance | Shows |
|---|---|---|
| `otp_concurrent` | 3 requests, 1 row, 3 attempts, kills and lost updates | the stored count is bounded, nothing closes early, at most 19 wrong codes are answered |
| `otp_serial` | 1 request, 2 rows, kills | refinement of `OtpPolicy`; events agree with the row |
| `otp_failed_succeeds` | 2 requests | counterexample to otp-verify:5-7 |
| `request_pipeline` | 2 requests, limit 2, 4 rows | burst bound; every request ends |
| `webhook_dispatch` | 2 dispatches, 2 webhooks, all failures | the log is complete and truthful; nothing but an endpoint that never answers holds the request that emits, and the other deliveries are logged |
| `api_keys` | 3 dashboard calls, 1 request, all failures | no dead secret accepted, nothing but a member's direct update un-revokes, audit and events truthful |
| `org_provisioning` | 2 developers, 4 calls, all failures | owners are members, no refusal, serial calls agree unless an older invitation displaced the default |
| `org_twice` | 1 developer, 2 calls | counterexample to 0007:57-59 |
| `announcements` | 1 publication, 2 developers, batches of 1, all failures | silence means delivery, opt-outs respected, audit truthful |
| `tenancy` | 1 administrator, 2 developers, 2 organizations, 2 projects, 1 row | readers were let in, only insiders change or move |
| `sign_in` | both dashboards, an administrator and a developer, 2 events or failures | the guard catches up with the session, nothing is shown before a yes, the role is the session's, a tab left alone settles |
| `console` | each page with 2 to 4 runs and a failure, 2 rows, cells or components | pages agree with the tables, no mutual suspension, true audit trail, subscribers and visitors are told |

Bounds and why they are enough.

- `otp_concurrent`: with `W` requests and `M` attempts the worst schedule answers
  C(M+W, W)-1 wrong codes. `MaxWrongs = 24` lies above 19, so the bound is met by
  the model and not by the cap. One row is enough: requests touch one row each.
  `TTL = 1`, `MaxTime = 2` let a request read before the deadline and write after.
- `otp_serial`: two rows show that one row's requests leave the other alone.
- `request_pipeline`: the worst case needs the window filled to one below the
  limit and every request counted before any is logged, four rows in all; two
  ticks let rows leave the window.
- `webhook_dispatch`: dispatches meet only through webhooks, so two of each cover
  a dispatch, a test and a deletion between any two of their steps.
- `api_keys`: three calls are create, rotate and revoke of one key, the smallest
  number in which a rotation can race a revocation; the super-admin page adds a
  second revoker. `Direct` has one key, since keys meet in nothing but their project.
- `org_provisioning`: four calls let one developer come to own two organizations,
  be invited to another and call again. `Stamps = {0}` is no
  newer than any row: of a stamp the code only asks whether it is the oldest of a
  developer's memberships.
- `announcements`: two developers in batches of one give a failed batch followed
  by a good one and the reverse; publications share no state but the tables of
  people.

- `tenancy`: rows do not meet in any policy, so one is enough; a second project
  and a second organization are what a row, or the project above it, can be moved
  to, and the second developer is the outsider.
- `sign_in`: people, other devices and failing answers share a budget of two;
  one event changes the session and the second overtakes the answers to the first.
- `console`: four jobs are the fewest in which two administrators can each have the
  page open and click on each other; three calls let a selection race a handler and
  another selection; three saves let one fail between two others; two edits overlap;
  three runs of a board are the effect and two overlapping handlers, two components or
  two texts let each have its own, and a third level lets a component be changed again
  before its list is read. `Limits` are far smaller than the code's (two incidents,
  one announcement, one key, one incident for a visitor), so that three runs displace
  rows from the lists of announcements, of keys and of a visitor, and none from that of
  incidents; the proofs are for every limit.
  A fourth call was tried as well and passes.

Symmetry is used only in runs without temporal properties, over requests, calls,
developers, organizations and projects, which the modules treat alike; in
`console` over the two accounts on one page of `listUsers`, the cells, the tabs, the
components and the texts, all swapped at once. Deadlock is not checked: every
run ends when its bounded requests, calls or publications are used up.

Fairness. `request_pipeline` assumes that awaited calls return, as the platform's
client does with a result or an error. `webhook_dispatch` assumes the same of the
dispatchers' own calls of the database (`HandlerFairness`) and nothing of
endpoints: the POST has no timeout, so that one may never end, and
`OnlySilentEndpointsHold` says that nothing else keeps the request waiting.
`api_keys` assumes that one of the calls under way goes on. `sign_in` assumes that
answers arrive and effects run (`WF_tabVars(Settling)`), and that the client
refreshes its token sooner or later (`autoRefreshToken`); it assumes nothing of
people, and failing answers are bounded by the budget: a browser whose
`listFactors` keeps failing is sent back and forth between guard and challenge
page for as long as that lasts. No fairness is assumed of detached updates
(`Touch`, `Heal`), of killed isolates or of people.

## 4. Findings

1. **A failed verification can become verified** (`otp_failed_succeeds`). Updates
   filter on the id only; a request holding an older read overwrites `failed`. A late
   wrong code overwrites `verified` likewise, with pending or failed, and one read
   after the deadline puts `expired` over either; no property forbids that.
2. **Two overlapping calls create two default organizations** (`org_twice`).

Seen while modelling, without a run of their own. One-time codes and pipeline:

- endpointDocs.ts:766 speaks of the sixth wrong attempt; the fifth closes.
- More than `max_attempts` codes can be tried by overlapping requests: up to 20
  for two at a time with the code's limit of five. `BudgetKept` is the exact bound.
- docsContent.ts:50 excludes a burst allowance; `BurstBounded` gives the burst the
  code allows, one row per request in flight beyond the last free place.
- Refused requests (429) are rows of the window too (rateLimit.ts:18), so a client
  that keeps retrying at the limit is not served again; no document says otherwise.
- docsContent.ts:80 promises a log row per `request_id`; the direct endpoints
  answer a missing scope before any row, and a failed insert of the row is ignored.

Webhooks and keys:

- The POST of a delivery has no timeout and is awaited, so an endpoint that accepts
  the connection and never answers holds the emitting request, against
  dispatchWebhooks.ts:9.
- dispatchWebhooks.ts:9-10 promises that failures are logged; a failed select
  drops the event without a trace.
- A webhook deleted between the two lookups of its test receives the POST with an
  empty signature (webhooks/index.ts:240), against docsContent.ts:75.
- Revocation from the super-admin page fires no event and leaves no audit row,
  against docsContent.ts:70 and api-keys-rotate/index.ts:8-11.
- docsContent.ts:60 says that there is no way to un-revoke a key, yet the update
  policy of `api_keys` (0004:132-134) lets every member of the organization set
  `status` back to active, or bring an old hash back, without the functions;
  `RevocationStands` names that as the only way. The same holds of `expires_at`.
- A rotation racing a revocation answers with a secret that is dead already, and
  the detached stamp of `last_used_at` may land after the rotation reset it.

Announcements and organizations:

- A failed read of the audience publishes to nobody and reports success, against
  send-announcement-email:20-24; a failed read of the preferences reaches those
  who opted out, which is why `OptedOutIsSpared` excuses it.
- People without an e-mail address are dropped before the channels part, and get no
  in-app notification either (send-announcement-email:57-63).
- The audience `free` matches nobody: the check on `organizations.plan`
  (0001:31) does not admit that value.
- 0007:57-59 promises the same organization to repeated calls, yet for somebody who
  owns nothing it is the one of the oldest membership, and an invitation that comes
  into sight later can be older than those there were: its `created_at` is the start of
  the inviting transaction, or what the owner supplied. `SerialCallsAgree` excuses
  exactly that (`displaced`).
- An organization inserted directly (0004:70-72) has no membership, and
  `get_or_create_default_organization` then answers it as it is (0007:79-87):
  creating a project in it is refused, the state 0007:26-29 sets out to end. Its
  owner may insert the membership, but no page offers that.

Sign-in:

- While `listFactors` fails, guard and challenge page redirect to each other.
- A protected page is rendered for a frame before the check of a new session
  begins: the guard's effect runs after the render.
- Every token refresh and SIGNED_IN event makes the guard check again and
  unmounts the page under it, together with a secret that is shown once.
- A developer who signs in on the admin login page stays signed in under the message
  that the account has no Super Admin privileges (AdminLoginPage:55-59).
- A late answer about an earlier session's role is taken for the current one
  (`RoleIsOfSession` names it); the policies still decide what the page can read.
- AdminLoginPage.tsx:34 says sign-in attempts are audit logged; no code does.

Pages:

- AdminDevelopersPage.tsx:66 says a suspended developer is "immediately signed
  out"; the ban ends no session, whose token lasts up to an hour (config.toml:22).
- A ban that was applied but answered with an error leaves no audit row, and the page
  goes on showing what it showed (admin-suspend-user:60-66).
- A rejected `fetch` in `callSuspendFunction` leaves `busyId` set, and a handler
  that ends clears the `busyId` of another.
- A suspended developer who is then made an administrator is no longer listed, so
  that no page can reinstate the account.
- A failed save rolls back to a copy that lacks changes made since
  (`CopyIsSaved` excuses it), and the secret of one rotation hides that of another.
- A settings page opened before a suspension reactivates the project when it saves
  its description, since it sends both fields.
- A failed `getProject` leaves "Loading..." forever (ProjectSettingsPage:20-28,
  ProjectDetailPage:15-26), and a failed rename shows nothing.
- StatusPage.tsx:33-47 shows "All systems operational" after a failed read, which is
  why `VisitorIsTold` excuses it. It reads the ten newest incidents, so that with an
  eleventh the oldest is not shown, active or not (StatusPage:37).
- While the status of one component is saved, that of another frees its select, and a
  second change of the first can be overtaken by the one before
  (AdminStatusPage:54-57; `ChosenStands` excuses it). A failed update of a status or a
  key shows nothing (AdminStatusPage:55, AdminApiKeysPage:34).
- The text typed while a post is under way is cleared when its answer arrives
  (AdminAnnouncementsPage:108).

## 5. Proofs

| Theorem | States |
|---|---|
| `TypeCorrect`, `PipelineTypeCorrect`, `KeysTypeCorrect`, `OrgTypeCorrect`, `AnnouncementsTypeCorrect`, `TenancyTypeCorrect` | type invariants |
| `AttemptsStayBounded`, `NeverClosedEarly` | one-time codes, any number of requests and failures |
| `GuessesStayWithinBudget` | the exact bound on the wrong codes that overlapping requests can have answered |
| `SerialImplementsPolicy`, `SerialLimitIsExact`, `SerialEventsAgree` | requests served one at a time: refinement of `OtpPolicy`, the limit, the events |
| `BurstsAreBounded` | any number of requests, limit and window |
| `LogIsTruthful`, `NoSubscriberIsMissed` | any webhooks, dispatches, failures |
| `DeadSecretsAreRefused`, `AnnouncementsAreTrue`, `OnlyMembersUnrevoke` | any calls, requests, failures |
| `OwnersAreMembers`, `ProjectsAreNeverForbidden`, `CallsInTurnAgree` | any developers, calls, invitations, failures |
| `TenantsAreIsolated`, `OutsidersChangeNothing` | any people, organizations, projects, rows |
| `SecondFactorIsAsked`, `NobodyIsShownUnasked`, `RoleStaysWithSession` | the guards of both dashboards, any accounts, late and failing answers |
| `EldersSuspend`, `FirstAdminStays`, `TrailIsTrue`, `OwnChangesAreListed` | any accounts, pages, concurrent clicks, failures |
| `ListsAreOfSelected`, `RevealedSecretsAreCurrent` | any projects, rows, overlapping calls |
| `CopiesAreSaved` | any cells, overlapping saves, refusals |
| `OwnEditsAreShown`, `SubscribersCatchUp` | any tabs, edits, events in any order |
| `BoardsAreCurrent`, `ChoicesStand`, `VisitorsAreTold` | any components, entries, overlapping handlers |
| `SilenceMeansDelivery`, `OptOutsAreRespected`, `AuditsAreTruthful` | any people, batch size, failures |

Assumptions are the named ASSUMEs of the modules, evaluated by every run: bounds
and limits are naturals, at least one attempt, a batch size of at least one, a
finite set of requests in flight (`OtpVerification`, `RequestPipeline`), and
constants that stand for null or for nothing are none of the things they are
compared with (`NoRowIsNoRow`, `ValuesAreValues`, `NothingIsNothing`, ...). The
three serial theorems assume one request and no lost updates (`OneAtATime`, stated
in each of them).

The inductive invariants, and why the properties are not inductive alone:

- *One-time codes.* A request in flight acts on an old read, so the invariant
  bounds what it holds: `seen` is below `MaxAttempts` for a decision that counts
  and at most the number of wrong codes answered, and an *expire* decision was
  taken past the deadline. Served one at a time, a request writes over the row it
  read, which is open, so that no event has spoken of it yet (`EventSound`).
- *The budget of guesses.* How many wrong codes were answered says nothing of how
  many still can be. `BudgetInv` gives every request in flight the count it would
  write over; how many requests stand at each count or below is a *profile*. A
  wrong code takes some requests back to the count its request had read, and that
  request one further, so profiles get lexicographically smaller and none is met
  twice: the wrong codes answered are at most the profiles passed (`Passed`), of
  which there are `GuessBudget`. That needs no induction over a binomial
  coefficient, only the cardinality of a finite set that grows.
- *Pipeline.* `LoadBounded` counts, for every start of a window, the rows of
  served requests since it together with the requests counted and not yet logged;
  a new count is admitted only while the rows are below the limit, and every step
  keeps that sum within the bound.
- *Webhooks.* A leg says *delivered* only after the endpoint took the POST; a
  clean dispatch has every due webhook on its way, recorded or deleted.
- *Keys.* `CallSound` says what a call past its write has done to its key,
  `Announced` that an audited or announced call is past its write, `LateStaysDead`
  that a dead secret stays dead: a secret is generated once, a hash that was
  overwritten never returns and a revoked row never becomes active, but by
  `MemberUpdate`; that a call's change was in the table when its write returned is
  kept in `wrote`, whatever is done to the row afterwards.
- *Organizations.* `AnswerIsUsable` says that the organization a call holds has
  the developer among its members, which needs `OwnerIsMember`, which needs the
  two inserts to commit together. `DefaultInv` adds what a developer whose calls
  never overlapped is *settled* on: at most one organization of their own; none
  while a call is past the first select; nothing answered yet while a call is
  about to insert; and every answer given is the default, the organization they
  own or else the one of their oldest membership. An invitation newer than that
  does not move the default, an older one puts the developer in `displaced`, and a
  commit comes before any answer (`OneDefault`).
- *Announcements.* `Sound` follows each call from read to read: whoever is owed,
  which takes an address ever since, is still among the rows in its hands, then to
  be tried, reached or covered by a reported problem; whoever is to be spared is
  not.

- *Tenancy.* The history is tied to the tables: members were let in, a row nobody
  took away is still in the organization it was made in, and a personal row stays
  with its user. An update policy alone does not give that; it needs that the
  policy holds of the new row as well.
- *Administration.* A page offers to suspend only accounts its list showed as
  developers. `PageOK` and `RunOK` follow that from the read of `admin_roles`
  through the list and the click to the ban: rows stay and are numbered in the
  order of their grants, so whoever was no administrator when a list was read can
  only become a later one than the administrator whose page it is. `Trail` says
  that a run between its ban and its row is the only one of its account, or the
  account is in `crossed`, as it is after a ban that was applied and answered with
  an error.

- *Sign-in.* The answer that counts is the newest one asked for, so `TabInv`
  speaks of the last question in `asks` and the last look-up in `lookups`:
  whatever came before it in the queue, it is about the session that is there. It
  needs that the context's copy is the client's session once it has started
  (`ContextFollows`).
- *What an administrator's page shows* (`ShowInv`). A change that was applied and
  not answered is *pending*, and its page will list again, as the newest. When
  none is, the newest list of the page began after the change and reads the ban as
  it is.
- *Rows of a project* (`RowsInv`). A row that is not entangled has one call at a
  time (`OneCallOfRow`), so the secret that call brought back is the one it wrote.
  While nothing excuses the page, the newest list holds the rows as they are, or
  some handler has written and will list again (`ListsFollow`).
- *Copies* (`CopyInv`). The property speaks of a page at rest; between that, the
  copy shows of each cell what the newest unapplied save of it says, and the
  table's value otherwise (`Agrees`), and so does the copy a refused save will put
  back. All of it fails once a roll-back or an overtaken save is bound to happen
  (`Doomed`), before the property itself is excused.
- *Edits* (`EditInv`). A tab that is not muddled has one call of
  `projects-update`; the form it sent is the form it shows until somebody types; a
  field the subscriber has not read is due, or its event is still to be sent
  (`Told`).
- *Boards* (`BoardInv`). A component whose select was never enabled too early has
  one change in flight, the last that was chosen (`ChoicesFollow`); one form is
  submitted at a time and its text is not in the table before (`PostsAreNew`); the
  newest lists agree table by table with what has been read of them so far, or
  somebody was answered that will read again (`BoardFollows`, `UpToDate`); a post
  is in the list that is shown, displaced, or younger than the refresh that
  brought the list (`PostsFollow`), and once displaced it stays so, for posts only
  come (`DisplacedStays`); a visitor owes its rows to reads that come after it
  (`VisitorFollows`).

`Console_proofs` proves an invariant per page, of that page's variables alone, and
`ConsoleStep` puts them together: whichever page steps, the others stutter.

Only model-checked: the liveness properties (`EventuallyDone`, `OnlySilentEndpointsHold`,
`EventFollows`, `DashboardSettles`), which are beyond the prover. Every invariant a
passing run checks is stated by a theorem.

## 6. What is left

1. A composition of `projects-update`, `otp-verify` and the key functions with
   `WebhookDispatch`: each is modelled up to the call of the dispatcher, and the
   dispatcher alone.
2. The result box of a webhook test, and the read-only pages of both dashboards.
3. Proofs that the page modules implement an abstract page (shown rows follow the
   table at rest), which their properties now state one by one.

## 7. Not modelled

Supabase itself (Postgres constraints, Auth, the API's limits) appears through
what the code relies on: unique and foreign keys, READ COMMITTED, one row lock
per update, `max_rows`. Left out for good: encryption and hashing (`crypto.ts`),
which the models treat as unique values; the texts of answers and e-mails;
layout, static pages, documentation data and seed data. The validators and
converters (`validate-*`, `url-*`, `json-*`, `regex-test`, `timestamp-convert`,
`diffLines`) are functions of one string that hold no state and wrap platform
parsers or a single regular expression. Analytics only reads. The delivery
pipeline is declarative configuration of the CI service. The result box of a webhook
test is overwritten by the next test and changes nothing else.
