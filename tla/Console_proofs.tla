--------------------------- MODULE Console_proofs ---------------------------
(***************************************************************************)
(* The pages of the two dashboards, for any number of accounts, rows,      *)
(* cells, views, runs and failures.  Each page has an invariant of its own *)
(* variables, which only its own actions have to keep: the others leave    *)
(* its variables alone.                                                    *)
(***************************************************************************)
EXTENDS Console, FiniteSetTheorems, TLAPS

-----------------------------------------------------------------------------
(***************************************************************************)
(* Suspending: an administrator is suspended only by an earlier one, and   *)
(* the trail says what an account is.                                      *)
(***************************************************************************)
\* Rows of admin_roles are numbered as they are inserted.
Ranked ==
    /\ granted # 0
    /\ rank[FirstAdmin] = 1
    /\ \A u \in Users : rank[u] <= granted

\* A page was opened by an administrator and lists accounts it outranks.
PageOK(a, t) ==
    /\ t.open => rank[a] # 0
    /\ \A u \in Users : t.shown[u] # "absent" => Outranks(a, u)

\* A run belongs to an administrator, is about an account of the list it was
\* started from, and leaves out of its own list whoever was an administrator.
RunOK(r) ==
    /\ r.pc \notin {"new", "done"} => r.tab \in Users /\ rank[r.tab] # 0
    /\ r.pc \in {"asked", "applied", "answered", "failed"} =>
         r.action \in Actions /\ r.user \in Users /\ Outranks(r.tab, r.user)
    /\ r.pc \in {"pages", "listed"} => \A u \in Users \ r.admins : Outranks(r.tab, u)
    /\ r.pc = "pages" => r.page \in 1..Len(Pages)

\* Between the change of an account and its row, unless changes crossed, one
\* run is about the account, and its action is what the account is.
Trail ==
    /\ \A u \in Users \ crossed : \A j, k \in Jobs :
         /\ job[j].pc = "applied" /\ job[j].user = u
         /\ job[k].pc = "applied" /\ job[k].user = u
         => j = k
    /\ \A j \in Jobs :
         job[j].pc = "applied" /\ job[j].user \notin crossed =>
           (job[j].user \in banned <=> job[j].action = "suspend")
    /\ TrailAgrees

Inv ==
    /\ TypeOK
    /\ Ranked
    /\ \A a \in Users : PageOK(a, tab[a])
    /\ \A j \in Jobs : RunOK(job[j])
    /\ SuspendedByElder
    /\ Trail

\* The trail does not tell the runs apart.
Alike(r, s) ==
    /\ r.pc = "applied" <=> s.pc = "applied"
    /\ s.pc = "applied" => r.user = s.user /\ r.action = s.action

-----------------------------------------------------------------------------
LEMMA AdminInit == Init => Inv
  <1> SUFFICES ASSUME Init PROVE Inv
    OBVIOUS
  <1>0. FirstAdmin \in Users /\ Failures \in Nat
    BY FirstAdminIsUser, FailuresIsNat
  <1>1. NewJob \in Job
    BY DEF NewJob, Job
  <1>2. TypeOK
    <2>1. rank \in [Users -> Nat] /\ audit \in [Users -> Actions \cup {"none"}]
      BY DEF Init
    <2>2. tab \in [Users -> Tab]
      BY DEF Init, Tab
    <2>3. list \in [Users -> List]
      BY DEF Init, List
    <2>4. job \in [Jobs -> Job]
      BY <1>1 DEF Init
    <2>5. writer \in [Users -> Users \cup {Nobody}]
      BY DEF Init
    <2>6. granted \in Nat /\ banned \subseteq Users /\ crossed \subseteq Users
          /\ broken \in 0..Failures
      BY <1>0 DEF Init
    <2> QED BY <2>1, <2>2, <2>3, <2>4, <2>5, <2>6 DEF TypeOK
  <1>3. Ranked
    BY <1>0 DEF Init, Ranked
  <1>4. ASSUME NEW a \in Users PROVE PageOK(a, tab[a])
    BY DEF Init, PageOK
  <1>5. ASSUME NEW j \in Jobs PROVE job[j].pc = "new" /\ RunOK(job[j])
    BY DEF Init, RunOK, NewJob
  <1>6. banned = {} /\ \A u \in Users : audit[u] # "suspend"
    BY DEF Init
  <1>7. SuspendedByElder
    BY <1>6 DEF SuspendedByElder
  <1>8. Trail
    BY <1>5, <1>6 DEF Trail, TrailAgrees
  <1> QED BY <1>2, <1>3, <1>4, <1>5, <1>7, <1>8 DEF Inv

\* One run goes on; its page may change with it.
LEMMA RunGoesOn ==
        ASSUME Inv, NEW j \in Jobs, NEW r \in Job,
               job' = [job EXCEPT ![j] = r], rank' = rank, RunOK(r)
        PROVE  /\ job' \in [Jobs -> Job] /\ job'[j] = r
               /\ \A k \in Jobs \ {j} : job'[k] = job[k]
               /\ \A k \in Jobs : RunOK(job[k])'
  <1>1. job \in [Jobs -> Job] /\ \A k \in Jobs : RunOK(job[k])
    BY DEF Inv, TypeOK
  <1>2. job' \in [Jobs -> Job] /\ job'[j] = r /\ \A k \in Jobs \ {j} : job'[k] = job[k]
    BY <1>1
  <1>3. ASSUME NEW k \in Jobs PROVE RunOK(job[k])'
    <2>1. CASE k = j
      BY <1>2, <2>1 DEF RunOK, Outranks
    <2>2. CASE k # j
      BY <1>1, <1>2, <2>2 DEF RunOK, Outranks
    <2> QED BY <2>1, <2>2
  <1> QED BY <1>2, <1>3

LEMMA TrailIsKept ==
        ASSUME Trail, UNCHANGED <<banned, audit, crossed>>,
               \A k \in Jobs : Alike(job'[k], job[k])
        PROVE  Trail'
  <1>1. ASSUME NEW u \in Users \ crossed, NEW j \in Jobs, NEW k \in Jobs,
               job'[j].pc = "applied", job'[j].user = u,
               job'[k].pc = "applied", job'[k].user = u
        PROVE  j = k
    BY <1>1 DEF Trail, Alike
  <1>2. ASSUME NEW j \in Jobs, job'[j].pc = "applied", job'[j].user \notin crossed
        PROVE  job'[j].user \in banned <=> job'[j].action = "suspend"
    BY <1>2 DEF Trail, Alike
  <1>3. ASSUME NEW u \in Users \ crossed,
               \A j \in Jobs : job'[j].user = u => job'[j].pc # "applied"
        PROVE  u \in banned <=> audit[u] = "suspend"
    <2>1. \A j \in Jobs : job[j].user = u => job[j].pc # "applied"
      BY <1>3 DEF Alike
    <2> QED BY <2>1 DEF Trail, TrailAgrees
  <1>4. TrailAgrees'
    BY <1>3 DEF TrailAgrees
  <1> QED BY <1>1, <1>2, <1>4 DEF Trail

\* One page changes.
LEMMA PageGoesOn ==
        ASSUME Inv, NEW a \in Users, NEW t \in Tab,
               tab' = [tab EXCEPT ![a] = t], rank' = rank, PageOK(a, t)
        PROVE  tab' \in [Users -> Tab] /\ \A b \in Users : PageOK(b, tab[b])'
  <1>1. tab \in [Users -> Tab] /\ \A b \in Users : PageOK(b, tab[b])
    BY DEF Inv, TypeOK
  <1>2. tab' \in [Users -> Tab] /\ tab'[a] = t /\ \A b \in Users \ {a} : tab'[b] = tab[b]
    BY <1>1
  <1>3. ASSUME NEW b \in Users PROVE PageOK(b, tab[b])'
    <2>1. CASE b = a
      BY <1>2, <2>1 DEF PageOK, Outranks
    <2>2. CASE b # a
      BY <1>1, <1>2, <2>2 DEF PageOK, Outranks
    <2> QED BY <2>1, <2>2
  <1> QED BY <1>2, <1>3

\* A run and its page go on, and the tables stay.
LEMMA OffTables ==
        ASSUME Inv, UNCHANGED tables,
               NEW j \in Jobs, NEW r \in Job, RunOK(r), Alike(r, job[j]),
               job' = [job EXCEPT ![j] = r],
               NEW a \in Users, NEW t \in Tab, PageOK(a, t),
               tab' = [tab EXCEPT ![a] = t],
               list' \in [Users -> List], broken' \in 0..Failures
        PROVE  Inv'
  <1>1. UNCHANGED <<rank, granted, banned, audit, writer, crossed>>
    BY DEF tables
  <1>2. /\ job' \in [Jobs -> Job] /\ job'[j] = r
        /\ \A k \in Jobs \ {j} : job'[k] = job[k]
        /\ \A k \in Jobs : RunOK(job[k])'
    BY <1>1, RunGoesOn
  <1>3. tab' \in [Users -> Tab] /\ \A b \in Users : PageOK(b, tab[b])'
    BY <1>1, PageGoesOn
  <1>4. TypeOK'
    BY <1>1, <1>2, <1>3 DEF Inv, TypeOK
  <1>5. Ranked' /\ SuspendedByElder'
    BY <1>1 DEF Inv, Ranked, SuspendedByElder, Outranks
  <1>6. \A k \in Jobs : Alike(job'[k], job[k])
    BY <1>2 DEF Alike
  <1>7. Trail'
    BY <1>1, <1>6, TrailIsKept DEF Inv
  <1> QED BY <1>2, <1>3, <1>4, <1>5, <1>7 DEF Inv

\* An answer ends a run, or lists again.
LEMMA PageSteps ==
        ASSUME Inv, NEW j \in Jobs,
               \/ TakeAnswer(j) \/ Unheard(j) \/ TakeError(j) \/ TakeList(j) \/ Disconnect(j)
        PROVE  Inv'
  <1>1. /\ job \in [Jobs -> Job] /\ tab \in [Users -> Tab] /\ list \in [Users -> List]
        /\ broken \in 0..Failures
    BY DEF Inv, TypeOK
  <1>2. RunOK(job[j]) /\ \A a \in Users : PageOK(a, tab[a])
    BY DEF Inv
  <1>3. job[j].pc \notin {"new", "done"} /\ job[j].tab \in Users /\ rank[job[j].tab] # 0
    BY <1>2 DEF TakeAnswer, Unheard, TakeError, TakeList, Disconnect, RunOK
  <1> DEFINE a == job[j].tab
             over == [NewJob EXCEPT !.pc = "done"]
  <1>4. over \in Job /\ RunOK(over) /\ over.pc = "done"
    BY DEF NewJob, Job, RunOK
  <1>5. tab = [tab EXCEPT ![a] = tab[a]] /\ tab[a] \in Tab /\ PageOK(a, tab[a])
    BY <1>1, <1>2, <1>3
  <1>6. CASE TakeAnswer(j)
    <2> DEFINE r == [job[j] EXCEPT !.pc = "tables", !.nth = list[a].begun + 1]
               t == [tab[a] EXCEPT !.loading = TRUE, !.error = FALSE]
    <2>1. job' = [job EXCEPT ![j] = r] /\ tab' = [tab EXCEPT ![a] = t]
      BY <1>6 DEF TakeAnswer, Refresh
    <2>2. r \in Job
      <3>1. list[a].begun + 1 \in Nat
        BY <1>1, <1>3 DEF List
      <3> QED BY <1>1, <3>1 DEF Job
    <2>3. t \in Tab /\ PageOK(a, t)
      BY <1>5 DEF Tab, PageOK
    <2>4. RunOK(r)
      BY <1>3, <2>2 DEF RunOK, Job
    <2>5. Alike(r, job[j])
      BY <1>6, <1>1 DEF TakeAnswer, Alike, Job
    <2>6. list' \in [Users -> List] /\ UNCHANGED <<tables, broken>>
      BY <1>1, <1>3, <1>6 DEF TakeAnswer, Refresh, List
    <2> HIDE DEF r, t, a
    <2> QED BY <1>1, <1>3, <2>1, <2>2, <2>3, <2>4, <2>5, <2>6, OffTables DEF a
  <1>7. CASE Unheard(j)
    <2>1. job' = [job EXCEPT ![j] = over] /\ tab' = [tab EXCEPT ![a] = tab[a]]
          /\ UNCHANGED <<tables, list, broken>> /\ Alike(over, job[j])
      BY <1>4, <1>5, <1>7 DEF Unheard, Alike
    <2> HIDE DEF over, a
    <2> QED BY <1>1, <1>3, <1>4, <1>5, <2>1, OffTables DEF a
  <1>8. CASE TakeError(j)
    <2> DEFINE t == [tab[a] EXCEPT
                       !.error = TRUE, !.loading = @ /\ job[j].pc # "unlisted",
                       !.busy = IF job[j].user = Nobody THEN @ ELSE Nobody]
    <2>1. tab' = [tab EXCEPT ![a] = t] /\ job' = [job EXCEPT ![j] = over]
      BY <1>8, <1>5 DEF TakeError, Over, Tab
    <2>2. t \in Tab /\ PageOK(a, t)
      BY <1>5 DEF Tab, PageOK
    <2>3. UNCHANGED <<tables, list, broken>> /\ Alike(over, job[j])
      BY <1>4, <1>8 DEF TakeError, Alike
    <2> HIDE DEF over, t, a
    <2> QED BY <1>1, <1>3, <1>4, <2>1, <2>2, <2>3, OffTables DEF a
  <1>9. CASE TakeList(j)
    <2> DEFINE t == [tab[a] EXCEPT
                       !.shown = [u \in Users |-> Listed(job[j], u)], !.loading = FALSE,
                       !.busy = IF job[j].user = Nobody THEN @ ELSE Nobody]
    <2>1. tab' = [tab EXCEPT ![a] = t] /\ job' = [job EXCEPT ![j] = over]
      BY <1>9, <1>5 DEF TakeList, Over, Tab
    <2>2. \A u \in Users : Listed(job[j], u) # "absent" => Outranks(a, u)
      BY <1>2, <1>9 DEF TakeList, Listed, RunOK
    <2>3. t \in Tab
      BY <1>5 DEF Tab, Listed
    <2>4. PageOK(a, t)
      BY <1>5, <2>2 DEF Tab, PageOK
    <2>5. list' \in [Users -> List]
      BY <1>1, <1>3, <1>9 DEF TakeList, List, Job
    <2>6. UNCHANGED <<tables, broken>> /\ Alike(over, job[j])
      BY <1>4, <1>9 DEF TakeList, Alike
    <2> HIDE DEF over, t, a
    <2> QED BY <1>1, <1>3, <1>4, <2>1, <2>3, <2>4, <2>5, <2>6, OffTables DEF a
  <1>10. CASE Disconnect(j)
    <2> DEFINE r == [job[j] EXCEPT !.heard = FALSE]
    <2>1. job' = [job EXCEPT ![j] = r] /\ tab' = [tab EXCEPT ![a] = tab[a]]
          /\ UNCHANGED tables
      BY <1>1, <1>5, <1>10 DEF Disconnect
    <2>2. r \in Job /\ Alike(r, job[j])
      BY <1>1 DEF Job, Alike
    <2>3. RunOK(r)
      BY <1>1, <1>2 DEF RunOK, Job
    <2>4. list' \in [Users -> List] /\ broken' \in 0..Failures
      <3>1. job[j].user \in Users
        BY <1>2, <1>10 DEF Disconnect, RunOK
      <3>2. list' \in [Users -> List]
        BY <1>1, <1>3, <1>10, <3>1 DEF Disconnect, List
      <3> QED BY <1>1, <1>10, <3>2, FailuresIsNat DEF Disconnect, Fail
    <2> HIDE DEF r, a
    <2> QED BY <1>1, <1>3, <1>5, <2>1, <2>2, <2>3, <2>4, OffTables DEF a
  <1> QED BY <1>6, <1>7, <1>8, <1>9, <1>10

\* A click, and a list, begin from a page that is open.
LEMMA BeginSteps ==
        ASSUME Inv, NEW j \in Jobs, NEW a \in Users,
               OpenPage(j, a) \/ \E u \in Users : Click(j, a, u)
        PROVE  Inv'
  <1>1. /\ job \in [Jobs -> Job] /\ tab \in [Users -> Tab] /\ list \in [Users -> List]
        /\ broken \in 0..Failures
    BY DEF Inv, TypeOK
  <1>2. tab[a] \in Tab /\ PageOK(a, tab[a]) /\ list[a].begun + 1 \in Nat
    BY <1>1 DEF Inv, List
  <1>3. job[j].pc = "new" /\ UNCHANGED <<tables, broken>>
    BY DEF OpenPage, Click
  <1>4. CASE OpenPage(j, a)
    <2> DEFINE r == [[NewJob EXCEPT !.tab = a] EXCEPT
                        !.pc = "tables", !.nth = list[a].begun + 1]
               t == [[tab[a] EXCEPT !.open = TRUE] EXCEPT !.loading = TRUE, !.error = FALSE]
    <2>1. job' = [job EXCEPT ![j] = r] /\ tab' = [tab EXCEPT ![a] = t] /\ rank[a] # 0
      BY <1>4 DEF OpenPage, Refresh
    <2>2. r \in Job /\ RunOK(r)
      BY <1>2, <2>1 DEF NewJob, Job, RunOK
    <2>3. t \in Tab /\ PageOK(a, t)
      BY <1>2, <2>1 DEF Tab, PageOK
    <2>4. Alike(r, job[j])
      BY <1>3 DEF Alike, NewJob
    <2>5. list' \in [Users -> List]
      BY <1>1, <1>2, <1>4 DEF OpenPage, Refresh, List
    <2> HIDE DEF r, t
    <2> QED BY <1>1, <1>3, <2>1, <2>2, <2>3, <2>4, <2>5, OffTables
  <1>5. ASSUME NEW u \in Users, Click(j, a, u) PROVE Inv'
    <2>1. PICK act \in Actions :
            job' = [job EXCEPT ![j] = [NewJob EXCEPT !.pc = "asked", !.tab = a, !.user = u,
                                                     !.action = act]]
      BY <1>5 DEF Click, Actions
    <2> DEFINE r == [NewJob EXCEPT !.pc = "asked", !.tab = a, !.user = u, !.action = act]
               t == [tab[a] EXCEPT !.busy = u, !.error = FALSE]
    <2>2. tab' = [tab EXCEPT ![a] = t] /\ UNCHANGED list
      BY <1>5 DEF Click
    <2>3. Outranks(a, u) /\ rank[a] # 0
      BY <1>2, <1>5 DEF Click, PageOK
    <2>4. r \in Job /\ RunOK(r)
      BY <2>3 DEF NewJob, Job, RunOK
    <2>5. t \in Tab /\ PageOK(a, t)
      BY <1>2 DEF Tab, PageOK
    <2>6. Alike(r, job[j])
      BY <1>3 DEF Alike, NewJob
    <2>7. job' = [job EXCEPT ![j] = r]
      BY <2>1
    <2> HIDE DEF r, t
    <2> QED BY <1>1, <1>3, <2>2, <2>4, <2>5, <2>6, <2>7, OffTables
  <1> QED BY <1>4, <1>5

\* admin-list-developers only reads.
LEMMA ListSteps ==
        ASSUME Inv, NEW j \in Jobs, ReadTables(j) \/ ReadPage(j) \/ LoseList(j)
        PROVE  Inv'
  <1>1. /\ job \in [Jobs -> Job] /\ tab \in [Users -> Tab] /\ list \in [Users -> List]
        /\ broken \in 0..Failures /\ banned \subseteq Users
    BY DEF Inv, TypeOK
  <1>2. RunOK(job[j]) /\ \A a \in Users : PageOK(a, tab[a])
    BY DEF Inv
  <1>3. /\ job[j].pc \in {"tables", "pages", "listed"} /\ job[j].tab \in Users
        /\ rank[job[j].tab] # 0 /\ UNCHANGED <<tables, tab, list>>
    BY <1>2 DEF ReadTables, ReadPage, LoseList, RunOK
  <1>4. broken' \in 0..Failures
    BY <1>1, FailuresIsNat DEF ReadTables, ReadPage, LoseList, Fail
  <1>5. tab' = [tab EXCEPT ![job[j].tab] = tab[job[j].tab]] /\ tab[job[j].tab] \in Tab
        /\ PageOK(job[j].tab, tab[job[j].tab])
    BY <1>1, <1>2, <1>3
  <1>6. ASSUME NEW r \in Job, RunOK(r), job' = [job EXCEPT ![j] = r], r.pc # "applied"
        PROVE  Inv'
    <2>1. Alike(r, job[j])
      BY <1>3, <1>6 DEF Alike
    <2> QED BY <1>1, <1>3, <1>4, <1>5, <1>6, <2>1, OffTables
  <1>7. ASSUME NEW r \in Job, job' = [job EXCEPT ![j] = r],
               \E pc \in {"listed", "unlisted"} : r = [job[j] EXCEPT !.pc = pc],
               r.pc = "listed" => job[j].pc = "pages"
        PROVE  Inv'
    <2>1. RunOK(r) /\ r.pc # "applied"
      BY <1>1, <1>2, <1>3, <1>7 DEF RunOK, Job
    <2> QED BY <1>6, <1>7, <2>1
  <1>8. CASE ReadTables(j)
    <2>1. CASE job' = [job EXCEPT ![j].pc = "unlisted"]
      <3> DEFINE r == [job[j] EXCEPT !.pc = "unlisted"]
      <3>1. r \in Job /\ r.pc = "unlisted" /\ job' = [job EXCEPT ![j] = r]
        BY <1>1, <2>1 DEF Job
      <3> QED BY <1>7, <3>1
    <2>2. CASE job' = [job EXCEPT ![j].pc = "pages", ![j].admins = AdminIds, ![j].page = 1]
      <3> DEFINE r == [job[j] EXCEPT !.pc = "pages", !.admins = AdminIds, !.page = 1]
      <3>1. job' = [job EXCEPT ![j] = r]
        BY <1>1, <2>2
      <3>2. r \in Job /\ r.pc = "pages" /\ r.page = 1 /\ r.admins = AdminIds
            /\ r.tab = job[j].tab
        BY <1>1 DEF Job, AdminIds
      <3>3. 1 \in 1..Len(Pages)
        BY PagesHoldUsers
      <3>4. \A u \in Users \ AdminIds : Outranks(r.tab, u)
        BY <1>3, <3>2 DEF AdminIds, Outranks
      <3>5. RunOK(r)
        BY <1>3, <3>2, <3>3, <3>4 DEF RunOK
      <3> HIDE DEF r
      <3> QED BY <1>6, <3>1, <3>2, <3>5
    <2> QED BY <1>8, <2>1, <2>2 DEF ReadTables
  <1>9. CASE ReadPage(j)
    <2>1. CASE job' = [job EXCEPT ![j].pc = "listed"]
      <3> DEFINE r == [job[j] EXCEPT !.pc = "listed"]
      <3>1. r \in Job /\ job' = [job EXCEPT ![j] = r]
        BY <1>1, <2>1 DEF Job
      <3> QED BY <1>7, <1>9, <3>1 DEF ReadPage
    <2>2. CASE job' = [job EXCEPT
                   ![j].read = @ \cup Pages[job[j].page],
                   ![j].bans = Found(job[j], job[j].page),
                   ![j].page = IF LastPage(job[j].page) THEN job[j].page ELSE job[j].page + 1,
                   ![j].pc = IF LastPage(job[j].page) THEN "listed" ELSE "pages"]
      <3> DEFINE p == job[j].page
                 q == IF LastPage(p) THEN p ELSE p + 1
                 r == [job[j] EXCEPT !.read = @ \cup Pages[p], !.bans = Found(job[j], p),
                         !.page = q, !.pc = IF LastPage(p) THEN "listed" ELSE "pages"]
      <3>1. job[j].pc = "pages" /\ p \in 1..Len(Pages)
        BY <1>2, <1>9 DEF ReadPage, RunOK
      <3>2. Pages[p] \in SUBSET Users /\ Len(Pages) \in Nat
        BY <3>1, PagesHoldUsers
      <3>3. q \in Nat /\ (~LastPage(p) => q \in 1..Len(Pages))
        BY <3>1, <3>2 DEF LastPage
      <3>4. Found(job[j], p) \in SUBSET Users
        BY <1>1, <3>2 DEF Found, Job
      <3>5. job' = [job EXCEPT ![j] = r]
        BY <1>1, <2>2
      <3> HIDE DEF q
      <3>6. r \in Job /\ r.page = q /\ r.tab = job[j].tab /\ r.admins = job[j].admins
            /\ r.pc = IF LastPage(p) THEN "listed" ELSE "pages"
        BY <1>1, <3>2, <3>3, <3>4 DEF Job
      <3> HIDE DEF r, p
      <3>7. RunOK(r)
        BY <1>2, <1>3, <3>1, <3>3, <3>6 DEF RunOK
      <3> QED BY <1>6, <3>5, <3>6, <3>7
    <2> QED BY <1>9, <2>1, <2>2 DEF ReadPage
  <1>10. CASE LoseList(j)
    <2> DEFINE r == [job[j] EXCEPT !.pc = "unlisted"]
    <2>1. r \in Job /\ r.pc = "unlisted" /\ job' = [job EXCEPT ![j] = r]
      BY <1>1, <1>10 DEF Job, LoseList
    <2> QED BY <1>7, <2>1
  <1> QED BY <1>8, <1>9, <1>10

\* Whoever becomes an administrator now comes after all the others.
LEMMA GrantStep ==
        ASSUME Inv, NEW b \in Users, NEW n \in Users, Grant(b, n)
        PROVE  Inv'
  <1>1. /\ rank \in [Users -> Nat] /\ granted \in Nat
        /\ \A u \in Users : rank[u] <= granted
    BY DEF Inv, TypeOK, Ranked
  <1>2. /\ rank[n] = 0 /\ granted' = granted + 1
        /\ rank' = [rank EXCEPT ![n] = granted + 1]
        /\ UNCHANGED <<banned, audit, tab, job, list, writer, crossed, broken>>
    BY DEF Grant
  <1>3. rank'[n] = granted + 1 /\ \A u \in Users \ {n} : rank'[u] = rank[u]
    BY <1>1, <1>2
  <1>4. ASSUME NEW a \in Users, NEW u \in Users, Outranks(a, u) PROVE Outranks(a, u)'
    BY <1>1, <1>2, <1>3, <1>4 DEF Outranks
  <1>5. ASSUME NEW a \in Users, rank[a] # 0 PROVE rank'[a] # 0
    BY <1>1, <1>3, <1>5
  <1>6. TypeOK'
    BY <1>1, <1>2 DEF Inv, TypeOK
  <1>7. Ranked'
    <2>1. FirstAdmin # n /\ rank[FirstAdmin] = 1 /\ FirstAdmin \in Users
      BY <1>2, FirstAdminIsUser DEF Inv, Ranked
    <2>2. \A u \in Users : rank'[u] <= granted'
      BY <1>1, <1>2, <1>3
    <2> QED BY <1>1, <1>2, <1>3, <2>1, <2>2 DEF Ranked
  <1>8. ASSUME NEW a \in Users PROVE PageOK(a, tab[a])'
    BY <1>2, <1>4, <1>5 DEF Inv, PageOK
  <1>9. ASSUME NEW j \in Jobs PROVE RunOK(job[j])'
    <2>1. RunOK(job[j]) /\ job'[j] = job[j]
      BY <1>2 DEF Inv
    <2>2. job[j].pc \notin {"new", "done"} => job[j].tab \in Users /\ rank'[job[j].tab] # 0
      BY <2>1, <1>5 DEF RunOK
    <2>3. job[j].pc \in {"asked", "applied", "answered", "failed"} =>
            job[j].user \in Users /\ Outranks(job[j].tab, job[j].user)'
      BY <1>2, <2>1, <2>2, <1>4 DEF RunOK
    <2>4. job[j].pc \in {"pages", "listed"} =>
            \A u \in Users \ job[j].admins : Outranks(job[j].tab, u)'
      BY <1>2, <2>1, <2>2, <1>4 DEF RunOK
    <2> QED BY <1>2, <2>1, <2>2, <2>3, <2>4 DEF RunOK
  <1>10. SuspendedByElder'
    <2> SUFFICES ASSUME NEW u \in banned PROVE writer[u] \in Users /\ Outranks(writer[u], u)'
      BY <1>2 DEF SuspendedByElder, Outranks
    <2>1. u \in Users /\ writer[u] \in Users /\ Outranks(writer[u], u)
      BY DEF Inv, TypeOK, SuspendedByElder
    <2> QED BY <1>2, <1>4, <2>1
  <1>11. Trail'
    BY <1>2, TrailIsKept DEF Inv, Alike
  <1> QED BY <1>6, <1>7, <1>8, <1>9, <1>10, <1>11 DEF Inv

\* A run of admin-suspend-user moves on, with the tables it writes.
LEMMA OnTables ==
        ASSUME Inv, NEW j \in Jobs, job[j].pc \in {"asked", "applied"},
               NEW pc \in {"applied", "answered", "failed"},
               job' = [job EXCEPT ![j].pc = pc],
               UNCHANGED <<rank, granted, tab>>
        PROVE  /\ job' \in [Jobs -> Job] /\ job'[j] = [job[j] EXCEPT !.pc = pc]
               /\ job'[j].pc = pc
               /\ \A k \in Jobs \ {j} : job'[k] = job[k]
               /\ \A k \in Jobs : RunOK(job[k])'
               /\ \A a \in Users : PageOK(a, tab[a])'
               /\ Ranked'
               /\ job[j].user \in Users /\ job[j].tab \in Users /\ job[j].action \in Actions
               /\ Outranks(job[j].tab, job[j].user)
  <1> DEFINE r == [job[j] EXCEPT !.pc = pc]
  <1>1. job \in [Jobs -> Job] /\ RunOK(job[j]) /\ \A a \in Users : PageOK(a, tab[a])
    BY DEF Inv, TypeOK
  <1>2. r \in Job /\ r.pc = pc /\ job' = [job EXCEPT ![j] = r]
    BY <1>1 DEF Job
  <1>3. job[j].user \in Users /\ job[j].tab \in Users /\ job[j].action \in Actions
        /\ rank[job[j].tab] # 0 /\ Outranks(job[j].tab, job[j].user)
    BY <1>1 DEF RunOK
  <1>4. RunOK(r)
    BY <1>1, <1>2, <1>3 DEF RunOK, Job
  <1>5. /\ job' \in [Jobs -> Job] /\ job'[j] = r
        /\ \A k \in Jobs \ {j} : job'[k] = job[k]
        /\ \A k \in Jobs : RunOK(job[k])'
    <2> HIDE DEF r
    <2> QED BY <1>2, <1>4, RunGoesOn
  <1>6. \A a \in Users : PageOK(a, tab[a])'
    BY <1>1 DEF PageOK, Outranks
  <1>7. Ranked'
    BY DEF Inv, Ranked
  <1> QED BY <1>2, <1>3, <1>5, <1>6, <1>7

LEMMA ChangeStep == ASSUME Inv, NEW j \in Jobs, Change(j) PROVE Inv'
  <1> DEFINE u == job[j].user
  <1>1. job[j].pc = "asked" /\ UNCHANGED <<rank, granted, audit, tab>>
    BY DEF Change
  <1>2. ASSUME NEW pc \in {"applied", "failed"},
               banned' = IF job[j].action = "suspend" THEN banned \cup {u} ELSE banned \ {u},
               writer' = [writer EXCEPT ![u] = job[j].tab],
               crossed \subseteq crossed', crossed' \subseteq crossed \cup {u},
               u \notin crossed' => pc = "applied" /\ \A k \in Jobs :
                                      ~(job[k].pc = "applied" /\ job[k].user = u),
               job' = [job EXCEPT ![j].pc = pc],
               list' \in [Users -> List], broken' \in 0..Failures
        PROVE  Inv'
    <2>1. /\ job' \in [Jobs -> Job] /\ job'[j] = [job[j] EXCEPT !.pc = pc]
          /\ job'[j].pc = pc
          /\ \A k \in Jobs \ {j} : job'[k] = job[k]
          /\ \A k \in Jobs : RunOK(job[k])'
          /\ \A a \in Users : PageOK(a, tab[a])'
          /\ Ranked'
          /\ u \in Users /\ job[j].tab \in Users /\ job[j].action \in Actions
          /\ Outranks(job[j].tab, u)
      BY <1>1, <1>2, OnTables
    <2>2. job \in [Jobs -> Job] /\ writer \in [Users -> Users \cup {Nobody}]
          /\ banned \subseteq Users /\ crossed \subseteq Users
      BY DEF Inv, TypeOK
    <2>3. TypeOK'
      BY <1>1, <1>2, <2>1, <2>2 DEF Inv, TypeOK
    <2>4. SuspendedByElder'
      <3> SUFFICES ASSUME NEW w \in banned'
                   PROVE  writer'[w] \in Users /\ Outranks(writer'[w], w)
        BY <1>1 DEF SuspendedByElder, Outranks
      <3>1. CASE w = u
        BY <1>2, <2>1, <2>2, <3>1
      <3>2. CASE w # u
        <4>1. w \in banned /\ writer'[w] = writer[w]
          BY <1>2, <2>2, <3>2
        <4> QED BY <4>1 DEF Inv, SuspendedByElder
      <3> QED BY <3>1, <3>2
    <2>5. job'[j].user = u /\ job'[j].action = job[j].action
      BY <2>1, <2>2 DEF Job
    <2>6. \A w \in Users \ {u} :
             (w \in banned' <=> w \in banned) /\ (w \in crossed' <=> w \in crossed)
      BY <1>2
    <2>7. u \notin crossed' => pc = "applied" /\ \A k \in Jobs \ {j} : job'[k].pc = "applied" => job'[k].user # u
      BY <1>2, <2>1
    <2>8. u \in banned' <=> job[j].action = "suspend"
      BY <1>2
    <2>9. ASSUME NEW w \in Users \ crossed', NEW i \in Jobs, NEW k \in Jobs,
                 job'[i].pc = "applied", job'[i].user = w,
                 job'[k].pc = "applied", job'[k].user = w
          PROVE  i = k
      <3>1. CASE w = u
        BY <2>7, <2>9, <3>1
      <3>2. CASE w # u
        <4>1. i # j /\ k # j /\ w \notin crossed
          BY <2>5, <2>6, <2>9, <3>2
        <4> QED BY <2>1, <2>9, <4>1 DEF Inv, Trail
      <3> QED BY <3>1, <3>2
    <2>10. ASSUME NEW k \in Jobs, job'[k].pc = "applied", job'[k].user \notin crossed'
           PROVE  job'[k].user \in banned' <=> job'[k].action = "suspend"
      <3>1. CASE k = j
        BY <2>5, <2>8, <3>1
      <3>2. CASE k # j
        <4>1. job'[k] = job[k] /\ job[k].user # u /\ job[k].user \notin crossed
          BY <1>2, <2>1, <2>7, <2>10, <3>2
        <4>2. job[k].user \in Users
          BY <2>10, <4>1 DEF Inv, RunOK
        <4>3. job[k].user \in banned <=> job[k].action = "suspend"
          BY <2>10, <4>1 DEF Inv, Trail
        <4> QED BY <2>6, <4>1, <4>2, <4>3
      <3> QED BY <3>1, <3>2
    <2>11. TrailAgrees'
      <3> SUFFICES ASSUME NEW w \in Users \ crossed',
                          \A k \in Jobs : job'[k].user = w => job'[k].pc # "applied"
                   PROVE  w \in banned' <=> audit[w] = "suspend"
        BY <1>1 DEF TrailAgrees
      <3>1. w # u
        BY <2>1, <2>5, <2>7
      <3>2. \A k \in Jobs : job[k].user = w => job[k].pc # "applied"
        BY <1>1, <2>1
      <3>3. w \in banned <=> audit[w] = "suspend"
        <4>1. w \notin crossed
          BY <2>6, <3>1
        <4> QED BY <3>2, <4>1 DEF Inv, Trail, TrailAgrees
      <3> QED BY <2>6, <3>1, <3>3
    <2>12. Trail'
      BY <2>9, <2>10, <2>11 DEF Trail
    <2> QED BY <2>1, <2>3, <2>4, <2>12 DEF Inv
  <1>3. CASE /\ job' = [job EXCEPT ![j].pc = "failed"]
             /\ UNCHANGED <<banned, writer, crossed, list>>
             /\ broken' \in 0..Failures
    <2>1. /\ job' \in [Jobs -> Job] /\ job'[j].pc = "failed"
          /\ \A k \in Jobs \ {j} : job'[k] = job[k]
          /\ \A k \in Jobs : RunOK(job[k])'
          /\ \A a \in Users : PageOK(a, tab[a])'
          /\ Ranked'
      BY <1>1, <1>3, OnTables
    <2>2. TypeOK'
      BY <1>1, <1>3, <2>1 DEF Inv, TypeOK
    <2>3. SuspendedByElder'
      BY <1>1, <1>3 DEF Inv, SuspendedByElder, Outranks
    <2>4. \A k \in Jobs : Alike(job'[k], job[k])
      BY <1>1, <2>1 DEF Alike
    <2>5. Trail'
      BY <1>1, <1>3, <2>4, TrailIsKept DEF Inv
    <2> QED BY <2>1, <2>2, <2>3, <2>5 DEF Inv
  <1>4. broken \in 0..Failures /\ (Fail => broken' \in 0..Failures)
    BY FailuresIsNat DEF Inv, TypeOK, Fail
  <1>5. list \in [Users -> List] /\ u \in Users /\ job[j].tab \in Users
    BY <1>1 DEF Inv, TypeOK, RunOK
  <1>6. [list EXCEPT ![job[j].tab].lost = @ \cup {u}] \in [Users -> List]
    BY <1>5 DEF List
  <1>7. CASE /\ Applied(j) /\ job' = [job EXCEPT ![j].pc = "applied"]
             /\ crossed' = IF \E k \in Jobs : job[k].pc = "applied" /\ job[k].user = u
                           THEN crossed \cup {u} ELSE crossed
             /\ UNCHANGED <<list, broken>>
    BY <1>2, <1>4, <1>5, <1>7 DEF Applied
  <1>8. CASE /\ Applied(j) /\ job' = [job EXCEPT ![j].pc = "failed"]
             /\ crossed' = crossed \cup {u} /\ Fail
             /\ list' = [list EXCEPT ![job[j].tab].lost = @ \cup {u}]
    BY <1>2, <1>4, <1>6, <1>8 DEF Applied
  <1> QED BY <1>3, <1>4, <1>7, <1>8 DEF Change

LEMMA AuditStep == ASSUME Inv, NEW j \in Jobs, Audit(j) PROVE Inv'
  <1> DEFINE u == job[j].user
  <1>1. /\ job[j].pc = "applied" /\ job' = [job EXCEPT ![j].pc = "answered"]
        /\ UNCHANGED <<rank, granted, banned, tab, list, writer>>
    BY DEF Audit
  <1>2. /\ job' \in [Jobs -> Job] /\ job'[j].pc = "answered"
        /\ \A k \in Jobs \ {j} : job'[k] = job[k]
        /\ \A k \in Jobs : RunOK(job[k])'
        /\ \A a \in Users : PageOK(a, tab[a])'
        /\ Ranked'
        /\ u \in Users /\ job[j].action \in Actions
    BY <1>1, OnTables
  <1>3. /\ crossed \subseteq Users /\ audit \in [Users -> Actions \cup {"none"}]
        /\ broken \in 0..Failures /\ (Fail => broken' \in 0..Failures)
    BY FailuresIsNat DEF Inv, TypeOK, Fail
  <1>4. \/ audit' = [audit EXCEPT ![u] = job[j].action] /\ crossed' = crossed /\ broken' = broken
        \/ audit' = audit /\ crossed' = crossed \cup {u} /\ Fail
    BY DEF Audit, RowOf
  <1>5. TypeOK'
    <2>1. audit' \in [Users -> Actions \cup {"none"}] /\ crossed' \subseteq Users
          /\ broken' \in 0..Failures
      BY <1>2, <1>3, <1>4
    <2> QED BY <1>1, <1>2, <2>1 DEF Inv, TypeOK
  <1>6. SuspendedByElder'
    BY <1>1 DEF Inv, SuspendedByElder, Outranks
  <1>7. crossed \subseteq crossed'
        /\ \A k \in Jobs : job'[k].pc = "applied" => k # j /\ job'[k] = job[k]
    BY <1>2, <1>4
  <1>8. ASSUME NEW w \in Users \ crossed', NEW i \in Jobs, NEW k \in Jobs,
               job'[i].pc = "applied", job'[i].user = w,
               job'[k].pc = "applied", job'[k].user = w
        PROVE  i = k
    BY <1>7, <1>8 DEF Inv, Trail
  <1>9. ASSUME NEW k \in Jobs, job'[k].pc = "applied", job'[k].user \notin crossed'
        PROVE  job'[k].user \in banned <=> job'[k].action = "suspend"
    BY <1>7, <1>9 DEF Inv, Trail
  <1>10. TrailAgrees'
    <2> SUFFICES ASSUME NEW w \in Users \ crossed',
                        \A k \in Jobs : job'[k].user = w => job'[k].pc # "applied"
                 PROVE  w \in banned <=> audit'[w] = "suspend"
      BY <1>1 DEF TrailAgrees
    <2>1. CASE w = u
      <3>1. audit'[u] = job[j].action /\ u \notin crossed
        BY <1>3, <1>4, <1>7, <2>1
      <3>2. u \in banned <=> job[j].action = "suspend"
        BY <1>1, <3>1 DEF Inv, Trail
      <3> QED BY <2>1, <3>1, <3>2
    <2>2. CASE w # u
      <3>1. audit'[w] = audit[w] /\ w \notin crossed
        BY <1>3, <1>4, <1>7, <2>2
      <3>2. \A k \in Jobs : job[k].user = w => job[k].pc # "applied"
        BY <1>2, <2>2
      <3> QED BY <3>1, <3>2 DEF Inv, Trail, TrailAgrees
    <2> QED BY <2>1, <2>2
  <1>11. Trail'
    BY <1>1, <1>8, <1>9, <1>10 DEF Trail
  <1> QED BY <1>2, <1>5, <1>6, <1>11 DEF Inv

LEMMA AdminStep == Inv /\ [Next]_vars => Inv'
  <1> SUFFICES ASSUME Inv, [Next]_vars PROVE Inv'
    OBVIOUS
  <1>1. ASSUME NEW a \in Users, NEW u \in Users, Grant(a, u) PROVE Inv'
    BY <1>1, GrantStep
  <1>2. ASSUME NEW j \in Jobs, NEW a \in Users,
               OpenPage(j, a) \/ \E u \in Users : Click(j, a, u)
        PROVE  Inv'
    BY <1>2, BeginSteps
  <1>3. ASSUME NEW j \in Jobs,
               \/ TakeAnswer(j) \/ Unheard(j) \/ TakeError(j) \/ TakeList(j) \/ Disconnect(j)
        PROVE  Inv'
    BY <1>3, PageSteps
  <1>4. ASSUME NEW j \in Jobs, ReadTables(j) \/ ReadPage(j) \/ LoseList(j) PROVE Inv'
    BY <1>4, ListSteps
  <1>5. ASSUME NEW j \in Jobs, Change(j) \/ Audit(j) PROVE Inv'
    BY <1>5, ChangeStep, AuditStep
  <1>6. CASE UNCHANGED vars
    BY <1>6, TrailIsKept DEF vars, Inv, TypeOK, Ranked, PageOK, RunOK, Outranks,
         SuspendedByElder, Alike
  <1> QED BY <1>1, <1>2, <1>3, <1>4, <1>5, <1>6 DEF Next, Page, Functions

-----------------------------------------------------------------------------
(***************************************************************************)
(* What a page shows of the accounts its administrator changed.            *)
(*                                                                         *)
(* A change that is applied and whose answer has not been taken is         *)
(* pending: its page will list again, as the newest.  When none is, the    *)
(* newest list of the page began after the change, and so holds the ban as *)
(* it is once it has read the page of accounts the user is on.             *)
(***************************************************************************)
ListPcs == {"tables", "pages", "listed", "unlisted"}
CallPcs == {"asked", "applied", "answered", "failed"}

Pending(a, u) ==
    \E j \in Jobs : job[j].pc \in {"applied", "answered"} /\ job[j].tab = a /\ job[j].user = u

RunsInOrder ==
    /\ \A a \in Users : list[a].last <= list[a].begun
    /\ \A j \in Jobs :
         /\ job[j].pc \in ListPcs => job[j].nth <= list[job[j].tab].begun
         /\ job[j].pc \notin {"pages", "listed", "unlisted"} =>
              job[j].bans = {} /\ job[j].read = {}
         /\ job[j].pc \in CallPcs /\ ~job[j].heard => job[j].user \in list[job[j].tab].lost

\* What a run of the list has read of an account is as it is.
ReadsTruly(r, u) ==
    /\ u \in r.bans => u \in banned
    /\ u \in r.read /\ u \in banned => u \in r.bans

ListsShowChanges ==
    \A a, u \in Users : writer[u] = a /\ u \notin list[a].lost /\ ~Pending(a, u) =>
        /\ \A j \in Jobs :
             job[j].pc \in {"pages", "listed"} /\ job[j].tab = a /\ job[j].nth = list[a].begun
               => ReadsTruly(job[j], u)
        /\ list[a].last = list[a].begun /\ ~list[a].cut
             => tab[a].shown[u] \in {"absent", IF u \in banned THEN "suspended" ELSE "active"}

ShowInv == RunsInOrder /\ ListsShowChanges

LEMMA ShowInit == Init => ShowInv
<1> SUFFICES ASSUME Init PROVE ShowInv
  OBVIOUS
<1>1. \A j \in Jobs : job[j] = NewJob /\ job[j].pc = "new" /\ job[j].bans = {} /\ job[j].read = {}
  BY DEF Init, NewJob
<1>2. \A a \in Users : list[a].last <= list[a].begun
  <2> SUFFICES ASSUME NEW a \in Users PROVE list[a].last <= list[a].begun
    OBVIOUS
  <2>1. list[a] = [begun |-> 0, last |-> 0, cut |-> FALSE, lost |-> {}]
    BY DEF Init
  <2>2. list[a].last = 0 /\ list[a].begun = 0
    BY <2>1
  <2> QED BY <2>2, 0 <= 0
<1>3. \A a, u \in Users : tab[a].shown[u] = "absent"
  BY DEF Init
<1>4. RunsInOrder
  BY <1>1, <1>2 DEF RunsInOrder, ListPcs, CallPcs
<1>5. ListsShowChanges
  BY <1>1, <1>3 DEF ListsShowChanges
<1> QED BY <1>4, <1>5 DEF ShowInv

\* A run goes on that neither changes an account nor shows a list.
LEMMA QuietRunKeeps ==
    ASSUME Inv, ShowInv, NEW j \in Jobs, NEW r \in Job, job' = [job EXCEPT ![j] = r],
           UNCHANGED <<banned, writer>>,
           \A a \in Users : /\ tab'[a].shown = tab[a].shown
                            /\ list'[a].begun = list[a].begun /\ list'[a].last = list[a].last
                            /\ list'[a].cut = list[a].cut
                            /\ list[a].lost \subseteq list'[a].lost,
           job[j].pc \in {"applied", "answered"} =>
             \/ r.pc \in {"applied", "answered"} /\ r.tab = job[j].tab /\ r.user = job[j].user
             \/ job[j].user \in list'[job[j].tab].lost,
           r.pc \in ListPcs =>
             job[j].pc \in ListPcs /\ r.tab = job[j].tab /\ r.tab \in Users /\ r.nth = job[j].nth,
           r.pc \in {"pages", "listed"} =>
             /\ job[j].pc \in {"tables", "pages", "listed"}
             /\ job[j].bans \subseteq r.bans /\ r.bans \subseteq job[j].bans \cup banned
             /\ \A u \in banned : u \in r.read => u \in r.bans \/ u \in job[j].read,
           r.pc \notin {"pages", "listed", "unlisted"} => r.bans = {} /\ r.read = {},
           r.pc \in CallPcs /\ ~r.heard => r.user \in list'[r.tab].lost
    PROVE  ShowInv'
<1>1. /\ job'[j] = r /\ \A k \in Jobs \ {j} : job'[k] = job[k]
  BY DEF Inv, TypeOK
<1>2. \A k \in Jobs : job[k].pc \notin {"new", "done"} => job[k].tab \in Users
  BY DEF Inv, RunOK
<1>3. RunsInOrder'
  <2>1. \A a \in Users : list'[a].last <= list'[a].begun
    BY DEF ShowInv, RunsInOrder
  <2>2. ASSUME NEW k \in Jobs
        PROVE  /\ job'[k].pc \in ListPcs => job'[k].nth <= list'[job'[k].tab].begun
               /\ job'[k].pc \notin {"pages", "listed", "unlisted"} =>
                    job'[k].bans = {} /\ job'[k].read = {}
               /\ job'[k].pc \in CallPcs /\ ~job'[k].heard => job'[k].user \in list'[job'[k].tab].lost
    <3>1. CASE k = j
      BY <1>1, <3>1 DEF ShowInv, RunsInOrder
    <3>2. CASE k # j
      BY <1>1, <1>2, <3>2 DEF ShowInv, RunsInOrder, ListPcs, CallPcs
    <3> QED BY <3>1, <3>2
  <2> QED BY <2>1, <2>2 DEF RunsInOrder
<1>4. ASSUME NEW a \in Users, NEW u \in Users, u \notin list'[a].lost, Pending(a, u)
      PROVE  Pending(a, u)'
  <2>1. PICK k \in Jobs : job[k].pc \in {"applied", "answered"} /\ job[k].tab = a /\ job[k].user = u
    BY <1>4 DEF Pending
  <2>2. job'[k].pc \in {"applied", "answered"} /\ job'[k].tab = a /\ job'[k].user = u
    BY <1>1, <1>4, <2>1
  <2> QED BY <2>2 DEF Pending
<1>5. ListsShowChanges'
  <2> SUFFICES ASSUME NEW a \in Users, NEW u \in Users, writer[u] = a,
                      u \notin list'[a].lost, ~Pending(a, u)'
               PROVE  /\ \A k \in Jobs :
                           job'[k].pc \in {"pages", "listed"} /\ job'[k].tab = a
                           /\ job'[k].nth = list'[a].begun
                             => ReadsTruly(job[k], u)'
                      /\ list'[a].last = list'[a].begun /\ ~list'[a].cut
                           => tab'[a].shown[u] \in
                                {"absent", IF u \in banned THEN "suspended" ELSE "active"}
    BY DEF ListsShowChanges
  <2>1. u \notin list[a].lost /\ ~Pending(a, u)
    BY <1>4
  <2>2. /\ \A k \in Jobs :
             job[k].pc \in {"pages", "listed"} /\ job[k].tab = a /\ job[k].nth = list[a].begun
               => ReadsTruly(job[k], u)
        /\ list[a].last = list[a].begun /\ ~list[a].cut
             => tab[a].shown[u] \in {"absent", IF u \in banned THEN "suspended" ELSE "active"}
    BY <2>1 DEF ShowInv, ListsShowChanges
  <2>3. ASSUME NEW k \in Jobs, job'[k].pc \in {"pages", "listed"}, job'[k].tab = a,
               job'[k].nth = list'[a].begun
        PROVE  ReadsTruly(job[k], u)'
    <3>1. CASE k # j
      BY <1>1, <2>2, <2>3, <3>1 DEF ReadsTruly
    <3>2. CASE k = j
      <4>1. job[j].tab = a /\ job[j].nth = list[a].begun /\ job[j].pc \in {"tables", "pages", "listed"}
        BY <1>1, <2>3, <3>2 DEF ListPcs
      <4>2. ReadsTruly(job[j], u)
        <5>1. CASE job[j].pc = "tables"
          BY <5>1 DEF ShowInv, RunsInOrder, ReadsTruly
        <5>2. CASE job[j].pc # "tables"
          BY <2>2, <4>1, <5>2
        <5> QED BY <5>1, <5>2
      <4>3. /\ job[j].bans \subseteq r.bans /\ r.bans \subseteq job[j].bans \cup banned
            /\ \A w \in banned : w \in r.read => w \in r.bans \/ w \in job[j].read
        BY <1>1, <2>3, <3>2
      <4>4. (u \in r.bans => u \in banned) /\ (u \in r.read /\ u \in banned => u \in r.bans)
        BY <4>2, <4>3 DEF ReadsTruly
      <4> QED BY <1>1, <3>2, <4>4 DEF ReadsTruly
    <3> QED BY <3>1, <3>2
  <2> QED BY <2>2, <2>3
<1> QED BY <1>3, <1>5 DEF ShowInv

\* A list begins, and becomes the newest of its page.
LEMMA RefreshKeeps ==
    ASSUME Inv, ShowInv, NEW j \in Jobs, NEW r \in Job, NEW a \in Users,
           job' = [job EXCEPT ![j] = r],
           job[j].pc = "new" \/ (job[j].pc = "answered" /\ job[j].tab = a),
           r.pc = "tables", r.tab = a, r.nth = list[a].begun + 1, r.bans = {}, r.read = {},
           list' = [list EXCEPT ![a].begun = @ + 1],
           \A b \in Users : tab'[b].shown = tab[b].shown,
           UNCHANGED <<banned, writer>>
    PROVE  ShowInv'
<1>1. /\ job'[j] = r /\ \A k \in Jobs \ {j} : job'[k] = job[k]
      /\ list \in [Users -> List]
  BY DEF Inv, TypeOK
<1>2. /\ \A b \in Users : /\ list[b].begun \in Nat /\ list[b].last \in Nat
                          /\ list[b].last <= list[b].begun
                          /\ list'[b].last = list[b].last /\ list'[b].cut = list[b].cut
                          /\ list'[b].lost = list[b].lost
                          /\ b # a => list'[b].begun = list[b].begun
      /\ list'[a].begun = list[a].begun + 1
  BY <1>1 DEF List, ShowInv, RunsInOrder
<1>3. \A k \in Jobs : /\ job[k].nth \in Nat
                      /\ job[k].pc \notin {"new", "done"} => job[k].tab \in Users
  BY DEF Inv, TypeOK, Job, RunOK
<1>4. \A k \in Jobs \ {j} : job[k].pc \in ListPcs => job[k].nth <= list[job[k].tab].begun
  BY DEF ShowInv, RunsInOrder
<1>5. RunsInOrder'
  <2>1. \A b \in Users : list'[b].last <= list'[b].begun
    <3> TAKE b \in Users
    <3>1. CASE b = a
      BY <1>2, <3>1
    <3>2. CASE b # a
      BY <1>2, <3>2
    <3> QED BY <3>1, <3>2
  <2>2. ASSUME NEW k \in Jobs
        PROVE  /\ job'[k].pc \in ListPcs => job'[k].nth <= list'[job'[k].tab].begun
               /\ job'[k].pc \notin {"pages", "listed", "unlisted"} =>
                    job'[k].bans = {} /\ job'[k].read = {}
               /\ job'[k].pc \in CallPcs /\ ~job'[k].heard => job'[k].user \in list'[job'[k].tab].lost
    <3>1. CASE k = j
      BY <1>1, <1>2, <3>1 DEF CallPcs
    <3>2. CASE k # j
      <4>1. job'[k] = job[k]
        BY <1>1, <3>2
      <4>2. ASSUME job[k].pc \in ListPcs PROVE job[k].nth <= list'[job[k].tab].begun
        <5>1. job[k].tab \in Users /\ job[k].nth <= list[job[k].tab].begun
          BY <1>3, <1>4, <3>2, <4>2 DEF ListPcs
        <5>2. CASE job[k].tab = a
          BY <1>2, <1>3, <5>1, <5>2
        <5>3. CASE job[k].tab # a
          BY <1>2, <5>1, <5>3
        <5> QED BY <5>2, <5>3
      <4>3. job[k].pc \in CallPcs => job[k].tab \in Users
        BY <1>3 DEF CallPcs
      <4> QED BY <1>2, <4>1, <4>2, <4>3 DEF ShowInv, RunsInOrder
    <3> QED BY <3>1, <3>2
  <2> QED BY <2>1, <2>2 DEF RunsInOrder
<1>6. ListsShowChanges'
  <2> SUFFICES ASSUME NEW b \in Users, NEW u \in Users, writer[u] = b,
                      u \notin list'[b].lost, ~Pending(b, u)'
               PROVE  /\ \A k \in Jobs :
                           job'[k].pc \in {"pages", "listed"} /\ job'[k].tab = b
                           /\ job'[k].nth = list'[b].begun
                             => ReadsTruly(job[k], u)'
                      /\ list'[b].last = list'[b].begun /\ ~list'[b].cut
                           => tab'[b].shown[u] \in
                                {"absent", IF u \in banned THEN "suspended" ELSE "active"}
    BY DEF ListsShowChanges
  <2>1. CASE b = a
    <3>1. list'[a].last # list'[a].begun
      BY <1>2
    <3>2. ASSUME NEW k \in Jobs, job'[k].pc \in {"pages", "listed"}, job'[k].tab = a
          PROVE  job'[k].nth # list'[a].begun
      <4>1. k # j /\ job'[k] = job[k]
        BY <1>1, <3>2
      <4>2. job[k].nth <= list[a].begun
        BY <1>4, <3>2, <4>1 DEF ListPcs
      <4> QED BY <1>2, <1>3, <4>1, <4>2
    <3> QED BY <2>1, <3>1, <3>2
  <2>2. CASE b # a
    <3>1. \A k \in Jobs : job[k].pc \in {"applied", "answered"} /\ job[k].tab = b => job'[k] = job[k]
      BY <1>1, <2>2
    <3>2. ~Pending(b, u)
      BY <3>1 DEF Pending
    <3>3. \A k \in Jobs : job'[k].tab = b => k # j /\ job'[k] = job[k]
      BY <1>1, <2>2
    <3>4. /\ \A k \in Jobs :
               job[k].pc \in {"pages", "listed"} /\ job[k].tab = b /\ job[k].nth = list[b].begun
                 => ReadsTruly(job[k], u)
          /\ list[b].last = list[b].begun /\ ~list[b].cut
               => tab[b].shown[u] \in {"absent", IF u \in banned THEN "suspended" ELSE "active"}
      BY <1>2, <3>2 DEF ShowInv, ListsShowChanges
    <3> QED BY <1>2, <2>2, <3>3, <3>4 DEF ReadsTruly
  <2> QED BY <2>1, <2>2
<1> QED BY <1>5, <1>6 DEF ShowInv

\* The list that arrives, if it is the newest and complete, holds the ban.
LEMMA TakeListKeeps == ASSUME Inv, ShowInv, NEW j \in Jobs, TakeList(j) PROVE ShowInv'
<1> DEFINE a == job[j].tab
           over == [NewJob EXCEPT !.pc = "done"]
<1>1. /\ job[j].pc = "listed" /\ job' = [job EXCEPT ![j] = over]
      /\ list' = [list EXCEPT ![a].last = job[j].nth, ![a].cut = (job[j].read # Users)]
      /\ UNCHANGED <<banned, writer>>
  BY DEF TakeList, Over, tables
<1>2. /\ a \in Users /\ tab \in [Users -> Tab] /\ list \in [Users -> List] /\ job \in [Jobs -> Job]
  BY <1>1 DEF Inv, TypeOK, RunOK
<1>3. /\ \A u \in Users : tab'[a].shown[u] = Listed(job[j], u)
      /\ \A b \in Users \ {a} : tab'[b] = tab[b]
  BY <1>2 DEF TakeList, Over, Tab
<1>4. /\ over.pc = "done" /\ over.bans = {} /\ over.read = {}
  BY DEF NewJob
<1>5. job'[j] = over /\ \A k \in Jobs \ {j} : job'[k] = job[k]
  BY <1>1, <1>2
<1> HIDE DEF over
<1>6. /\ \A b \in Users : list'[b].begun = list[b].begun /\ list'[b].lost = list[b].lost
      /\ \A b \in Users \ {a} : list'[b] = list[b]
      /\ list'[a].last = job[j].nth /\ (list'[a].cut <=> job[j].read # Users)
  BY <1>1, <1>2 DEF List
<1>7. \A k \in Jobs : job[k].pc \notin {"new", "done"} => job[k].tab \in Users
  BY DEF Inv, RunOK
<1> HIDE DEF a
<1>8. RunsInOrder'
  <2>1. \A b \in Users : list'[b].last <= list'[b].begun
    BY <1>1, <1>6 DEF ShowInv, RunsInOrder, ListPcs, a
  <2>2. ASSUME NEW k \in Jobs
        PROVE  /\ job'[k].pc \in ListPcs => job'[k].nth <= list'[job'[k].tab].begun
               /\ job'[k].pc \notin {"pages", "listed", "unlisted"} =>
                    job'[k].bans = {} /\ job'[k].read = {}
               /\ job'[k].pc \in CallPcs /\ ~job'[k].heard => job'[k].user \in list'[job'[k].tab].lost
    <3>1. CASE k = j
      BY <1>4, <1>5, <3>1 DEF ListPcs, CallPcs
    <3>2. CASE k # j
      BY <1>5, <1>6, <1>7, <3>2 DEF ShowInv, RunsInOrder, ListPcs, CallPcs
    <3> QED BY <3>1, <3>2
  <2> QED BY <2>1, <2>2 DEF RunsInOrder
<1>9. ListsShowChanges'
  <2> SUFFICES ASSUME NEW b \in Users, NEW u \in Users, writer[u] = b,
                      u \notin list'[b].lost, ~Pending(b, u)'
               PROVE  /\ \A k \in Jobs :
                           job'[k].pc \in {"pages", "listed"} /\ job'[k].tab = b
                           /\ job'[k].nth = list'[b].begun
                             => ReadsTruly(job[k], u)'
                      /\ list'[b].last = list'[b].begun /\ ~list'[b].cut
                           => tab'[b].shown[u] \in
                                {"absent", IF u \in banned THEN "suspended" ELSE "active"}
    BY <1>1 DEF ListsShowChanges
  <2>1. \A k \in Jobs : job[k].pc \in {"applied", "answered"} => job'[k] = job[k]
    BY <1>1, <1>5
  <2>2. ~Pending(b, u) /\ u \notin list[b].lost
    BY <1>6, <2>1 DEF Pending
  <2>3. /\ \A k \in Jobs :
             job[k].pc \in {"pages", "listed"} /\ job[k].tab = b /\ job[k].nth = list[b].begun
               => ReadsTruly(job[k], u)
        /\ list[b].last = list[b].begun /\ ~list[b].cut
             => tab[b].shown[u] \in {"absent", IF u \in banned THEN "suspended" ELSE "active"}
    BY <2>2 DEF ShowInv, ListsShowChanges
  <2>4. \A k \in Jobs : job'[k].pc \in {"pages", "listed"} => k # j /\ job'[k] = job[k]
    BY <1>4, <1>5
  <2>5. ASSUME list'[b].last = list'[b].begun, ~list'[b].cut
        PROVE  tab'[b].shown[u] \in {"absent", IF u \in banned THEN "suspended" ELSE "active"}
    <3>1. CASE b # a
      BY <1>3, <1>6, <2>3, <2>5, <3>1
    <3>2. CASE b = a
      <4>1. ReadsTruly(job[j], u) /\ u \in job[j].read
        BY <1>1, <1>6, <2>3, <2>5, <3>2 DEF a
      <4> QED BY <1>3, <3>2, <4>1 DEF Listed, ReadsTruly
    <3> QED BY <3>1, <3>2
  <2> QED BY <1>1, <1>6, <2>3, <2>4, <2>5 DEF ReadsTruly
<1> QED BY <1>8, <1>9 DEF ShowInv

\* A change is pending once it is applied, or lost to the page with its error.
LEMMA ChangeShows ==
    ASSUME Inv, ShowInv, NEW j \in Jobs, job[j].pc = "asked",
           banned' = IF job[j].action = "suspend" THEN banned \cup {job[j].user}
                                                  ELSE banned \ {job[j].user},
           writer' = [writer EXCEPT ![job[j].user] = job[j].tab],
           NEW pc \in {"applied", "failed"}, job' = [job EXCEPT ![j].pc = pc],
           \A b \in Users : /\ list'[b].begun = list[b].begun /\ list'[b].last = list[b].last
                            /\ list'[b].cut = list[b].cut /\ list[b].lost \subseteq list'[b].lost,
           pc = "failed" => job[j].user \in list'[job[j].tab].lost,
           UNCHANGED tab
    PROVE  ShowInv'
<1> DEFINE u == job[j].user
           r == [job[j] EXCEPT !.pc = pc]
<1>1. /\ job \in [Jobs -> Job] /\ writer \in [Users -> Users \cup {Nobody}]
      /\ u \in Users /\ job[j].tab \in Users
  BY DEF Inv, TypeOK, RunOK
<1>2. /\ r.pc = pc /\ r.tab = job[j].tab /\ r.user = u /\ r.bans = job[j].bans
      /\ r.read = job[j].read /\ r.heard = job[j].heard
  BY <1>1 DEF Job
<1>3. job'[j] = r /\ \A k \in Jobs \ {j} : job'[k] = job[k]
  BY <1>1
<1> HIDE DEF r
<1>4. /\ writer'[u] = job[j].tab
      /\ \A w \in Users \ {u} : writer'[w] = writer[w] /\ (w \in banned' <=> w \in banned)
  BY <1>1
<1>5. RunsInOrder'
  <2>1. \A k \in Jobs : job[k].pc \notin {"new", "done"} => job[k].tab \in Users
    BY DEF Inv, RunOK
  <2>2. ASSUME NEW k \in Jobs
        PROVE  /\ job'[k].pc \in ListPcs => job'[k].nth <= list'[job'[k].tab].begun
               /\ job'[k].pc \notin {"pages", "listed", "unlisted"} =>
                    job'[k].bans = {} /\ job'[k].read = {}
               /\ job'[k].pc \in CallPcs /\ ~job'[k].heard => job'[k].user \in list'[job'[k].tab].lost
    <3>1. CASE k = j
      BY <1>1, <1>2, <1>3, <3>1 DEF ShowInv, RunsInOrder, ListPcs, CallPcs
    <3>2. CASE k # j
      BY <1>3, <2>1, <3>2 DEF ShowInv, RunsInOrder, ListPcs, CallPcs
    <3> QED BY <3>1, <3>2
  <2> QED BY <2>2 DEF ShowInv, RunsInOrder
<1>6. ListsShowChanges'
  <2> SUFFICES ASSUME NEW b \in Users, NEW w \in Users, writer'[w] = b,
                      w \notin list'[b].lost, ~Pending(b, w)'
               PROVE  /\ \A k \in Jobs :
                           job'[k].pc \in {"pages", "listed"} /\ job'[k].tab = b
                           /\ job'[k].nth = list[b].begun
                             => ReadsTruly(job[k], w)'
                      /\ list[b].last = list[b].begun /\ ~list[b].cut
                           => tab[b].shown[w] \in
                                {"absent", IF w \in banned' THEN "suspended" ELSE "active"}
    BY DEF ListsShowChanges
  <2>1. w # u
    <3> SUFFICES ASSUME w = u PROVE FALSE
      OBVIOUS
    <3>1. b = job[j].tab
      BY <1>4
    <3>2. pc = "applied"
      BY <3>1
    <3>3. job'[j].pc \in {"applied", "answered"} /\ job'[j].tab = b /\ job'[j].user = w
      BY <1>2, <1>3, <3>1, <3>2
    <3> QED BY <3>3 DEF Pending
  <2>2. writer[w] = b /\ (w \in banned' <=> w \in banned)
    BY <1>4, <2>1
  <2>3. \A k \in Jobs : job[k].pc \in {"applied", "answered"} => job'[k] = job[k]
    BY <1>3
  <2>4. ~Pending(b, w)
    BY <2>3 DEF Pending
  <2>5. \A k \in Jobs : job'[k].pc \in {"pages", "listed"} => job'[k] = job[k]
    BY <1>2, <1>3
  <2>6. /\ \A k \in Jobs :
             job[k].pc \in {"pages", "listed"} /\ job[k].tab = b /\ job[k].nth = list[b].begun
               => ReadsTruly(job[k], w)
        /\ list[b].last = list[b].begun /\ ~list[b].cut
             => tab[b].shown[w] \in {"absent", IF w \in banned THEN "suspended" ELSE "active"}
    BY <2>2, <2>4 DEF ShowInv, ListsShowChanges
  <2> QED BY <2>2, <2>5, <2>6 DEF ReadsTruly
<1> QED BY <1>5, <1>6 DEF ShowInv

LEMMA ShowStep == Inv /\ ShowInv /\ [Next]_vars => ShowInv'
<1> SUFFICES ASSUME Inv, ShowInv, [Next]_vars PROVE ShowInv'
  OBVIOUS
<1>0. /\ job \in [Jobs -> Job] /\ tab \in [Users -> Tab] /\ list \in [Users -> List]
      /\ \A k \in Jobs : job[k].pc \notin {"new", "done"} => job[k].tab \in Users
  BY DEF Inv, TypeOK, RunOK
<1> DEFINE over == [NewJob EXCEPT !.pc = "done"]
<1>00. over \in Job /\ over.pc = "done" /\ over.bans = {} /\ over.read = {}
  BY DEF NewJob, Job
<1>1. ASSUME UNCHANGED <<banned, writer, job, tab, list>> PROVE ShowInv'
  BY <1>1 DEF ShowInv, RunsInOrder, ListsShowChanges, Pending, ReadsTruly
<1>2. ASSUME NEW j \in Jobs, NEW a \in Users, OpenPage(j, a) PROVE ShowInv'
  <2> DEFINE r == [[NewJob EXCEPT !.tab = a] EXCEPT !.pc = "tables", !.nth = list[a].begun + 1]
  <2>1. /\ job[j].pc = "new" /\ job' = [job EXCEPT ![j] = r]
        /\ list' = [list EXCEPT ![a].begun = @ + 1] /\ UNCHANGED <<banned, writer>>
    BY <1>2 DEF OpenPage, Refresh, tables
  <2>2. list[a].begun + 1 \in Nat
    BY <1>0 DEF List
  <2>3. /\ r \in Job /\ r.pc = "tables" /\ r.tab = a /\ r.nth = list[a].begun + 1
        /\ r.bans = {} /\ r.read = {}
    BY <2>2 DEF NewJob, Job
  <2>4. \A b \in Users : tab'[b].shown = tab[b].shown
    BY <1>0, <1>2 DEF OpenPage, Refresh, Tab
  <2> HIDE DEF r
  <2> QED BY <2>1, <2>3, <2>4, RefreshKeeps
<1>3. ASSUME NEW j \in Jobs, TakeAnswer(j) PROVE ShowInv'
  <2> DEFINE a == job[j].tab
             r == [job[j] EXCEPT !.pc = "tables", !.nth = list[a].begun + 1]
  <2>1. /\ job[j].pc = "answered" /\ job' = [job EXCEPT ![j] = r] /\ a \in Users
        /\ list' = [list EXCEPT ![a].begun = @ + 1] /\ UNCHANGED <<banned, writer>>
    BY <1>0, <1>3 DEF TakeAnswer, Refresh, tables
  <2>2. list[a].begun + 1 \in Nat
    BY <1>0, <2>1 DEF List
  <2>3. job[j].bans = {} /\ job[j].read = {}
    BY <2>1 DEF ShowInv, RunsInOrder
  <2>4. /\ r \in Job /\ r.pc = "tables" /\ r.tab = a /\ r.nth = list[a].begun + 1
        /\ r.bans = {} /\ r.read = {}
    BY <1>0, <2>2, <2>3 DEF Job
  <2>5. \A b \in Users : tab'[b].shown = tab[b].shown
    BY <1>0, <1>3, <2>1 DEF TakeAnswer, Refresh, Tab
  <2> HIDE DEF r, a
  <2>6. job[j].tab = a
    BY DEF a
  <2> QED BY <2>1, <2>4, <2>5, <2>6, RefreshKeeps
<1>4. ASSUME NEW j \in Jobs, NEW a \in Users, NEW u \in Users, Click(j, a, u) PROVE ShowInv'
  <2>1. PICK act \in Actions :
          job' = [job EXCEPT ![j] = [NewJob EXCEPT !.pc = "asked", !.tab = a, !.user = u,
                                                   !.action = act]]
    BY <1>4 DEF Click, Actions
  <2> DEFINE r == [NewJob EXCEPT !.pc = "asked", !.tab = a, !.user = u, !.action = act]
  <2>2. job' = [job EXCEPT ![j] = r] /\ job[j].pc = "new" /\ UNCHANGED <<banned, writer, list>>
    BY <1>4, <2>1 DEF Click, tables
  <2>3. r \in Job /\ r.pc = "asked" /\ r.heard /\ r.bans = {} /\ r.read = {}
    BY DEF NewJob, Job
  <2>4. \A b \in Users : tab'[b].shown = tab[b].shown
    BY <1>0, <1>4 DEF Click, Tab
  <2> HIDE DEF r
  <2> QED BY <2>2, <2>3, <2>4, QuietRunKeeps DEF ListPcs
<1>5. ASSUME NEW j \in Jobs, Disconnect(j) PROVE ShowInv'
  <2> DEFINE a == job[j].tab
             r == [job[j] EXCEPT !.heard = FALSE]
  <2>1. /\ job[j].pc \in CallPcs /\ job' = [job EXCEPT ![j] = r] /\ a \in Users
        /\ list' = [list EXCEPT ![a].lost = @ \cup {job[j].user}]
        /\ UNCHANGED <<banned, writer, tab>>
    BY <1>0, <1>5 DEF Disconnect, tables, CallPcs
  <2>2. /\ r \in Job /\ r.pc = job[j].pc /\ r.tab = a /\ r.user = job[j].user
        /\ r.bans = job[j].bans /\ r.read = job[j].read
    BY <1>0 DEF Job
  <2>3. r.bans = {} /\ r.read = {}
    BY <2>1, <2>2 DEF ShowInv, RunsInOrder, CallPcs
  <2>4. /\ \A b \in Users : /\ list'[b].begun = list[b].begun /\ list'[b].last = list[b].last
                            /\ list'[b].cut = list[b].cut /\ list[b].lost \subseteq list'[b].lost
        /\ job[j].user \in list'[a].lost
    BY <1>0, <2>1 DEF List
  <2> HIDE DEF r
  <2>5. r.pc \notin ListPcs
    BY <2>1, <2>2 DEF CallPcs, ListPcs
  <2> QED BY <2>1, <2>2, <2>3, <2>4, <2>5, QuietRunKeeps DEF ListPcs
<1>6. ASSUME NEW j \in Jobs, Unheard(j) PROVE ShowInv'
  <2>1. /\ job' = [job EXCEPT ![j] = over] /\ UNCHANGED <<banned, writer, tab, list>>
        /\ job[j].user \in list[job[j].tab].lost
    BY <1>6 DEF Unheard, tables, ShowInv, RunsInOrder, CallPcs
  <2> HIDE DEF over
  <2> QED BY <1>00, <2>1, QuietRunKeeps DEF ListPcs, CallPcs
<1>7. ASSUME NEW j \in Jobs, TakeError(j) PROVE ShowInv'
  <2>1. /\ job' = [job EXCEPT ![j] = over] /\ UNCHANGED <<banned, writer, list>>
        /\ job[j].pc \in {"failed", "unlisted"}
    BY <1>7 DEF TakeError, Over, tables
  <2>2. \A b \in Users : tab'[b].shown = tab[b].shown
    BY <1>0, <1>7 DEF TakeError, Over, Tab
  <2> HIDE DEF over
  <2> QED BY <1>00, <2>1, <2>2, QuietRunKeeps DEF ListPcs, CallPcs
<1>8. ASSUME NEW j \in Jobs, TakeList(j) PROVE ShowInv'
  BY <1>8, TakeListKeeps
<1>9. ASSUME NEW j \in Jobs, Change(j) PROVE ShowInv'
  <2>1. job[j].pc = "asked" /\ UNCHANGED tab /\ job[j].tab \in Users
    BY <1>0, <1>9 DEF Change
  <2>2. CASE /\ Applied(j) /\ job' = [job EXCEPT ![j].pc = "applied"]
             /\ UNCHANGED list
    BY <2>1, <2>2, ChangeShows DEF Applied
  <2>3. CASE /\ Applied(j) /\ job' = [job EXCEPT ![j].pc = "failed"]
             /\ list' = [list EXCEPT ![job[j].tab].lost = @ \cup {job[j].user}]
    <3>1. /\ \A b \in Users : /\ list'[b].begun = list[b].begun /\ list'[b].last = list[b].last
                              /\ list'[b].cut = list[b].cut /\ list[b].lost \subseteq list'[b].lost
          /\ job[j].user \in list'[job[j].tab].lost
      BY <1>0, <2>1, <2>3 DEF List
    <3> QED BY <2>1, <2>3, <3>1, ChangeShows DEF Applied
  <2>4. CASE job' = [job EXCEPT ![j].pc = "failed"] /\ UNCHANGED <<banned, writer, list>>
    <3> DEFINE r == [job[j] EXCEPT !.pc = "failed"]
    <3>1. /\ r \in Job /\ r.pc = "failed" /\ r.heard = job[j].heard /\ r.user = job[j].user
          /\ r.tab = job[j].tab /\ r.bans = job[j].bans /\ r.read = job[j].read
          /\ job' = [job EXCEPT ![j] = r]
      BY <1>0, <2>4 DEF Job
    <3>2. r.bans = {} /\ r.read = {} /\ (~r.heard => r.user \in list[r.tab].lost)
      BY <2>1, <3>1 DEF ShowInv, RunsInOrder, CallPcs
    <3> HIDE DEF r
    <3> QED BY <2>1, <2>4, <3>1, <3>2, QuietRunKeeps DEF ListPcs
  <2> QED BY <1>9, <2>2, <2>3, <2>4 DEF Change
<1>10. ASSUME NEW j \in Jobs, Audit(j) PROVE ShowInv'
  <2> DEFINE r == [job[j] EXCEPT !.pc = "answered"]
  <2>1. /\ job[j].pc = "applied" /\ UNCHANGED <<banned, writer, tab, list>>
        /\ job' = [job EXCEPT ![j] = r]
    BY <1>10 DEF Audit
  <2>2. /\ r \in Job /\ r.pc = "answered" /\ r.heard = job[j].heard /\ r.user = job[j].user
        /\ r.tab = job[j].tab /\ r.bans = job[j].bans /\ r.read = job[j].read
    BY <1>0 DEF Job
  <2>3. r.bans = {} /\ r.read = {} /\ (~r.heard => r.user \in list[r.tab].lost)
    BY <2>1, <2>2 DEF ShowInv, RunsInOrder, CallPcs
  <2> HIDE DEF r
  <2> QED BY <2>1, <2>2, <2>3, QuietRunKeeps DEF ListPcs
<1>11. ASSUME NEW j \in Jobs, NEW r \in Job, job' = [job EXCEPT ![j] = r],
              job[j].pc \in {"tables", "pages", "listed"}, r.pc \in {"pages", "listed", "unlisted"},
              r.tab = job[j].tab, r.nth = job[j].nth,
              job[j].bans \subseteq r.bans, r.bans \subseteq job[j].bans \cup banned,
              \A u \in banned : u \in r.read => u \in r.bans \/ u \in job[j].read,
              UNCHANGED <<banned, writer, tab, list>>
       PROVE  ShowInv'
  <2>1. r.tab \in Users
    BY <1>0, <1>11
  <2> QED BY <1>11, <2>1, QuietRunKeeps DEF ListPcs, CallPcs
<1>12. ASSUME NEW j \in Jobs, ReadTables(j) PROVE ShowInv'
  <2>1. job[j].pc = "tables" /\ UNCHANGED <<banned, writer, tab, list>>
    BY <1>12 DEF ReadTables, tables
  <2>2. CASE job' = [job EXCEPT ![j].pc = "pages", ![j].admins = AdminIds, ![j].page = 1]
    <3> DEFINE r == [job[j] EXCEPT !.pc = "pages", !.admins = AdminIds, !.page = 1]
    <3>1. /\ r \in Job /\ r.pc = "pages" /\ r.tab = job[j].tab /\ r.nth = job[j].nth
          /\ r.bans = job[j].bans /\ r.read = job[j].read
      BY <1>0 DEF Job, AdminIds
    <3>2. job' = [job EXCEPT ![j] = r]
      BY <1>0, <2>2
    <3> HIDE DEF r
    <3> QED BY <1>11, <2>1, <3>1, <3>2
  <2>3. CASE job' = [job EXCEPT ![j].pc = "unlisted"]
    <3> DEFINE r == [job[j] EXCEPT !.pc = "unlisted"]
    <3>1. /\ r \in Job /\ r.pc = "unlisted" /\ r.tab = job[j].tab /\ r.nth = job[j].nth
          /\ r.bans = job[j].bans /\ r.read = job[j].read
      BY <1>0 DEF Job
    <3>2. job' = [job EXCEPT ![j] = r]
      BY <1>0, <2>3
    <3> HIDE DEF r
    <3> QED BY <1>11, <2>1, <3>1, <3>2
  <2> QED BY <1>12, <2>2, <2>3 DEF ReadTables
<1>13. ASSUME NEW j \in Jobs, ReadPage(j) PROVE ShowInv'
  <2> DEFINE p == job[j].page
  <2>1. job[j].pc = "pages" /\ UNCHANGED <<banned, writer, tab, list>> /\ p \in 1..Len(Pages)
    BY <1>13 DEF ReadPage, tables, Inv, RunOK
  <2>2. CASE job' = [job EXCEPT ![j].read = @ \cup Pages[p],
                                ![j].bans = Found(job[j], p),
                                ![j].page = IF LastPage(p) THEN p ELSE p + 1,
                                ![j].pc = IF LastPage(p) THEN "listed" ELSE "pages"]
    <3> DEFINE q == IF LastPage(p) THEN p ELSE p + 1
               x == IF LastPage(p) THEN "listed" ELSE "pages"
               bs == job[j].bans \cup (Pages[p] \cap banned)
               r == [job[j] EXCEPT !.read = @ \cup Pages[p], !.bans = bs, !.page = q, !.pc = x]
    <3>1. job' = [job EXCEPT ![j] = r]
      BY <1>0, <2>2 DEF Found
    <3>2. Pages[p] \in SUBSET Users /\ q \in Nat /\ x \in {"listed", "pages"} /\ bs \in SUBSET Users
      <4>1. Pages[p] \in SUBSET Users /\ Len(Pages) \in Nat
        BY <2>1, PagesHoldUsers
      <4>2. q \in Nat
        BY <2>1, <4>1
      <4>3. job[j].bans \in SUBSET Users
        BY <1>0 DEF Job
      <4> QED BY <4>1, <4>2, <4>3
    <3> HIDE DEF q, x, bs
    <3>3. /\ r \in Job /\ r.pc \in {"listed", "pages"} /\ r.tab = job[j].tab /\ r.nth = job[j].nth
          /\ r.bans = bs /\ r.read = job[j].read \cup Pages[p]
      BY <1>0, <3>2 DEF Job
    <3> HIDE DEF r, p
    <3>4. /\ job[j].bans \subseteq bs /\ bs \subseteq job[j].bans \cup banned
          /\ \A u \in banned : u \in Pages[p] => u \in bs
      BY DEF bs
    <3> QED BY <1>11, <2>1, <3>1, <3>3, <3>4
  <2>3. CASE job' = [job EXCEPT ![j].pc = "listed"]
    <3> DEFINE r == [job[j] EXCEPT !.pc = "listed"]
    <3>1. /\ r \in Job /\ r.pc = "listed" /\ r.tab = job[j].tab /\ r.nth = job[j].nth
          /\ r.bans = job[j].bans /\ r.read = job[j].read
      BY <1>0 DEF Job
    <3>2. job' = [job EXCEPT ![j] = r]
      BY <1>0, <2>3
    <3> HIDE DEF r
    <3> QED BY <1>11, <2>1, <3>1, <3>2
  <2> QED BY <1>13, <2>2, <2>3 DEF ReadPage
<1>14. ASSUME NEW j \in Jobs, LoseList(j) PROVE ShowInv'
  <2> DEFINE r == [job[j] EXCEPT !.pc = "unlisted"]
  <2>1. /\ job[j].pc = "listed" /\ UNCHANGED <<banned, writer, tab, list>>
        /\ job' = [job EXCEPT ![j] = r]
    BY <1>14 DEF LoseList, tables
  <2>2. /\ r \in Job /\ r.pc = "unlisted" /\ r.tab = job[j].tab /\ r.nth = job[j].nth
        /\ r.bans = job[j].bans /\ r.read = job[j].read
    BY <1>0 DEF Job
  <2> HIDE DEF r
  <2> QED BY <1>11, <2>1, <2>2
<1>15. ASSUME NEW a \in Users, NEW u \in Users, Grant(a, u) PROVE ShowInv'
  BY <1>1, <1>15 DEF Grant
<1>16. CASE UNCHANGED vars
  BY <1>1, <1>16 DEF vars
<1> QED
  BY <1>2, <1>3, <1>4, <1>5, <1>6, <1>7, <1>8, <1>9, <1>10, <1>12, <1>13, <1>14, <1>15, <1>16
  DEF Next, Page, Functions

LEMMA ShowConclusion == ShowInv => OwnChangesShow
<1> SUFFICES ASSUME ShowInv, NEW a \in Users, NEW u \in Users, writer[u] = a, Quiet(a),
                    list[a].last = list[a].begun, ~list[a].cut, u \notin list[a].lost
             PROVE  tab[a].shown[u] \in {"absent", IF u \in banned THEN "suspended" ELSE "active"}
  BY DEF OwnChangesShow
<1>1. ~Pending(a, u)
  BY DEF Quiet, Pending
<1> QED BY <1>1 DEF ShowInv, ListsShowChanges

-----------------------------------------------------------------------------
(***************************************************************************)
(* The pages of a project's rows.                                          *)
(*                                                                         *)
(* A row that is not entangled has one call at a time, so what that call   *)
(* brought back is what the row still holds; a revealed secret is the one  *)
(* of its row, unless a rotation of the row was applied whose answer is    *)
(* still to come.  While nothing failed, the handlers under way are of the *)
(* selected project, and the newest list that was read is up to date, or   *)
(* some handler was answered that will list again.                         *)
(***************************************************************************)
Statuses == {"active", "revoked", "disabled", "gone"}

ShownRow == [id : Items, status : Statuses]

ItemType == [of : Rows!ProjectIds \cup {NoProject}, status : Statuses \cup {"none"}, secret : Nat]

CallType == [pc : {"new", "write", "written", "read", "listed", "failed", "done"},
             what : {"none", "list", "create", "rotate", "revoke", "toggle", "delete"},
             of : Rows!ProjectIds \cup {NoProject}, id : Items \cup {NoItem},
             to : Statuses \cup {"none"}, secret : Nat, nth : Nat, rows : SUBSET ShownRow]

Flying == {c \in Calls : call[c].pc \notin {"new", "done"}}
Written == {c \in Calls : call[c].pc = "written"}

RowsTypeOK ==
    /\ item \in [Items -> ItemType]
    /\ selected \in Rows!ProjectIds \cup {NoProject}
    /\ shown \subseteq ShownRow
    /\ revealed \in {Rows!NoSecret} \cup [id : Items, secret : Nat]
    /\ call \in [Calls -> CallType]
    /\ lists \in [begun : Nat, last : Nat, switched : BOOLEAN]
    /\ entangled \subseteq Items \cup {NoItem}
    /\ faults \in Nat

\* The row was inserted.
Known(i) == item[i].status # "none"

RowsAreKnown ==
    /\ \A r \in shown : Known(r.id)
    /\ \A c \in Calls : \A r \in call[c].rows : Known(r.id)
    /\ \A c \in Flying : call[c].id # NoItem => Known(call[c].id)
    /\ revealed.id # NoItem => Known(revealed.id)
    /\ \A c \in Flying : call[c].pc \in {"write", "written"} =>
         /\ call[c].what \notin {"none", "list"} /\ call[c].to # "none"
         /\ call[c].id = NoItem <=> call[c].pc = "write" /\ call[c].what = "create"

OneCallOfRow ==
    \A c, d \in Flying : call[c].id = call[d].id /\ call[c].id \in Items \ entangled => c = d

SecretsAgree ==
    /\ \A c \in Written :
         call[c].id \notin entangled => item[call[c].id].secret = call[c].secret
    /\ revealed.id \in Items \ entangled =>
         \/ item[revealed.id].secret = revealed.secret
         \/ \E c \in Written : call[c].what = "rotate" /\ call[c].id = revealed.id

ListsInOrder ==
    /\ lists.last <= lists.begun
    /\ \A c \in Flying : call[c].nth <= lists.begun
    /\ selected = NoProject => Flying = {} /\ shown = {}
    /\ selected # NoProject => lists.begun > 0

ListsFollow ==
    /\ \A c \in Flying : call[c].what # "list" => call[c].of = selected
    /\ \A c \in Flying : call[c].nth = lists.begun /\ call[c].pc = "read" => call[c].of = selected
    /\ \A c \in Flying : call[c].nth = lists.begun /\ call[c].pc = "listed"
                           => call[c].rows = Rows!RowsOf(selected) \/ Written # {}
    /\ lists.last = lists.begun => shown = Rows!RowsOf(selected) \/ Written # {}

Undisturbed == selected # NoProject /\ ~lists.switched /\ faults = 0

RowsInv ==
    /\ RowsTypeOK /\ RowsAreKnown /\ OneCallOfRow /\ SecretsAgree /\ ListsInOrder
    /\ Undisturbed => ListsFollow

LEMMA NoCallIsCall == Rows!NoCall \in CallType
BY DEF Rows!NoCall, CallType

LEMMA RowsInit == Rows!Init => RowsInv
<1> SUFFICES ASSUME Rows!Init PROVE RowsInv
  OBVIOUS
<1>1. \A c \in Calls : call[c] = Rows!NoCall /\ call[c].pc = "new" /\ call[c].rows = {}
  BY DEF Rows!Init, Rows!NoCall
<1>2. Flying = {} /\ Written = {}
  BY <1>1 DEF Flying, Written
<1>3. item \in [Items -> ItemType]
  <2>1. [of |-> NoProject, status |-> "none", secret |-> 0] \in ItemType
    BY DEF ItemType, Statuses
  <2>2. [of : Rows!ProjectIds, status : {"active"}, secret : {1}] \subseteq ItemType
    BY DEF ItemType, Statuses
  <2> QED BY <2>1, <2>2 DEF Rows!Init
<1>4. RowsTypeOK
  <2>1. call \in [Calls -> CallType]
    BY NoCallIsCall DEF Rows!Init
  <2> QED BY <1>3, <2>1 DEF Rows!Init, RowsTypeOK
<1>5. RowsAreKnown /\ SecretsAgree
  BY <1>1, <1>2, NoItemIsNoItem DEF Rows!Init, RowsAreKnown, SecretsAgree, Rows!NoSecret
<1>6. OneCallOfRow /\ ListsInOrder
  BY <1>2 DEF Rows!Init, OneCallOfRow, ListsInOrder
<1> QED BY <1>4, <1>5, <1>6 DEF Rows!Init, RowsInv, Undisturbed

\* One run of the effect or of a handler changes.
LEMMA CallChanges ==
    ASSUME RowsTypeOK, NEW c \in Calls, NEW r \in CallType, call' = [call EXCEPT ![c] = r]
    PROVE  /\ call' \in [Calls -> CallType] /\ call'[c] = r
           /\ \A d \in Calls \ {c} : call'[d] = call[d]
           /\ Flying' = IF r.pc \in {"new", "done"} THEN Flying \ {c} ELSE Flying \cup {c}
           /\ Written' = IF r.pc = "written" THEN Written \cup {c} ELSE Written \ {c}
           /\ Flying \subseteq Calls /\ Written \subseteq Flying
<1>1. call' \in [Calls -> CallType] /\ call'[c] = r /\ \A d \in Calls \ {c} : call'[d] = call[d]
  BY DEF RowsTypeOK
<1> QED BY <1>1 DEF Flying, Written

\* A list is of rows that were inserted.
LEMMA ListedAreKnown ==
    ASSUME RowsTypeOK, NEW p
    PROVE  /\ Rows!RowsOf(p) \subseteq ShownRow
           /\ \A r \in Rows!RowsOf(p) : Known(r.id)
<1> SUFFICES ASSUME NEW r \in Rows!RowsOf(p) PROVE r \in ShownRow /\ Known(r.id)
  OBVIOUS
<1>1. PICK i \in Items : r = [id |-> i, status |-> item[i].status] /\ Rows!Exists(i)
  BY DEF Rows!RowsOf
<1>2. item[i].status \in Statuses
  BY <1>1 DEF RowsTypeOK, ItemType, Rows!Exists
<1> QED BY <1>1, <1>2 DEF ShownRow, Known, Rows!Exists

\* Whatever is under way was begun for the project that was selected before.
LEMMA ChooseKeeps ==
    ASSUME RowsInv, NEW c \in Calls, NEW p \in Rows!ProjectIds, Rows!Choose(c, p)
    PROVE  RowsInv'
<1> DEFINE r == [Rows!NoCall EXCEPT !.pc = "read", !.what = "list", !.of = p,
                                    !.nth = lists.begun + 1]
           sw == \E d \in Calls : Rows!InFlight(d) /\ call[d].what # "list"
           n == lists.begun + 1
           l == [lists EXCEPT !.begun = n, !.switched = sw]
<1>1. /\ call[c].pc = "new" /\ selected' = p /\ call' = [call EXCEPT ![c] = r] /\ lists' = l
      /\ UNCHANGED <<item, shown, revealed, entangled, faults>>
  BY DEF Rows!Choose
<1>2. RowsTypeOK /\ lists \in [begun : Nat, last : Nat, switched : BOOLEAN]
  BY DEF RowsInv, RowsTypeOK
<1>3. /\ r \in CallType /\ r.pc = "read" /\ r.what = "list" /\ r.of = p /\ r.nth = lists.begun + 1
      /\ r.id = NoItem /\ r.rows = {}
  <2>1. lists.begun + 1 \in Nat
    BY <1>2
  <2> QED BY <2>1 DEF Rows!NoCall, CallType
<1>0. sw \in BOOLEAN /\ sw = \E d \in Calls : Rows!InFlight(d) /\ call[d].what # "list"
  OBVIOUS
<1> HIDE DEF sw
<1>4. /\ l \in [begun : Nat, last : Nat, switched : BOOLEAN]
      /\ l.begun = lists.begun + 1 /\ l.last = lists.last
      /\ l.switched = sw
  <2>1. n \in Nat /\ n = lists.begun + 1
    BY <1>2
  <2> HIDE DEF n
  <2> QED BY <1>0, <1>2, <2>1
<1> HIDE DEF r, l, n
<1>5. /\ call' \in [Calls -> CallType] /\ call'[c] = r
      /\ \A d \in Calls \ {c} : call'[d] = call[d]
      /\ Flying' = Flying \cup {c} /\ Written' = Written \ {c} /\ Flying \subseteq Calls
      /\ Written \subseteq Flying
  BY <1>1, <1>2, <1>3, CallChanges
<1>6. c \notin Flying /\ Written' = Written /\ \A d \in Flying : d # c /\ call'[d] = call[d]
  BY <1>1, <1>5 DEF Flying
<1>7. RowsTypeOK'
  BY <1>1, <1>2, <1>4, <1>5 DEF RowsTypeOK
<1>8. RowsAreKnown'
  BY <1>1, <1>3, <1>5, <1>6 DEF RowsInv, RowsAreKnown, Known
<1>9. OneCallOfRow'
  BY <1>1, <1>3, <1>5, <1>6, NoItemIsNoItem DEF RowsInv, OneCallOfRow
<1>10. SecretsAgree'
  BY <1>1, <1>6 DEF RowsInv, SecretsAgree, Written
<1>11. p # NoProject
  BY ProjectsAreListed DEF Rows!ProjectIds
<1>12. /\ lists.last <= lists.begun /\ \A d \in Flying : call[d].nth <= lists.begun
       /\ \A d \in Flying : call[d].nth \in Nat
  BY <1>2, <1>5 DEF RowsInv, ListsInOrder, RowsTypeOK, CallType
<1>13. ListsInOrder'
  BY <1>1, <1>2, <1>3, <1>4, <1>5, <1>6, <1>11, <1>12 DEF ListsInOrder
<1>14. ASSUME Undisturbed' PROVE ListsFollow'
  <2>1. \A d \in Flying : call[d].what = "list"
    BY <1>0, <1>1, <1>4, <1>5, <1>14 DEF Undisturbed, Rows!InFlight, Flying
  <2>2. \A d \in Flying' : call'[d].nth = lists'.begun => d = c
    BY <1>1, <1>2, <1>4, <1>5, <1>6, <1>12
  <2>3. lists'.last # lists'.begun
    BY <1>1, <1>2, <1>4, <1>12
  <2> QED BY <1>1, <1>3, <1>5, <1>6, <2>1, <2>2, <2>3 DEF ListsFollow
<1> QED BY <1>7, <1>8, <1>9, <1>10, <1>13, <1>14 DEF RowsInv

\* A handler is called: for a row of the page, or for a row that is not yet there.
LEMMA StartKeeps ==
    ASSUME RowsInv, NEW c \in Calls, NEW i \in Items \cup {NoItem}, NEW t \in Statuses,
           NEW w \in {"create", "rotate", "revoke", "toggle", "delete"},
           Rows!Start(c, w, i, t), selected # NoProject,
           i = NoItem <=> w = "create", i \in Items => Known(i)
    PROVE  RowsInv'
<1> DEFINE r == [Rows!NoCall EXCEPT !.pc = "write", !.what = w, !.of = selected, !.id = i, !.to = t]
<1>1. /\ call[c].pc = "new" /\ call' = [call EXCEPT ![c] = r]
      /\ entangled' = IF \E d \in Calls : Rows!InFlight(d) /\ call[d].id = i
                      THEN entangled \cup {i} ELSE entangled
      /\ UNCHANGED <<item, selected, shown, revealed, lists, faults>>
  BY DEF Rows!Start
<1>2. RowsTypeOK /\ lists \in [begun : Nat, last : Nat, switched : BOOLEAN]
  BY DEF RowsInv, RowsTypeOK
<1>3. /\ r \in CallType /\ r.pc = "write" /\ r.what = w /\ r.of = selected /\ r.nth = 0
      /\ r.id = i /\ r.to = t /\ r.rows = {}
  BY <1>2 DEF Rows!NoCall, CallType, RowsTypeOK
<1> HIDE DEF r
<1>4. /\ call' \in [Calls -> CallType] /\ call'[c] = r
      /\ \A d \in Calls \ {c} : call'[d] = call[d]
      /\ Flying' = Flying \cup {c} /\ Written' = Written \ {c} /\ Flying \subseteq Calls
      /\ Written \subseteq Flying
  BY <1>1, <1>2, <1>3, CallChanges
<1>5. c \notin Flying /\ Written' = Written /\ \A d \in Flying : d # c /\ call'[d] = call[d]
  BY <1>1, <1>4 DEF Flying
<1>6. /\ entangled \subseteq entangled' /\ entangled' \subseteq Items \cup {NoItem}
      /\ i \notin entangled' => \A d \in Flying : call[d].id # i
  BY <1>1, <1>2 DEF RowsTypeOK, Rows!InFlight, Flying
<1>7. RowsTypeOK'
  BY <1>1, <1>2, <1>4, <1>6 DEF RowsTypeOK
<1>8. RowsAreKnown'
  <2>1. t # "none"
    BY DEF Statuses
  <2> QED BY <1>1, <1>3, <1>4, <1>5, <2>1 DEF RowsInv, RowsAreKnown, Known
<1>9. OneCallOfRow'
  BY <1>1, <1>3, <1>4, <1>5, <1>6 DEF RowsInv, OneCallOfRow
<1>10. SecretsAgree'
  BY <1>1, <1>4, <1>5, <1>6 DEF RowsInv, SecretsAgree
<1>11. ListsInOrder'
  BY <1>1, <1>2, <1>3, <1>4, <1>5 DEF RowsInv, ListsInOrder
<1>12. ASSUME Undisturbed' PROVE ListsFollow'
  <2>1. Undisturbed /\ \A p : Rows!RowsOf(p)' = Rows!RowsOf(p)
    BY <1>1, <1>12 DEF Undisturbed, Rows!RowsOf, Rows!Exists
  <2>2. Rows!RowsOf(selected)' = Rows!RowsOf(selected)
    BY <1>1 DEF Rows!RowsOf, Rows!Exists
  <2> QED BY <1>1, <1>3, <1>4, <1>5, <2>1, <2>2 DEF RowsInv, ListsFollow
<1> QED BY <1>7, <1>8, <1>9, <1>10, <1>11, <1>12 DEF RowsInv

\* The secret leaves the page.
LEMMA DismissKeeps ==
    ASSUME RowsInv, UNCHANGED <<item, selected, shown, call, lists, entangled, faults>>,
           revealed' \in {revealed, Rows!NoSecret}
    PROVE  RowsInv'
<1>1. Flying' = Flying /\ Written' = Written
  BY DEF Flying, Written
<1>2. RowsTypeOK' /\ RowsAreKnown' /\ OneCallOfRow' /\ SecretsAgree' /\ ListsInOrder'
  BY <1>1, NoItemIsNoItem DEF RowsInv, RowsTypeOK, RowsAreKnown, Known, OneCallOfRow, SecretsAgree,
                              ListsInOrder, Rows!NoSecret
<1>3. Rows!RowsOf(selected)' = Rows!RowsOf(selected)
  BY DEF Rows!RowsOf, Rows!Exists
<1>4. Undisturbed' => ListsFollow'
  BY <1>1, <1>3 DEF RowsInv, Undisturbed, ListsFollow
<1> QED BY <1>2, <1>4 DEF RowsInv

\* A call fails, is refused, or reads its list: no row changes.
LEMMA QuietKeeps ==
    ASSUME RowsInv, NEW c \in Flying, NEW r \in CallType,
           call' = [call EXCEPT ![c] = r],
           r.of = call[c].of, r.id = call[c].id, r.what = call[c].what, r.nth = call[c].nth,
           \/ r.pc = "failed" /\ r.rows = call[c].rows
           \/ r.pc = "listed" /\ call[c].pc = "read" /\ r.rows = Rows!RowsOf(call[c].of),
           UNCHANGED <<item, selected, shown, revealed, lists>>,
           entangled \subseteq entangled', entangled' \subseteq Items \cup {NoItem},
           faults' \in Nat, faults' >= faults,
           call[c].pc = "written" => call[c].id \in entangled' /\ faults' # 0
    PROVE  RowsInv'
<1>1. RowsTypeOK /\ c \in Calls
  BY DEF RowsInv, Flying
<1>2. /\ call' \in [Calls -> CallType] /\ call'[c] = r
      /\ \A d \in Calls \ {c} : call'[d] = call[d]
      /\ Flying' = Flying /\ Written' = Written \ {c} /\ Flying \subseteq Calls
      /\ Written \subseteq Flying
  <2>1. r.pc \notin {"new", "done", "written"}
    OBVIOUS
  <2>2. Flying \cup {c} = Flying
    OBVIOUS
  <2> QED BY <1>1, <2>1, <2>2, CallChanges
<1>3. RowsTypeOK'
  BY <1>1, <1>2 DEF RowsTypeOK
<1>4. \A d \in Flying : /\ call'[d].id = call[d].id /\ call'[d].what = call[d].what
                        /\ call'[d].of = call[d].of /\ call'[d].nth = call[d].nth
  BY <1>2
<1>5. \A w \in r.rows : Known(w.id)
  BY <1>1, ListedAreKnown DEF RowsInv, RowsAreKnown
<1>6. RowsAreKnown'
  BY <1>2, <1>5 DEF RowsInv, RowsAreKnown, Known
<1>7. OneCallOfRow'
  BY <1>2, <1>4 DEF RowsInv, OneCallOfRow
<1>8. SecretsAgree'
  <2>1. \A d \in Written' : call'[d].id \notin entangled' => item[call'[d].id].secret = call'[d].secret
    BY <1>2 DEF RowsInv, SecretsAgree
  <2>2. ASSUME revealed.id \in Items \ entangled'
        PROVE  \/ item[revealed.id].secret = revealed.secret
               \/ \E d \in Written' : call'[d].what = "rotate" /\ call'[d].id = revealed.id
    <3>1. revealed.id \in Items \ entangled
      BY <2>2
    <3>2. CASE item[revealed.id].secret = revealed.secret
      BY <3>2
    <3>3. ASSUME NEW d \in Written, call[d].what = "rotate", call[d].id = revealed.id
          PROVE  d \in Written' /\ call'[d].what = "rotate" /\ call'[d].id = revealed.id
      BY <1>2, <2>2, <3>3 DEF Written
    <3> QED BY <3>1, <3>2, <3>3 DEF RowsInv, SecretsAgree
  <2> QED BY <2>1, <2>2 DEF SecretsAgree
<1>9. ListsInOrder'
  BY <1>2, <1>4 DEF RowsInv, ListsInOrder
<1>10. ASSUME Undisturbed' PROVE ListsFollow'
  <2>1. Undisturbed /\ call[c].pc # "written"
    BY <1>1, <1>10 DEF Undisturbed, RowsTypeOK
  <2>2. Written' = Written
    BY <1>2, <2>1 DEF Written
  <2>3. Rows!RowsOf(selected)' = Rows!RowsOf(selected)
    BY DEF Rows!RowsOf, Rows!Exists
  <2>4. ListsFollow
    BY <2>1 DEF RowsInv
  <2>5. \A d \in Flying : call[d].nth = lists.begun /\ call'[d].pc = "listed"
                            => call'[d].rows = Rows!RowsOf(selected) \/ Written # {}
    <3> TAKE d \in Flying
    <3>1. CASE d = c
      BY <1>2, <2>4, <3>1 DEF ListsFollow
    <3>2. CASE d # c
      BY <1>2, <2>4, <3>2 DEF ListsFollow
    <3> QED BY <3>1, <3>2
  <2>6. \A d \in Flying : call'[d].pc = "read" => call[d].pc = "read"
    BY <1>2
  <2> QED BY <1>2, <1>4, <2>2, <2>3, <2>4, <2>5, <2>6 DEF ListsFollow
<1> QED BY <1>3, <1>6, <1>7, <1>8, <1>9, <1>10 DEF RowsInv

\* A row is written, and its call knows the secret it has now.
LEMMA WrittenKeeps ==
    ASSUME RowsInv, NEW c \in Flying, call[c].pc = "write", NEW r \in CallType,
           NEW i \in Items, NEW x \in ItemType,
           call' = [call EXCEPT ![c] = r], item' = [item EXCEPT ![i] = x],
           r.pc = "written", r.of = call[c].of, r.id = i, r.what = call[c].what,
           r.to = call[c].to, r.nth = call[c].nth, r.rows = call[c].rows, r.secret = x.secret,
           x.status # "none",
           call[c].id = i \/ (call[c].id = NoItem /\ ~Known(i)),
           r.what # "rotate" => x.secret = item[i].secret \/ ~Known(i),
           UNCHANGED <<selected, shown, revealed, lists, entangled, faults>>
    PROVE  RowsInv'
<1>1. RowsTypeOK /\ c \in Calls
  BY DEF RowsInv, Flying
<1>2. /\ call' \in [Calls -> CallType] /\ call'[c] = r
      /\ \A d \in Calls \ {c} : call'[d] = call[d]
      /\ Flying' = Flying /\ Written' = Written \cup {c} /\ Flying \subseteq Calls
      /\ Written \subseteq Flying /\ c \notin Written
  <2>1. Flying \cup {c} = Flying /\ c \notin Written
    BY DEF Written
  <2> QED BY <1>1, <2>1, CallChanges
<1>3. item' \in [Items -> ItemType] /\ item'[i] = x /\ \A j \in Items \ {i} : item'[j] = item[j]
  BY <1>1 DEF RowsTypeOK
<1>4. RowsTypeOK'
  BY <1>1, <1>2, <1>3 DEF RowsTypeOK
<1>5. \A j \in Items : Known(j) => Known(j)'
  BY <1>3 DEF Known
<1>6. /\ shown \subseteq ShownRow /\ \A d \in Calls : call[d] \in CallType
      /\ revealed.id \in Items \cup {NoItem}
  BY <1>1 DEF RowsTypeOK, Rows!NoSecret
<1>7. RowsAreKnown'
  <2>1. \A w \in shown : Known(w.id)'
    BY <1>5, <1>6 DEF RowsInv, RowsAreKnown, ShownRow
  <2>2. \A d \in Calls : \A w \in call'[d].rows : w \in call[d].rows /\ w.id \in Items
    BY <1>2, <1>6 DEF CallType, ShownRow
  <2>3. \A d \in Calls : \A w \in call'[d].rows : Known(w.id)'
    BY <1>5, <2>2 DEF RowsInv, RowsAreKnown
  <2>4. \A d \in Flying : call'[d].id # NoItem => item'[call'[d].id].status # "none"
    <3> TAKE d \in Flying
    <3>1. CASE d = c
      BY <1>2, <1>3, <3>1
    <3>2. CASE d # c
      BY <1>2, <1>5, <1>6, <3>2 DEF RowsInv, RowsAreKnown, CallType, Known
    <3> QED BY <3>1, <3>2
  <2>5. revealed.id # NoItem => Known(revealed.id)'
    BY <1>5, <1>6 DEF RowsInv, RowsAreKnown, Known
  <2>6. \A d \in Flying : call'[d].pc \in {"write", "written"} =>
         /\ call'[d].what \notin {"none", "list"} /\ call'[d].to # "none"
         /\ call'[d].id = NoItem <=> call'[d].pc = "write" /\ call'[d].what = "create"
    BY <1>2, NoItemIsNoItem DEF RowsInv, RowsAreKnown
  <2> QED BY <1>2, <2>1, <2>3, <2>4, <2>5, <2>6 DEF RowsAreKnown, Known
\* No other call is of this row, if it is not entangled.
<1>8. \A d \in Flying : d # c /\ call[d].id = i => i \in entangled
  <2>1. CASE call[c].id = i
    BY <2>1 DEF RowsInv, OneCallOfRow
  <2>2. CASE ~Known(i)
    BY <2>2, NoItemIsNoItem DEF RowsInv, RowsAreKnown
  <2> QED BY <2>1, <2>2
<1>9. OneCallOfRow'
  BY <1>2, <1>8 DEF RowsInv, OneCallOfRow
<1>10. SecretsAgree'
  <2>1. \A d \in Written' : call'[d].id \notin entangled => item'[call'[d].id].secret = call'[d].secret
    <3> SUFFICES ASSUME NEW d \in Written', call'[d].id \notin entangled
                 PROVE  item'[call'[d].id].secret = call'[d].secret
      OBVIOUS
    <3>1. CASE d = c
      BY <1>2, <1>3, <3>1
    <3>2. CASE d # c
      <4>1. call'[d] = call[d] /\ d \in Written /\ d \in Flying
        BY <1>2, <3>2
      <4>2. call[d].id \in Items \ {i}
        BY <1>2, <1>6, <1>8, <3>2, <4>1 DEF RowsInv, RowsAreKnown, CallType, Written
      <4> QED BY <1>3, <4>1, <4>2 DEF RowsInv, SecretsAgree
    <3> QED BY <3>1, <3>2
  <2>2. ASSUME revealed.id \in Items \ entangled
        PROVE  \/ item'[revealed.id].secret = revealed.secret
               \/ \E d \in Written' : call'[d].what = "rotate" /\ call'[d].id = revealed.id
    <3>1. Known(revealed.id)
      BY <2>2, NoItemIsNoItem DEF RowsInv, RowsAreKnown
    <3>2. \A d \in Written : d # c /\ d \in Written' /\ call'[d] = call[d]
      BY <1>2
    <3>3. CASE r.what = "rotate" /\ i = revealed.id
      BY <1>2, <3>3
    <3>4. CASE ~(r.what = "rotate" /\ i = revealed.id)
      <4>1. item'[revealed.id].secret = item[revealed.id].secret
        BY <1>3, <2>2, <3>1, <3>4
      <4> QED BY <2>2, <3>2, <4>1 DEF RowsInv, SecretsAgree
    <3> QED BY <3>3, <3>4
  <2> QED BY <2>1, <2>2 DEF SecretsAgree
<1>11. ListsInOrder'
  BY <1>2 DEF RowsInv, ListsInOrder
<1>12. Undisturbed' => ListsFollow'
  BY <1>2 DEF RowsInv, Undisturbed, ListsFollow
<1> QED BY <1>4, <1>7, <1>9, <1>10, <1>11, <1>12 DEF RowsInv

LEMMA InsertKeeps == ASSUME RowsInv, NEW c \in Calls, Rows!Insert(c) PROVE RowsInv'
<1>1. /\ call[c].pc = "write" /\ call[c].what = "create"
      /\ UNCHANGED <<selected, shown, revealed, lists, entangled, faults>>
  BY DEF Rows!Insert
<1>2. PICK i \in Items :
        /\ item[i].status = "none"
        /\ item' = [item EXCEPT ![i] = [of |-> call[c].of, status |-> "active", secret |-> 1]]
        /\ call' = [call EXCEPT ![c].pc = "written", ![c].id = i, ![c].secret = 1]
  BY DEF Rows!Insert
<1> DEFINE r == [call[c] EXCEPT !.pc = "written", !.id = i, !.secret = 1]
           x == [of |-> call[c].of, status |-> "active", secret |-> 1]
<1>3. c \in Flying /\ call[c] \in CallType /\ call \in [Calls -> CallType]
  BY <1>1 DEF Flying, RowsInv, RowsTypeOK
<1>4. call[c].id = NoItem
  BY <1>1, <1>3 DEF RowsInv, RowsAreKnown
<1>5. /\ r \in CallType /\ r.pc = "written" /\ r.of = call[c].of /\ r.id = i
      /\ r.what = call[c].what /\ r.to = call[c].to /\ r.nth = call[c].nth
      /\ r.rows = call[c].rows /\ r.secret = 1
  BY <1>3 DEF CallType
<1>6. x \in ItemType /\ x.status # "none" /\ x.secret = 1
  BY <1>3 DEF ItemType, CallType, Statuses
<1>7. call' = [call EXCEPT ![c] = r] /\ item' = [item EXCEPT ![i] = x]
  BY <1>2, <1>3
<1> HIDE DEF r, x
<1>8. ~Known(i) /\ i \in Items
  BY <1>2 DEF Known
<1> QED BY <1>1, <1>3, <1>4, <1>5, <1>6, <1>7, <1>8, WrittenKeeps

LEMMA UpdateRowKeeps == ASSUME RowsInv, NEW c \in Calls, Rows!Update(c) PROVE RowsInv'
<1> DEFINE i == call[c].id
           s == IF call[c].what = "rotate" THEN item[i].secret + 1 ELSE item[i].secret
<1>1. /\ call[c].pc = "write" /\ call[c].what # "create"
      /\ UNCHANGED <<selected, shown, revealed, lists, entangled, faults>>
  BY DEF Rows!Update
<1>2. c \in Flying /\ call[c] \in CallType /\ call \in [Calls -> CallType]
      /\ item \in [Items -> ItemType] /\ entangled \subseteq Items \cup {NoItem} /\ faults \in Nat
  BY <1>1 DEF Flying, RowsInv, RowsTypeOK
<1>3. i \in Items /\ call[c].to # "none" /\ call[c].to \in Statuses
  BY <1>1, <1>2 DEF RowsInv, RowsAreKnown, CallType
<1>4. CASE /\ item' = [item EXCEPT ![i].status = call[c].to, ![i].secret = s]
           /\ call' = [call EXCEPT ![c].pc = "written", ![c].secret = s]
  <2> DEFINE r == [call[c] EXCEPT !.pc = "written", !.secret = s]
             x == [item[i] EXCEPT !.status = call[c].to, !.secret = s]
  <2>0. item[i] \in ItemType /\ s \in Nat
    BY <1>2, <1>3 DEF ItemType
  <2>1. call' = [call EXCEPT ![c] = r] /\ item' = [item EXCEPT ![i] = x]
    BY <1>2, <1>3, <1>4
  <2>2. call[c].what # "rotate" => s = item[i].secret
    OBVIOUS
  <2> HIDE DEF s
  <2>3. /\ r \in CallType /\ r.pc = "written" /\ r.of = call[c].of /\ r.id = i
        /\ r.what = call[c].what /\ r.to = call[c].to /\ r.nth = call[c].nth
        /\ r.rows = call[c].rows /\ r.secret = s
    BY <1>2, <2>0 DEF CallType
  <2>4. x \in ItemType /\ x.status # "none" /\ x.secret = s
    BY <1>3, <2>0 DEF ItemType
  <2> HIDE DEF r, x
  <2> QED BY <1>1, <1>2, <1>3, <2>1, <2>2, <2>3, <2>4, WrittenKeeps
<1>5. CASE call' = [call EXCEPT ![c].pc = "failed"] /\ UNCHANGED item
  <2> DEFINE r == [call[c] EXCEPT !.pc = "failed"]
  <2>1. call' = [call EXCEPT ![c] = r]
    BY <1>5
  <2>2. /\ r \in CallType /\ r.pc = "failed" /\ r.of = call[c].of /\ r.id = call[c].id
        /\ r.what = call[c].what /\ r.nth = call[c].nth /\ r.rows = call[c].rows
    BY <1>2 DEF CallType
  <2> HIDE DEF r, i, s
  <2>3. /\ UNCHANGED <<item, selected, shown, revealed, lists>>
        /\ entangled \subseteq entangled' /\ entangled' \subseteq Items \cup {NoItem}
        /\ faults' \in Nat /\ faults' >= faults /\ call[c].pc # "written"
    BY <1>1, <1>2, <1>5
  <2> QED BY <1>2, <2>1, <2>2, <2>3, QuietKeeps
<1> QED BY <1>4, <1>5 DEF Rows!Update

LEMMA LoseKeeps == ASSUME RowsInv, NEW c \in Calls, Rows!Lose(c) PROVE RowsInv'
<1> DEFINE r == [call[c] EXCEPT !.pc = "failed"]
<1>1. /\ call[c].pc \in {"write", "written"} /\ faults' = faults + 1
      /\ call' = [call EXCEPT ![c] = r]
      /\ entangled' = IF call[c].pc = "written" THEN entangled \cup {call[c].id} ELSE entangled
      /\ UNCHANGED <<item, selected, shown, revealed, lists>>
  BY DEF Rows!Lose, Rows!Break
<1>2. c \in Flying /\ call[c] \in CallType /\ entangled \subseteq Items \cup {NoItem} /\ faults \in Nat
  BY <1>1 DEF Flying, RowsInv, RowsTypeOK
<1>3. /\ r \in CallType /\ r.pc = "failed" /\ r.of = call[c].of /\ r.id = call[c].id
      /\ r.what = call[c].what /\ r.nth = call[c].nth /\ r.rows = call[c].rows
  BY <1>2 DEF CallType
<1>4. /\ entangled \subseteq entangled' /\ entangled' \subseteq Items \cup {NoItem}
      /\ faults' \in Nat /\ faults' >= faults /\ faults' # 0
      /\ call[c].pc = "written" => call[c].id \in entangled'
  BY <1>1, <1>2 DEF CallType
<1> HIDE DEF r
<1> QED BY <1>1, <1>2, <1>3, <1>4, QuietKeeps

LEMMA ReadKeeps == ASSUME RowsInv, NEW c \in Calls, Rows!Read(c) PROVE RowsInv'
<1>1. call[c].pc = "read" /\ UNCHANGED <<item, selected, shown, revealed, lists, entangled>>
  BY DEF Rows!Read
<1>2. c \in Flying /\ call[c] \in CallType /\ call \in [Calls -> CallType]
      /\ entangled \subseteq Items \cup {NoItem} /\ faults \in Nat /\ RowsTypeOK
  BY <1>1 DEF Flying, RowsInv, RowsTypeOK
<1>3. CASE /\ call' = [call EXCEPT ![c].pc = "listed", ![c].rows = Rows!RowsOf(call[c].of)]
           /\ UNCHANGED faults
  <2> DEFINE rs == Rows!RowsOf(call[c].of)
             r == [call[c] EXCEPT !.pc = "listed", !.rows = rs]
  <2>1. rs \subseteq ShownRow
    BY <1>2, ListedAreKnown
  <2>2. call' = [call EXCEPT ![c] = r]
    BY <1>2, <1>3
  <2> HIDE DEF rs
  <2>3. /\ r \in CallType /\ r.pc = "listed" /\ r.of = call[c].of /\ r.id = call[c].id
        /\ r.what = call[c].what /\ r.nth = call[c].nth /\ r.rows = rs
    BY <1>2, <2>1 DEF CallType
  <2> HIDE DEF r
  <2>4. r.rows = Rows!RowsOf(call[c].of)
    BY <2>3 DEF rs
  <2>5. /\ UNCHANGED <<item, selected, shown, revealed, lists>>
        /\ entangled \subseteq entangled' /\ entangled' \subseteq Items \cup {NoItem}
        /\ faults' \in Nat /\ faults' >= faults /\ call[c].pc # "written"
    BY <1>1, <1>2, <1>3
  <2> QED BY <1>1, <1>2, <2>2, <2>3, <2>4, <2>5, QuietKeeps
<1>4. CASE faults' = faults + 1 /\ call' = [call EXCEPT ![c].pc = "failed"]
  <2> DEFINE r == [call[c] EXCEPT !.pc = "failed"]
  <2>1. call' = [call EXCEPT ![c] = r]
    BY <1>4
  <2>2. /\ r \in CallType /\ r.pc = "failed" /\ r.of = call[c].of /\ r.id = call[c].id
        /\ r.what = call[c].what /\ r.nth = call[c].nth /\ r.rows = call[c].rows
    BY <1>2 DEF CallType
  <2> HIDE DEF r
  <2>3. faults' \in Nat /\ faults' >= faults
    BY <1>2, <1>4
  <2> QED BY <1>1, <1>2, <2>1, <2>2, <2>3, QuietKeeps
<1> QED BY <1>3, <1>4 DEF Rows!Read, Rows!Break

\* The handler reveals what it was answered and lists, as the newest.
LEMMA RowAnswerKeeps == ASSUME RowsInv, NEW c \in Calls, Rows!TakeAnswer(c) PROVE RowsInv'
<1> DEFINE r == [call[c] EXCEPT !.pc = "read", !.nth = lists.begun + 1]
           l == [lists EXCEPT !.begun = @ + 1]
<1>1. /\ call[c].pc = "written" /\ revealed' = Rows!Revealed(c)
      /\ call' = [call EXCEPT ![c] = r] /\ lists' = l
      /\ UNCHANGED <<item, selected, shown, entangled, faults>>
  BY DEF Rows!TakeAnswer, Rows!List
<1>2. /\ c \in Flying /\ c \in Written /\ call[c] \in CallType /\ RowsTypeOK
      /\ lists \in [begun : Nat, last : Nat, switched : BOOLEAN]
  BY <1>1 DEF Flying, Written, RowsInv, RowsTypeOK
<1>3. /\ r \in CallType /\ r.pc = "read" /\ r.of = call[c].of /\ r.id = call[c].id
      /\ r.what = call[c].what /\ r.nth = lists.begun + 1 /\ r.rows = call[c].rows
  <2>1. lists.begun + 1 \in Nat
    BY <1>2
  <2> QED BY <1>2, <2>1 DEF CallType
<1>4. /\ l \in [begun : Nat, last : Nat, switched : BOOLEAN]
      /\ l.begun = lists.begun + 1 /\ l.last = lists.last /\ l.switched = lists.switched
  BY <1>2
<1> HIDE DEF r, l
<1>5. /\ call' \in [Calls -> CallType] /\ call'[c] = r
      /\ \A d \in Calls \ {c} : call'[d] = call[d]
      /\ Flying' = Flying /\ Written' = Written \ {c} /\ Flying \subseteq Calls
      /\ Written \subseteq Flying
  <2>1. Flying \cup {c} = Flying /\ Flying \subseteq Calls
    BY <1>2 DEF Flying
  <2> QED BY <1>1, <1>2, <1>3, <2>1, CallChanges
<1>6. call[c].id \in Items /\ call[c].what # "list" /\ call[c].secret \in Nat
  BY <1>1, <1>2 DEF RowsInv, RowsAreKnown, CallType
<1>7. \/ call[c].what \in {"create", "rotate"} /\ revealed' = [id |-> call[c].id, secret |-> call[c].secret]
      \/ call[c].what \notin {"create", "rotate"} /\ revealed' = revealed
  BY <1>1 DEF Rows!Revealed
<1>8. RowsTypeOK'
  BY <1>1, <1>2, <1>4, <1>5, <1>6, <1>7 DEF RowsTypeOK
<1>9. \A d \in Flying : /\ call'[d].id = call[d].id /\ call'[d].what = call[d].what
                        /\ call'[d].of = call[d].of
  BY <1>3, <1>5
<1>10. RowsAreKnown'
  <2>1. \A d \in Calls : call'[d].rows = call[d].rows
    BY <1>3, <1>5
  <2>2. \A d \in Flying : call'[d].pc \in {"write", "written"} => call'[d] = call[d]
    BY <1>3, <1>5
  <2>3. revealed'.id # NoItem => Known(revealed'.id)
    BY <1>2, <1>6, <1>7, NoItemIsNoItem DEF RowsInv, RowsAreKnown
  <2> QED BY <1>1, <1>5, <1>9, <2>1, <2>2, <2>3 DEF RowsInv, RowsAreKnown, Known
<1>11. OneCallOfRow'
  BY <1>1, <1>5, <1>9 DEF RowsInv, OneCallOfRow
<1>12. SecretsAgree'
  <2>1. \A d \in Written' : d \in Written /\ d # c /\ call'[d] = call[d]
    BY <1>5
  <2>2. \A d \in Written \ {c} : d \in Written' /\ call'[d] = call[d]
    BY <1>5
  <2>3. CASE call[c].what \in {"create", "rotate"}
    <3>1. revealed'.id = call[c].id /\ revealed'.secret = call[c].secret
      BY <1>7, <2>3
    <3> QED BY <1>1, <1>2, <2>1, <3>1 DEF RowsInv, SecretsAgree
  <2>4. CASE call[c].what \notin {"create", "rotate"}
    <3>1. revealed' = revealed
      BY <1>7, <2>4
    <3> QED BY <1>1, <2>1, <2>2, <2>4, <3>1 DEF RowsInv, SecretsAgree
  <2> QED BY <2>3, <2>4
<1>13. /\ lists.last <= lists.begun /\ \A d \in Flying : call[d].nth <= lists.begun
       /\ \A d \in Flying : call[d].nth \in Nat
  BY <1>2, <1>5 DEF RowsInv, ListsInOrder, RowsTypeOK, CallType
<1>14. ListsInOrder'
  BY <1>1, <1>2, <1>3, <1>4, <1>5, <1>13 DEF RowsInv, ListsInOrder
<1>15. ASSUME Undisturbed' PROVE ListsFollow'
  <2>1. ListsFollow
    BY <1>1, <1>4, <1>15 DEF RowsInv, Undisturbed
  <2>2. \A d \in Flying' : call'[d].nth = lists'.begun => d = c
    BY <1>1, <1>2, <1>4, <1>5, <1>13
  <2>3. lists'.last # lists'.begun
    BY <1>1, <1>2, <1>4, <1>13
  <2> QED BY <1>1, <1>2, <1>3, <1>5, <1>6, <1>9, <2>1, <2>2, <2>3 DEF ListsFollow
<1> QED BY <1>8, <1>10, <1>11, <1>12, <1>14, <1>15 DEF RowsInv

\* A run ends, having shown its list or having failed.
LEMMA EndKeeps ==
    ASSUME RowsInv, NEW c \in Calls, Rows!Finish(c),
           UNCHANGED <<item, selected, revealed, entangled, faults>>,
           \/ call[c].pc = "failed" /\ UNCHANGED <<shown, lists>>
           \/ /\ call[c].pc = "listed" /\ shown' = call[c].rows
              /\ lists' = [lists EXCEPT !.last = call[c].nth]
    PROVE  RowsInv'
<1> DEFINE r == [Rows!NoCall EXCEPT !.pc = "done"]
<1>1. call' = [call EXCEPT ![c] = r]
  BY DEF Rows!Finish
<1>2. r \in CallType /\ r.pc = "done" /\ r.rows = {}
  BY DEF Rows!NoCall, CallType
<1> HIDE DEF r
<1>3. /\ c \in Flying /\ c \notin Written /\ call[c] \in CallType /\ RowsTypeOK
      /\ lists \in [begun : Nat, last : Nat, switched : BOOLEAN]
  BY DEF Flying, Written, RowsInv, RowsTypeOK
<1>4. /\ call' \in [Calls -> CallType] /\ call'[c] = r
      /\ \A d \in Calls \ {c} : call'[d] = call[d]
      /\ Flying' = Flying \ {c} /\ Written' = Written \ {c} /\ Flying \subseteq Calls
      /\ Written \subseteq Flying
  BY <1>1, <1>2, <1>3, CallChanges
<1>5. Written' = Written /\ \A d \in Flying' : d \in Flying /\ call'[d] = call[d]
  BY <1>3, <1>4
<1>6. /\ lists' \in [begun : Nat, last : Nat, switched : BOOLEAN]
      /\ lists'.begun = lists.begun /\ lists'.switched = lists.switched
      /\ lists'.last = lists.last \/ (call[c].pc = "listed" /\ lists'.last = call[c].nth)
  BY <1>3 DEF CallType
<1>7. shown' \subseteq ShownRow
  BY <1>3 DEF RowsTypeOK, CallType
<1>8. RowsTypeOK'
  BY <1>3, <1>4, <1>6, <1>7 DEF RowsTypeOK
<1>9. RowsAreKnown'
  <2>1. \A w \in shown' : Known(w.id)
    BY DEF RowsInv, RowsAreKnown
  <2>2. \A d \in Calls : call'[d].rows \in {{}, call[d].rows}
    BY <1>2, <1>4
  <2> QED BY <1>5, <2>1, <2>2 DEF RowsInv, RowsAreKnown, Known
<1>10. OneCallOfRow'
  BY <1>5 DEF RowsInv, OneCallOfRow
<1>11. SecretsAgree'
  BY <1>4, <1>5 DEF RowsInv, SecretsAgree
<1>12. ListsInOrder'
  <2>1. selected # NoProject
    BY <1>3 DEF RowsInv, ListsInOrder
  <2> QED BY <1>3, <1>5, <1>6, <2>1 DEF RowsInv, ListsInOrder
<1>13. ASSUME Undisturbed' PROVE ListsFollow'
  <2>1. ListsFollow
    BY <1>6, <1>13 DEF RowsInv, Undisturbed
  <2>2. Rows!RowsOf(selected)' = Rows!RowsOf(selected)
    BY DEF Rows!RowsOf, Rows!Exists
  <2>3. lists'.last = lists'.begun => shown' = Rows!RowsOf(selected) \/ Written # {}
    <3>1. CASE call[c].pc = "failed"
      BY <2>1, <3>1 DEF ListsFollow
    <3>2. CASE call[c].pc = "listed"
      <4>1. lists'.last = call[c].nth
        BY <1>3, <3>2
      <4> QED BY <1>3, <1>6, <2>1, <3>2, <4>1 DEF ListsFollow
    <3> QED BY <3>1, <3>2
  <2> QED BY <1>5, <1>6, <2>1, <2>2, <2>3 DEF ListsFollow
<1> QED BY <1>8, <1>9, <1>10, <1>11, <1>12, <1>13 DEF RowsInv

\* The buttons of a row of the page.
LEMMA ButtonsKeep ==
    ASSUME RowsInv, Rows!ApiKeysPage \/ Rows!WebhooksPage
    PROVE  RowsInv'
<1>1. \A shownRow \in shown : shownRow.id \in Items /\ shownRow.id # NoItem /\ Known(shownRow.id)
  BY NoItemIsNoItem DEF RowsInv, RowsTypeOK, RowsAreKnown, ShownRow
<1>2. shown # {} => selected # NoProject
  BY DEF RowsInv, ListsInOrder
<1>3. CASE Rows!ApiKeysPage
  <2>1. PICK c \in Calls, shownRow \in shown, w \in {"rotate", "revoke"} :
          Rows!Start(c, w, shownRow.id, IF w = "revoke" THEN "revoked" ELSE "active")
    BY <1>3 DEF Rows!ApiKeysPage, Rows!RotateOrRevoke
  <2> DEFINE t == IF w = "revoke" THEN "revoked" ELSE "active"
  <2>2. t \in Statuses /\ Rows!Start(c, w, shownRow.id, t)
    BY <2>1 DEF Statuses
  <2> HIDE DEF t
  <2> QED BY <1>1, <1>2, <2>2, StartKeeps
<1>4. CASE Rows!WebhooksPage
  <2>1. PICK c \in Calls, shownRow \in shown, w \in {"toggle", "delete"} :
          Rows!Start(c, w, shownRow.id, CASE w = "delete" -> "gone"
                                     [] shownRow.status = "active" -> "disabled"
                                     [] OTHER -> "active")
    BY <1>4 DEF Rows!WebhooksPage, Rows!ToggleOrDelete
  <2> DEFINE t == CASE w = "delete" -> "gone" [] shownRow.status = "active" -> "disabled"
                    [] OTHER -> "active"
  <2>2. t \in Statuses /\ Rows!Start(c, w, shownRow.id, t)
    BY <2>1 DEF Statuses
  <2> HIDE DEF t
  <2> QED BY <1>1, <1>2, <2>2, StartKeeps
<1> QED BY <1>3, <1>4

LEMMA RowsStep == RowsInv /\ [Rows!Next]_projectVars => RowsInv'
<1> SUFFICES ASSUME RowsInv, [Rows!Next]_projectVars PROVE RowsInv'
  OBVIOUS
<1>1. ASSUME NEW c \in Calls, NEW p \in Rows!ProjectIds, Rows!Choose(c, p) PROVE RowsInv'
  BY <1>1, ChooseKeeps
<1>2. CASE Rows!ApiKeysPage \/ Rows!WebhooksPage
  BY <1>2, ButtonsKeep
<1>3. ASSUME NEW c \in Calls, Rows!Create(c) PROVE RowsInv'
  <2>1. selected # NoProject /\ Rows!Start(c, "create", NoItem, "active") /\ "active" \in Statuses
    BY <1>3 DEF Rows!Create, Statuses
  <2> QED BY <2>1, StartKeeps, NoItemIsNoItem
<1>4. ASSUME NEW c \in Calls,
             Rows!Insert(c) \/ Rows!Update(c) \/ Rows!Lose(c) \/ Rows!Read(c) \/ Rows!TakeAnswer(c)
      PROVE  RowsInv'
  BY <1>4, InsertKeeps, UpdateRowKeeps, LoseKeeps, ReadKeeps, RowAnswerKeeps
<1>5. ASSUME NEW c \in Calls, Rows!TakeList(c) \/ Rows!TakeError(c) PROVE RowsInv'
  BY <1>5, EndKeeps DEF Rows!TakeList, Rows!TakeError
<1>6. CASE Rows!Dismiss
  BY <1>6, DismissKeeps DEF Rows!Dismiss
<1>7. CASE UNCHANGED projectVars
  BY <1>7, DismissKeeps DEF projectVars
<1> QED BY <1>1, <1>2, <1>3, <1>4, <1>5, <1>6, <1>7 DEF Rows!Next

LEMMA RowsConclusion == RowsInv => ListIsOfSelected /\ RevealedSecretIsCurrent
<1> SUFFICES ASSUME RowsInv PROVE ListIsOfSelected /\ RevealedSecretIsCurrent
  OBVIOUS
<1>1. ListIsOfSelected
  <2> SUFFICES ASSUME selected # NoProject, Rows!AtRest,
                      lists.last = lists.begun, ~lists.switched, faults = 0
               PROVE  shown = Rows!RowsOf(selected)
    BY DEF ListIsOfSelected, Rows!ListIsOfSelected, Rows!RowsOf
  <2>1. Written = {}
    BY DEF Rows!AtRest, Rows!InFlight, Written
  <2> QED BY <2>1 DEF RowsInv, Undisturbed, ListsFollow
<1>2. RevealedSecretIsCurrent
  <2> SUFFICES ASSUME revealed # Rows!NoSecret, revealed.id \notin entangled,
                      \A c \in Calls : Rows!InFlight(c) => call[c].id # revealed.id
               PROVE  item[revealed.id].secret = revealed.secret
    BY DEF RevealedSecretIsCurrent, Rows!RevealedSecretIsCurrent
  <2>1. revealed.id \in Items
    BY DEF RowsInv, RowsTypeOK
  <2>2. \A c \in Written : call[c].id # revealed.id
    BY DEF Written, Rows!InFlight
  <2> QED BY <2>1, <2>2 DEF RowsInv, SecretsAgree
<1> QED BY <1>1, <1>2

-----------------------------------------------------------------------------
(***************************************************************************)
(* The pages that show a change before it is saved.                        *)
(*                                                                         *)
(* Unless something has happened that CopyIsSaved excuses, or is bound to, *)
(* the copy agrees with the table and the saves that are still to be       *)
(* applied: every cell shows what the newest of them says, or else what    *)
(* the table holds.  When a save was refused, the same is true of the copy *)
(* it will put back; so it is of the copy the newest save keeps, were that *)
(* save not there.                                                         *)
(***************************************************************************)
Sent == {s \in Saves : save[s].pc = "sent"}
Refused == {s \in Saves : save[s].pc = "refused"}

SaveType == [pc : {"new", "sent", "saved", "refused", "done"},
             cell : Copy!Columns, to : BOOLEAN,
             before : Copy!Prefs \cup {NoRow}, nth : Nat]

Newest(s, ss, sv) == \A t \in ss : sv[t].cell = sv[s].cell => sv[t].nth <= sv[s].nth

\* p shows what the saves ss, as they are in sv, make of the cells eff.
Agrees(p, ss, sv, eff) ==
    \A c \in Cells :
        /\ (\A s \in ss : sv[s].cell # c) => p[c] = eff[c]
        /\ \A s \in ss : sv[s].cell = c /\ Newest(s, ss, sv) => p[c] = sv[s].to

Doomed ==
    \/ raced
    \/ \E s \in Refused : save[s].nth < begun
    \/ \E s \in Sent : save[s].nth < applied[save[s].cell]

CopyTypeOK ==
    /\ row \in Copy!Prefs \cup {NoRow}
    /\ copy \in Copy!Prefs \cup {NoRow}
    /\ other \in Copy!Prefs \cup {NoRow}
    /\ reading.pc = "read" => reading.got \in Copy!Prefs
    /\ begun \in Nat
    /\ applied \in [Cells -> Nat]
    /\ raced \in BOOLEAN
    /\ save \in [Saves -> SaveType]

SavesInOrder ==
    /\ \A c \in Cells : applied[c] <= begun
    /\ \A s \in Copy!InFlight :
         save[s].cell \in Cells /\ save[s].before \in Copy!Prefs /\ save[s].nth \in 1 .. begun
    /\ \A s, t \in Copy!InFlight : save[s].nth = save[t].nth => s = t

CopyFollows ==
    /\ Refused = {} /\ copy # NoRow => Agrees(copy, Sent, save, Copy!Effective(row))
    /\ \A s \in Refused : Agrees(save[s].before, Sent, save, Copy!Effective(row))
    /\ \A s \in Sent :
         save[s].nth = begun => Agrees(save[s].before, Sent \ {s}, save, Copy!Effective(row))

CopyInv == CopyTypeOK /\ SavesInOrder /\ (~Doomed => CopyFollows)

LEMMA CopyInit == Copy!Init => CopyInv
<1> SUFFICES ASSUME Copy!Init PROVE CopyInv
  OBVIOUS
<1>1. Copy!NoSave \in SaveType
  BY DEF SaveType, Copy!NoSave, Copy!Columns
<1>2. \A s \in Saves : save[s] = Copy!NoSave /\ save[s].pc = "new"
  BY DEF Copy!Init, Copy!NoSave
<1>3. Copy!InFlight = {} /\ Sent = {} /\ Refused = {}
  BY <1>2 DEF Copy!InFlight, Sent, Refused
<1>4. CopyTypeOK
  <2>1. save \in [Saves -> SaveType]
    BY <1>1 DEF Copy!Init
  <2>2. row \in Copy!Prefs \cup {NoRow}
    BY DEF Copy!Init
  <2>3. applied \in [Cells -> Nat]
    BY DEF Copy!Init
  <2> QED BY <2>1, <2>2, <2>3 DEF Copy!Init, CopyTypeOK
<1>5. SavesInOrder
  BY <1>3 DEF Copy!Init, SavesInOrder
<1> QED BY <1>3, <1>4, <1>5 DEF Copy!Init, CopyInv, CopyFollows

\* What the page shows of a row that does not exist is what is inserted first.
LEMMA UpsertKeeps ==
    ASSUME row \in Copy!Prefs \cup {NoRow}, NEW p \in Copy!Prefs, NEW d \in Copy!Columns
    PROVE  /\ Copy!Effective(row) \in Copy!Prefs
           /\ Copy!Upsert(p, {d}) \in Copy!Prefs
           /\ Copy!Effective(Copy!Upsert(p, {d})) = Copy!Upsert(p, {d})
           /\ Copy!Upsert(p, {d})[d] = p[d]
           /\ \A c \in Copy!Columns \ {d} :
                Copy!Upsert(p, {d})[c] = Copy!Effective(row)[c]
<1>1. Copy!Effective(row) \in Copy!Prefs
  BY DEF Copy!Effective, Copy!Defaults, Copy!Prefs
<1>2. Copy!Upsert(p, {d}) \in Copy!Prefs
  BY DEF Copy!Upsert, Copy!Prefs, Copy!Inserted
<1>3. Copy!Upsert(p, {d}) # NoRow
  BY <1>2, NoRowIsNoRow DEF Copy!Prefs, Copy!Columns
<1> QED
  BY <1>1, <1>2, <1>3 DEF Copy!Upsert, Copy!Effective, Copy!Defaults, Copy!Inserted

\* Agreement only depends on what the saves say and on the cells.
LEMMA AgreesIsKept ==
    ASSUME NEW p, NEW ss, NEW sv, NEW sw, NEW eff, NEW fff, Agrees(p, ss, sv, eff),
           \A s \in ss : sw[s] = sv[s],
           \A c \in Cells : fff[c] = eff[c]
    PROVE  Agrees(p, ss, sw, fff)
BY DEF Agrees, Newest

\* When a save is applied that is the oldest of its cell, the table agrees with
\* what it said.
LEMMA AppliedAgrees ==
    ASSUME NEW p, NEW ss, NEW sv, NEW sw, NEW eff, NEW fff, Agrees(p, ss, sv, eff),
           NEW s \in ss, sv[s].cell \in Cells,
           \A t \in ss : sv[t].nth \in Nat,
           \A t \in ss \ {s} : sw[t] = sv[t],
           \A t \in ss : sv[t].cell = sv[s].cell => sv[s].nth <= sv[t].nth,
           fff[sv[s].cell] = sv[s].to,
           \A c \in Cells \ {sv[s].cell} : fff[c] = eff[c]
    PROVE  Agrees(p, ss \ {s}, sw, fff)
<1> SUFFICES ASSUME NEW c \in Cells
             PROVE  /\ (\A t \in ss \ {s} : sw[t].cell # c) => p[c] = fff[c]
                    /\ \A t \in ss \ {s} :
                         sw[t].cell = c /\ Newest(t, ss \ {s}, sw) => p[c] = sw[t].to
  BY DEF Agrees
<1>1. CASE c = sv[s].cell
  <2>1. ASSUME \A t \in ss \ {s} : sw[t].cell # c
        PROVE  p[c] = fff[c]
    <3>1. Newest(s, ss, sv)
      BY <1>1, <2>1 DEF Newest
    <3> QED BY <1>1, <3>1 DEF Agrees
  <2>2. ASSUME NEW t \in ss \ {s}, sw[t].cell = c, Newest(t, ss \ {s}, sw)
        PROVE  p[c] = sw[t].to
    <3>1. Newest(t, ss, sv)
      BY <1>1, <2>2 DEF Newest
    <3> QED BY <2>2, <3>1 DEF Agrees
  <2> QED BY <2>1, <2>2
<1>2. CASE c # sv[s].cell
  <2>1. ASSUME \A t \in ss \ {s} : sw[t].cell # c
        PROVE  p[c] = fff[c]
    <3>1. \A t \in ss : sv[t].cell # c
      BY <1>2, <2>1
    <3> QED BY <1>2, <3>1 DEF Agrees
  <2>2. ASSUME NEW t \in ss \ {s}, sw[t].cell = c, Newest(t, ss \ {s}, sw)
        PROVE  p[c] = sw[t].to
    <3>1. Newest(t, ss, sv)
      BY <1>2, <2>2 DEF Newest
    <3> QED BY <2>2, <3>1 DEF Agrees
  <2> QED BY <2>1, <2>2
<1> QED BY <1>1, <1>2

\* One save goes on.
LEMMA SaveGoesOn ==
    ASSUME CopyTypeOK, NEW s \in Saves, NEW r \in SaveType,
           save' = [save EXCEPT ![s] = r]
    PROVE  /\ save' \in [Saves -> SaveType] /\ save'[s] = r
           /\ \A t \in Saves \ {s} : save'[t] = save[t]
BY DEF CopyTypeOK

\* A step that writes no row, changes no save and does not touch the copy.
LEMMA ReadingKeepsCopy ==
    ASSUME CopyInv, UNCHANGED <<copy, save, begun, applied, raced>>,
           row' \in Copy!Prefs \cup {NoRow}, other' \in Copy!Prefs \cup {NoRow},
           reading'.pc = "read" => reading'.got \in Copy!Prefs,
           \A c \in Cells : Copy!Effective(row')[c] = Copy!Effective(row)[c]
    PROVE  CopyInv'
<1>1. Sent' = Sent /\ Refused' = Refused /\ Copy!InFlight' = Copy!InFlight
      /\ Sent \subseteq Saves
  BY DEF Sent, Refused, Copy!InFlight
<1>2. CopyTypeOK' /\ SavesInOrder'
  BY <1>1 DEF CopyInv, CopyTypeOK, SavesInOrder
<1>3. Doomed' = Doomed
  BY <1>1 DEF Doomed
<1>4. CopyFollows => CopyFollows'
  BY <1>1, AgreesIsKept DEF CopyFollows
<1> QED BY <1>2, <1>3, <1>4 DEF CopyInv

\* A load that arrives while no save is under way brings the row as it is.
LEMMA TakeRowKeeps == ASSUME CopyInv, Copy!TakeRow PROVE CopyInv'
<1>1. /\ copy' = reading.got /\ reading'.pc = "none"
      /\ UNCHANGED <<row, save, other, begun, applied>>
      /\ raced' = (raced \/ reading.got # Copy!Effective(row) \/ Copy!InFlight # {})
      /\ reading.got \in Copy!Prefs
  BY DEF Copy!TakeRow, Copy!NoRead, CopyInv, CopyTypeOK
<1>2. CopyTypeOK' /\ SavesInOrder'
  BY <1>1 DEF CopyInv, CopyTypeOK, SavesInOrder, Copy!InFlight
<1>3. ASSUME ~raced' PROVE CopyFollows'
  <2>1. copy' = Copy!Effective(row) /\ Copy!InFlight = {}
    BY <1>1, <1>3
  <2>2. Sent' = {} /\ Refused' = {}
    BY <1>1, <2>1 DEF Sent, Refused, Copy!InFlight
  <2> QED BY <1>1, <2>1, <2>2 DEF CopyFollows, Agrees
<1> QED BY <1>2, <1>3 DEF CopyInv, Doomed

\* A change becomes the newest save; what it keeps is the copy as it was.
LEMMA ChangeKeeps ==
    ASSUME CopyInv, NEW s \in Saves, NEW c \in Cells, Copy!Change(s, c)
    PROVE  CopyInv'
<1> DEFINE r == [pc |-> "sent", cell |-> c, to |-> ~copy[c], before |-> copy, nth |-> begun + 1]
<1>1. /\ save[s].pc = "new" /\ copy \in Copy!Prefs
      /\ copy' = [copy EXCEPT ![c] = ~@]
      /\ save' = [save EXCEPT ![s] = r]
      /\ begun' = begun + 1
      /\ UNCHANGED <<row, reading, other, applied, raced>>
  BY DEF Copy!Change, CopyInv, CopyTypeOK
<1>2. r \in SaveType
  BY <1>1 DEF SaveType, Copy!Columns, CopyInv, CopyTypeOK
<1>3. /\ save' \in [Saves -> SaveType] /\ save'[s] = r
      /\ \A t \in Saves \ {s} : save'[t] = save[t]
  BY <1>1, <1>2, SaveGoesOn DEF CopyInv
<1>4. r.pc = "sent" /\ r.cell = c /\ r.to = ~copy[c] /\ r.before = copy /\ r.nth = begun + 1
  OBVIOUS
<1> HIDE DEF r
<1>5. /\ Sent' = Sent \cup {s} /\ Refused' = Refused /\ s \notin Sent /\ s \notin Refused
      /\ Copy!InFlight' = Copy!InFlight \cup {s} /\ s \notin Copy!InFlight
      /\ Sent \subseteq Copy!InFlight /\ Refused \subseteq Copy!InFlight
  BY <1>1, <1>3, <1>4 DEF Sent, Refused, Copy!InFlight
<1>6. copy' \in Copy!Prefs /\ copy'[c] = ~copy[c]
      /\ \A d \in Cells \ {c} : copy'[d] = copy[d]
  BY <1>1 DEF Copy!Prefs, Copy!Columns
<1>7. CopyTypeOK'
  BY <1>1, <1>3, <1>6 DEF CopyInv, CopyTypeOK
<1>8. /\ begun \in Nat /\ \A d \in Cells : applied[d] \in Nat /\ applied[d] <= begun
      /\ \A t \in Copy!InFlight : t # s /\ save'[t] = save[t] /\ save[t].nth \in 1 .. begun
  BY <1>3, <1>5 DEF CopyInv, CopyTypeOK, SavesInOrder, Copy!InFlight
<1>9. SavesInOrder'
  <2>1. \A d \in Cells : applied'[d] <= begun'
    BY <1>1, <1>8
  <2>2. \A t \in Copy!InFlight' :
          save'[t].cell \in Cells /\ save'[t].before \in Copy!Prefs /\ save'[t].nth \in 1 .. begun'
    BY <1>1, <1>3, <1>4, <1>5, <1>8 DEF CopyInv, SavesInOrder
  <2>3. \A t, u \in Copy!InFlight' : save'[t].nth = save'[u].nth => t = u
    BY <1>3, <1>4, <1>5, <1>8 DEF CopyInv, SavesInOrder
  <2> QED BY <2>1, <2>2, <2>3 DEF SavesInOrder
<1>10. ASSUME ~Doomed' PROVE CopyFollows'
  <2>1. Refused = {}
    <3> SUFFICES ASSUME NEW t \in Refused PROVE FALSE
      OBVIOUS
    <3>1. save'[t].nth < begun' /\ t \in Refused'
      BY <1>1, <1>5, <1>8
    <3> QED BY <1>10, <3>1 DEF Doomed
  <2>2. ~Doomed
    <3>1. \A t \in Sent : ~(save[t].nth < applied[save[t].cell])
      BY <1>1, <1>5, <1>8, <1>10 DEF Doomed
    <3> QED BY <1>1, <1>10, <2>1, <3>1 DEF Doomed
  <2>3. Agrees(copy, Sent, save, Copy!Effective(row))
    <3>1. copy # NoRow
      BY <1>1 DEF Copy!Change
    <3> QED BY <2>1, <2>2, <3>1 DEF CopyInv, CopyFollows
  <2>4. Agrees(copy', Sent \cup {s}, save', Copy!Effective(row'))
    <3> SUFFICES ASSUME NEW d \in Cells
                 PROVE  /\ (\A t \in Sent \cup {s} : save'[t].cell # d)
                             => copy'[d] = Copy!Effective(row')[d]
                        /\ \A t \in Sent \cup {s} :
                             save'[t].cell = d /\ Newest(t, Sent \cup {s}, save')
                               => copy'[d] = save'[t].to
      BY DEF Agrees
    <3>1. ASSUME \A t \in Sent \cup {s} : save'[t].cell # d
          PROVE  copy'[d] = Copy!Effective(row')[d]
      <4>1. d # c /\ \A t \in Sent : save[t].cell # d
        BY <1>3, <1>4, <1>5, <1>8, <3>1
      <4> QED BY <1>1, <1>6, <2>3, <4>1 DEF Agrees
    <3>2. ASSUME NEW t \in Sent \cup {s}, save'[t].cell = d, Newest(t, Sent \cup {s}, save')
          PROVE  copy'[d] = save'[t].to
      <4>1. CASE t = s
        BY <1>3, <1>4, <1>6, <3>2, <4>1
      <4>2. CASE t # s
        <5>1. save'[t] = save[t] /\ save[t].nth <= begun
          BY <1>5, <1>8, <4>2
        <5>2. d # c
          <6> SUFFICES ASSUME d = c PROVE FALSE
            OBVIOUS
          <6>1. save'[s].nth <= save'[t].nth
            BY <1>3, <1>4, <3>2 DEF Newest
          <6> QED BY <1>3, <1>4, <1>5, <1>8, <4>2, <5>1, <6>1
        <5>3. Newest(t, Sent, save)
          BY <1>5, <1>8, <3>2, <5>1 DEF Newest
        <5>4. copy[d] = save[t].to
          BY <2>3, <3>2, <4>2, <5>1, <5>3 DEF Agrees
        <5> QED BY <1>6, <5>1, <5>2, <5>4
      <4> QED BY <4>1, <4>2
    <3> QED BY <3>1, <3>2
  <2>5. ASSUME NEW t \in Sent', save'[t].nth = begun'
        PROVE  Agrees(save'[t].before, Sent' \ {t}, save', Copy!Effective(row'))
    <3>1. t = s
      BY <1>1, <1>5, <1>8, <2>5
    <3>2. \A u \in Sent : save'[u] = save[u]
      BY <1>5, <1>8
    <3>3. save'[s].before = copy /\ row' = row /\ Sent' \ {s} = Sent
      BY <1>1, <1>3, <1>4, <1>5
    <3> QED BY <2>3, <3>1, <3>2, <3>3, AgreesIsKept
  <2> QED BY <1>5, <2>1, <2>4, <2>5 DEF CopyFollows
<1> QED BY <1>7, <1>9, <1>10 DEF CopyInv

\* The oldest save of a cell is applied, and every copy that agreed with the
\* saves before agrees with those that are left.
LEMMA ApplyKeeps == ASSUME CopyInv, NEW s \in Saves, Copy!Apply(s) PROVE CopyInv'
<1> DEFINE c == save[s].cell
           r == [save[s] EXCEPT !.pc = "saved"]
<1>1. /\ save[s].pc = "sent"
      /\ row' = Copy!Upsert([Copy!Effective(row) EXCEPT ![c] = save[s].to], {c})
      /\ raced' = (raced \/ applied[c] > save[s].nth)
      /\ applied' = [applied EXCEPT ![c] = IF @ > save[s].nth THEN @ ELSE save[s].nth]
      /\ save' = [save EXCEPT ![s] = r]
      /\ UNCHANGED <<copy, reading, other, begun>>
  BY DEF Copy!Apply
<1>2. /\ save[s] \in SaveType /\ s \in Copy!InFlight /\ c \in Cells /\ c \in Copy!Columns
      /\ save[s].nth \in 1 .. begun
  BY <1>1 DEF CopyInv, CopyTypeOK, SavesInOrder, Copy!InFlight, Copy!Columns
<1>3. r \in SaveType /\ r.pc = "saved" /\ r.nth = save[s].nth /\ r.cell = c
      /\ r.before = save[s].before
  BY <1>2 DEF SaveType
<1> HIDE DEF r
<1>4. /\ save' \in [Saves -> SaveType] /\ save'[s] = r
      /\ \A t \in Saves \ {s} : save'[t] = save[t]
  BY <1>1, <1>3, SaveGoesOn DEF CopyInv
<1>5. /\ row' \in Copy!Prefs
      /\ Copy!Effective(row')[c] = save[s].to
      /\ \A d \in Cells \ {c} : Copy!Effective(row')[d] = Copy!Effective(row)[d]
  <2> DEFINE q == [Copy!Effective(row) EXCEPT ![c] = save[s].to]
  <2>0. row \in Copy!Prefs \cup {NoRow} /\ save[s].to \in BOOLEAN
    BY <1>2 DEF CopyInv, CopyTypeOK, SaveType
  <2>1. Copy!Effective(row) \in Copy!Prefs
    BY <2>0 DEF Copy!Effective, Copy!Defaults, Copy!Prefs
  <2>2. q \in Copy!Prefs /\ q[c] = save[s].to
    BY <1>2, <2>0, <2>1 DEF Copy!Prefs
  <2> HIDE DEF q
  <2>3. /\ Copy!Upsert(q, {c}) \in Copy!Prefs
        /\ Copy!Effective(Copy!Upsert(q, {c})) = Copy!Upsert(q, {c})
        /\ Copy!Upsert(q, {c})[c] = q[c]
        /\ \A d \in Copy!Columns \ {c} :
             Copy!Upsert(q, {c})[d] = Copy!Effective(row)[d]
    BY <1>2, <2>0, <2>2, UpsertKeeps
  <2>4. row' = Copy!Upsert(q, {c})
    BY <1>1 DEF q
  <2>5. Cells \subseteq Copy!Columns
    BY DEF Copy!Columns
  <2> QED BY <2>2, <2>3, <2>4, <2>5
<1> HIDE DEF c
<1>6. /\ Sent' = Sent \ {s} /\ s \in Sent /\ Refused' = Refused /\ s \notin Refused
      /\ Copy!InFlight' = Copy!InFlight
      /\ Sent \subseteq Copy!InFlight /\ Refused \subseteq Copy!InFlight
      /\ Copy!InFlight \subseteq Saves
  BY <1>1, <1>3, <1>4 DEF Sent, Refused, Copy!InFlight
<1>7. /\ applied \in [Cells -> Nat] /\ begun \in Nat /\ raced \in BOOLEAN
      /\ \A d \in Cells : applied[d] <= begun
      /\ \A t \in Copy!InFlight : save[t].nth \in 1 .. begun /\ save[t].cell \in Cells
      /\ save[s].nth \in Nat
  BY <1>2 DEF CopyInv, CopyTypeOK, SavesInOrder
<1>8. /\ applied' \in [Cells -> Nat]
      /\ \A d \in Cells : applied'[d] >= applied[d] /\ applied'[d] <= begun
      /\ applied'[c] >= save[s].nth
  BY <1>1, <1>2, <1>7
<1>9. CopyTypeOK'
  BY <1>1, <1>4, <1>5, <1>7, <1>8 DEF CopyInv, CopyTypeOK
<1>10. SavesInOrder'
  <2>1. \A t \in Copy!InFlight : /\ save'[t].cell = save[t].cell
                                 /\ save'[t].before = save[t].before
                                 /\ save'[t].nth = save[t].nth
    BY <1>3, <1>4, <1>6 DEF c
  <2> QED BY <1>1, <1>6, <1>8, <2>1 DEF CopyInv, SavesInOrder
<1>11. ASSUME ~Doomed' PROVE CopyFollows'
  <2>1. ~raced /\ ~(applied[c] > save[s].nth)
    BY <1>1, <1>7, <1>11 DEF Doomed
  <2>2. \A t \in Sent \ {s} : save'[t] = save[t] /\ ~(save[t].nth < applied'[save[t].cell])
    BY <1>4, <1>6, <1>11 DEF Doomed
  <2>3. ~Doomed
    <3>1. \A t \in Sent : ~(save[t].nth < applied[save[t].cell])
      <4> TAKE t \in Sent
      <4>1. CASE t = s
        BY <1>2, <1>7, <2>1, <4>1 DEF c
      <4>2. CASE t # s
        <5>1. t \in Copy!InFlight /\ save[t].cell \in Cells /\ save[t].nth \in Nat
          BY <1>6, <1>7
        <5> QED BY <1>7, <1>8, <2>2, <4>2, <5>1
      <4> QED BY <4>1, <4>2
    <3>2. \A t \in Refused : ~(save[t].nth < begun)
      <4>1. \A t \in Refused : t \in Saves /\ save'[t] = save[t]
        BY <1>4, <1>6
      <4> QED BY <1>1, <1>6, <1>11, <4>1 DEF Doomed
    <3> QED BY <2>1, <3>1, <3>2 DEF Doomed
  <2>4. ASSUME NEW p, NEW ss \in SUBSET Sent, s \in ss,
               Agrees(p, ss, save, Copy!Effective(row))
        PROVE  Agrees(p, ss \ {s}, save', Copy!Effective(row'))
    <3>1. \A t \in ss : save[t].nth \in Nat
      BY <1>6, <1>7
    <3>2. \A t \in ss : save[t].cell = c => save[s].nth <= save[t].nth
      <4> TAKE t \in ss
      <4>1. CASE t = s
        BY <1>7, <4>1
      <4>2. CASE t # s
        BY <1>2, <1>7, <1>8, <2>2, <3>1, <4>2
      <4> QED BY <4>1, <4>2
    <3>3. \A t \in ss \ {s} : save'[t] = save[t]
      BY <1>6, <2>2
    <3> QED BY <1>2, <1>5, <2>4, <3>1, <3>2, <3>3, AppliedAgrees DEF c
  <2>5. Refused' = {} /\ copy' # NoRow
          => Agrees(copy', Sent', save', Copy!Effective(row'))
    BY <1>1, <1>6, <2>3, <2>4 DEF CopyInv, CopyFollows
  <2>6. ASSUME NEW t \in Refused'
        PROVE  Agrees(save'[t].before, Sent', save', Copy!Effective(row'))
    <3>1. save'[t] = save[t] /\ Agrees(save[t].before, Sent, save, Copy!Effective(row))
      BY <1>4, <1>6, <2>3 DEF CopyInv, CopyFollows
    <3> QED BY <1>6, <2>4, <3>1
  <2>7. ASSUME NEW t \in Sent', save'[t].nth = begun'
        PROVE  Agrees(save'[t].before, Sent' \ {t}, save', Copy!Effective(row'))
    <3>1. t \in Sent /\ t # s /\ save'[t] = save[t] /\ save[t].nth = begun
      BY <1>1, <1>6, <2>2, <2>7
    <3>2. Agrees(save[t].before, Sent \ {t}, save, Copy!Effective(row))
      BY <2>3, <3>1 DEF CopyInv, CopyFollows
    <3>3. Sent' \ {t} = (Sent \ {t}) \ {s}
      BY <1>6
    <3>4. Sent \ {t} \in SUBSET Sent /\ s \in Sent \ {t}
      BY <1>6, <3>1
    <3> QED BY <2>4, <3>1, <3>2, <3>3, <3>4
  <2> QED BY <2>5, <2>6, <2>7 DEF CopyFollows
<1> QED BY <1>9, <1>10, <1>11 DEF CopyInv

\* A save that was applied and looks refused is excused; one that is refused
\* while it is the newest will put back a copy that agrees with the others.
LEMMA RefuseKeeps == ASSUME CopyInv, NEW s \in Saves, Copy!Refuse(s) PROVE CopyInv'
<1> DEFINE r == [save[s] EXCEPT !.pc = "refused"]
<1>1. /\ save[s].pc \in {"sent", "saved"}
      /\ save' = [save EXCEPT ![s] = r]
      /\ raced' = (raced \/ save[s].pc = "saved")
      /\ UNCHANGED <<row, copy, reading, other, begun, applied>>
  BY DEF Copy!Refuse
<1>2. save[s] \in SaveType /\ s \in Copy!InFlight
  BY <1>1 DEF CopyInv, CopyTypeOK, Copy!InFlight
<1>3. r \in SaveType /\ r.pc = "refused" /\ r.nth = save[s].nth /\ r.cell = save[s].cell
      /\ r.before = save[s].before
  BY <1>2 DEF SaveType
<1> HIDE DEF r
<1>4. /\ save' \in [Saves -> SaveType] /\ save'[s] = r
      /\ \A t \in Saves \ {s} : save'[t] = save[t]
  BY <1>1, <1>3, SaveGoesOn DEF CopyInv
<1>5. /\ Sent' = Sent \ {s} /\ Refused' = Refused \cup {s} /\ s \notin Refused
      /\ Copy!InFlight' = Copy!InFlight
      /\ Sent \subseteq Copy!InFlight /\ Copy!InFlight \subseteq Saves
      /\ Refused \subseteq Copy!InFlight
  BY <1>1, <1>3, <1>4 DEF Sent, Refused, Copy!InFlight
<1>6. \A t \in Copy!InFlight : /\ save'[t].cell = save[t].cell
                               /\ save'[t].before = save[t].before
                               /\ save'[t].nth = save[t].nth
  BY <1>3, <1>4, <1>5
<1>7. CopyTypeOK' /\ SavesInOrder'
  BY <1>1, <1>4, <1>5, <1>6 DEF CopyInv, CopyTypeOK, SavesInOrder
<1>8. ASSUME ~Doomed' PROVE CopyFollows'
  <2>1. s \in Sent /\ ~raced /\ ~(save[s].nth < begun) /\ Refused = {}
    <3>1. ~raced /\ save[s].pc = "sent" /\ ~(save[s].nth < begun)
      BY <1>1, <1>3, <1>4, <1>5, <1>8 DEF Doomed
    <3>2. s \in Sent
      BY <3>1 DEF Sent
    <3>3. ASSUME NEW t \in Refused PROVE FALSE
      <4>1. t # s /\ t \in Copy!InFlight /\ save'[t].nth = save[t].nth /\ ~(save[t].nth < begun)
        BY <1>1, <1>5, <1>6, <1>8 DEF Doomed
      <4>2. save[t].nth \in 1 .. begun /\ save[s].nth \in 1 .. begun /\ begun \in Nat
        BY <1>2, <4>1 DEF CopyInv, CopyTypeOK, SavesInOrder
      <4>3. save[t].nth = save[s].nth
        BY <3>1, <4>1, <4>2
      <4> QED BY <1>2, <4>1, <4>3 DEF CopyInv, SavesInOrder
    <3> QED BY <3>1, <3>2, <3>3
  <2>2. ~Doomed
    <3>1. applied[save[s].cell] \in Nat /\ applied[save[s].cell] <= begun
          /\ save[s].nth \in Nat /\ begun \in Nat
      BY <1>2 DEF CopyInv, CopyTypeOK, SavesInOrder
    <3>2. ~(save[s].nth < applied[save[s].cell])
      BY <2>1, <3>1
    <3>3. \A t \in Sent \ {s} : ~(save[t].nth < applied[save[t].cell])
      BY <1>1, <1>5, <1>6, <1>8 DEF Doomed
    <3> QED BY <2>1, <3>2, <3>3 DEF Doomed
  <2>3. save[s].nth = begun
    BY <1>2, <2>1 DEF CopyInv, CopyTypeOK, SavesInOrder
  <2>4. Agrees(save[s].before, Sent \ {s}, save, Copy!Effective(row))
    BY <2>1, <2>2, <2>3 DEF CopyInv, CopyFollows
  <2>5. Agrees(save'[s].before, Sent', save', Copy!Effective(row'))
    <3>1. \A t \in Sent \ {s} : save'[t] = save[t]
      BY <1>4, <1>5
    <3>2. Sent' = Sent \ {s} /\ row' = row /\ save'[s].before = save[s].before
      BY <1>1, <1>3, <1>4, <1>5
    <3> QED BY <2>4, <3>1, <3>2, AgreesIsKept
  <2>6. Refused' = {s}
    BY <1>5, <2>1
  <2>7. \A t \in Sent' : save'[t].nth # begun'
    <3> SUFFICES ASSUME NEW t \in Sent', save'[t].nth = begun' PROVE FALSE
      OBVIOUS
    <3>1. t # s /\ t \in Copy!InFlight /\ save[t].nth = save[s].nth
      BY <1>1, <1>5, <1>6, <2>3
    <3> QED BY <1>2, <3>1 DEF CopyInv, SavesInOrder
  <2> QED BY <2>5, <2>6, <2>7 DEF CopyFollows
<1> QED BY <1>7, <1>8 DEF CopyInv

LEMMA DoneIsSave == [Copy!NoSave EXCEPT !.pc = "done"] \in SaveType
BY DEF Copy!NoSave, SaveType, Copy!Columns

\* What is known once a save has ended.
LEMMA SaveEnds ==
    ASSUME CopyInv, NEW s \in Saves, save[s].pc \in {"saved", "refused"},
           save' = [save EXCEPT ![s] = [Copy!NoSave EXCEPT !.pc = "done"]],
           copy' \in Copy!Prefs \cup {NoRow}, raced' \in BOOLEAN,
           UNCHANGED <<row, reading, other, begun, applied>>
    PROVE  /\ CopyTypeOK' /\ SavesInOrder'
           /\ Sent' = Sent /\ Refused' = Refused \ {s}
           /\ \A t \in Sent \cup Refused' : save'[t] = save[t]
<1>1. /\ save' \in [Saves -> SaveType] /\ save'[s].pc = "done"
      /\ \A t \in Saves \ {s} : save'[t] = save[t]
  BY DoneIsSave, SaveGoesOn DEF CopyInv, Copy!NoSave
<1>2. /\ Sent' = Sent /\ Refused' = Refused \ {s}
      /\ Copy!InFlight' = Copy!InFlight \ {s}
      /\ \A t \in (Sent \cup Refused') \cup Copy!InFlight' : t \in Saves \ {s}
  BY <1>1 DEF Sent, Refused, Copy!InFlight
<1>3. CopyTypeOK' /\ SavesInOrder'
  BY <1>1, <1>2 DEF CopyInv, CopyTypeOK, SavesInOrder
<1> QED BY <1>1, <1>2, <1>3

LEMMA AcceptKeeps == ASSUME CopyInv, NEW s \in Saves, Copy!Accept(s) PROVE CopyInv'
<1>1. /\ save[s].pc = "saved"
      /\ save' = [save EXCEPT ![s] = [Copy!NoSave EXCEPT !.pc = "done"]]
      /\ UNCHANGED <<row, copy, reading, other, begun, applied, raced>>
  BY DEF Copy!Accept
<1>2. copy' \in Copy!Prefs \cup {NoRow} /\ raced' \in BOOLEAN
  BY <1>1 DEF CopyInv, CopyTypeOK
<1>3. /\ CopyTypeOK' /\ SavesInOrder'
      /\ Sent' = Sent /\ Refused' = Refused \ {s}
      /\ \A t \in Sent \cup Refused' : save'[t] = save[t]
  BY <1>1, <1>2, SaveEnds
<1>4. Refused' = Refused
  BY <1>1, <1>3 DEF Refused
<1>5. Doomed' = Doomed
  BY <1>1, <1>3, <1>4 DEF Doomed
<1>6. CopyFollows => CopyFollows'
  <2>1. \A p : \A ss \in SUBSET Sent :
          Agrees(p, ss, save, Copy!Effective(row)) => Agrees(p, ss, save', Copy!Effective(row'))
    BY <1>1, <1>3, AgreesIsKept
  <2> QED BY <1>1, <1>3, <1>4, <2>1 DEF CopyFollows
<1> QED BY <1>3, <1>5, <1>6 DEF CopyInv

\* The newest save was refused: its copy agrees with the table and what is sent.
LEMMA RollBackKeeps == ASSUME CopyInv, NEW s \in Saves, Copy!RollBack(s) PROVE CopyInv'
<1>1. /\ save[s].pc = "refused"
      /\ copy' = save[s].before
      /\ save' = [save EXCEPT ![s] = [Copy!NoSave EXCEPT !.pc = "done"]]
      /\ raced' = (raced \/ save[s].nth < begun)
      /\ UNCHANGED <<row, reading, other, begun, applied>>
  BY DEF Copy!RollBack
<1>2. s \in Copy!InFlight /\ s \in Refused
  BY <1>1 DEF Copy!InFlight, Refused
<1>3. copy' \in Copy!Prefs \cup {NoRow} /\ raced' \in BOOLEAN
  BY <1>1, <1>2 DEF CopyInv, CopyTypeOK, SavesInOrder
<1>4. /\ CopyTypeOK' /\ SavesInOrder'
      /\ Sent' = Sent /\ Refused' = Refused \ {s}
      /\ \A t \in Sent \cup Refused' : save'[t] = save[t]
  BY <1>1, <1>3, SaveEnds
<1>5. ASSUME ~Doomed' PROVE CopyFollows'
  <2>1. ~raced /\ ~(save[s].nth < begun)
    BY <1>1, <1>5 DEF Doomed
  <2>2. \A t \in Refused \ {s} : ~(save[t].nth < begun)
    BY <1>1, <1>4, <1>5 DEF Doomed
  <2>3. \A t \in Sent : ~(save[t].nth < applied[save[t].cell])
    BY <1>1, <1>4, <1>5 DEF Doomed
  <2>4. CopyFollows
    BY <2>1, <2>2, <2>3 DEF CopyInv, Doomed
  <2>5. Agrees(copy', Sent', save', Copy!Effective(row'))
    BY <1>1, <1>2, <1>4, <2>4, AgreesIsKept DEF CopyFollows
  <2>6. \A t \in Sent : save[t].nth # begun
    <3> SUFFICES ASSUME NEW t \in Sent, save[t].nth = begun PROVE FALSE
      OBVIOUS
    <3>1. t \in Copy!InFlight /\ t # s
      BY <1>1 DEF Sent, Copy!InFlight
    <3>2. save[s].nth = begun
      BY <1>2, <2>1 DEF CopyInv, CopyTypeOK, SavesInOrder
    <3> QED BY <1>2, <3>1, <3>2 DEF CopyInv, SavesInOrder
  <2>7. \A t \in Refused' : Agrees(save'[t].before, Sent', save', Copy!Effective(row'))
    <3> SUFFICES ASSUME NEW t \in Refused'
                 PROVE  Agrees(save'[t].before, Sent', save', Copy!Effective(row'))
      OBVIOUS
    <3>1. save'[t] = save[t] /\ Agrees(save[t].before, Sent, save, Copy!Effective(row))
      BY <1>4, <2>4 DEF CopyFollows
    <3>2. Sent' = Sent /\ row' = row /\ \A u \in Sent : save'[u] = save[u]
      BY <1>1, <1>4
    <3> QED BY <3>1, <3>2, AgreesIsKept
  <2> QED BY <1>1, <1>4, <2>5, <2>6, <2>7 DEF CopyFollows
<1> QED BY <1>4, <1>5 DEF CopyInv

LEMMA CopyStep == CopyInv /\ [Copy!Next]_copyVars => CopyInv'
<1> SUFFICES ASSUME CopyInv, [Copy!Next]_copyVars PROVE CopyInv'
  OBVIOUS
<1>0. CopyTypeOK /\ Choice \in Copy!Columns /\ \A c \in Cells : c # Choice /\ c \in Copy!Columns
  BY ChoiceIsNoCell DEF CopyInv, Copy!Columns
<1>1. CASE Copy!ReadRow
  <2>1. Copy!Effective(row) \in Copy!Prefs
    BY <1>0 DEF CopyTypeOK, Copy!Effective, Copy!Defaults, Copy!Prefs
  <2>2. reading'.pc = "read" => reading'.got \in Copy!Prefs
    BY <1>1, <2>1 DEF Copy!ReadRow, Copy!NoRead
  <2> QED BY <1>0, <1>1, <2>2, ReadingKeepsCopy DEF Copy!ReadRow, CopyTypeOK
<1>2. CASE Copy!TakeRow
  BY <1>2, TakeRowKeeps
<1>3. CASE Copy!ReadAgain
  BY <1>0, <1>3, ReadingKeepsCopy DEF Copy!ReadAgain, CopyTypeOK
<1>4. CASE Copy!OpenPreferences
  <2>1. Copy!Effective(row) \in Copy!Prefs
    BY <1>0 DEF CopyTypeOK, Copy!Effective, Copy!Defaults, Copy!Prefs
  <2> QED BY <1>0, <1>4, <2>1, ReadingKeepsCopy DEF Copy!OpenPreferences, CopyTypeOK
<1>5. CASE Copy!SavePreferences
  <2>1. PICK b \in BOOLEAN : /\ other' = [other EXCEPT ![Choice] = b]
                             /\ row' = Copy!Upsert([other EXCEPT ![Choice] = b], {Choice})
    BY <1>5 DEF Copy!SavePreferences
  <2>2. other' \in Copy!Prefs
    BY <1>0, <1>5, <2>1 DEF Copy!SavePreferences, CopyTypeOK, Copy!Prefs
  <2>3. row' = Copy!Upsert(other', {Choice})
    BY <2>1
  <2>4. /\ row' \in Copy!Prefs
        /\ \A c \in Cells : Copy!Effective(row')[c] = Copy!Effective(row)[c]
    <3> DEFINE q == other'
    <3>1. q \in Copy!Prefs /\ row' = Copy!Upsert(q, {Choice})
      BY <2>2, <2>3
    <3> HIDE DEF q
    <3>2. row \in Copy!Prefs \cup {NoRow}
      BY <1>0 DEF CopyTypeOK
    <3>3. /\ Copy!Upsert(q, {Choice}) \in Copy!Prefs
          /\ Copy!Effective(Copy!Upsert(q, {Choice})) = Copy!Upsert(q, {Choice})
          /\ \A c \in Copy!Columns \ {Choice} :
               Copy!Upsert(q, {Choice})[c] = Copy!Effective(row)[c]
      BY <1>0, <3>1, <3>2, UpsertKeeps
    <3> QED BY <1>0, <3>1, <3>3
  <2> QED BY <1>0, <1>5, <2>2, <2>4, ReadingKeepsCopy DEF Copy!SavePreferences, CopyTypeOK
<1>6. ASSUME NEW s \in Saves, NEW c \in Cells, Copy!Change(s, c) PROVE CopyInv'
  BY <1>6, ChangeKeeps
<1>7. ASSUME NEW s \in Saves,
             Copy!Apply(s) \/ Copy!Refuse(s) \/ Copy!Accept(s) \/ Copy!RollBack(s)
      PROVE  CopyInv'
  BY <1>7, ApplyKeeps, RefuseKeeps, AcceptKeeps, RollBackKeeps
<1>8. CASE UNCHANGED copyVars
  BY <1>0, <1>8, ReadingKeepsCopy DEF copyVars, CopyTypeOK
<1> QED BY <1>1, <1>2, <1>3, <1>4, <1>5, <1>6, <1>7, <1>8 DEF Copy!Next

LEMMA CopyConclusion == CopyInv => CopyIsSaved
<1> SUFFICES ASSUME CopyInv, copy # NoRow, Copy!InFlight = {}, ~raced, NEW c \in Cells
             PROVE  copy[c] = Copy!Effective(row)[c]
  BY DEF CopyIsSaved, Copy!CopyIsSaved
<1>1. Sent = {} /\ Refused = {}
  BY DEF Sent, Refused, Copy!InFlight
<1>2. Agrees(copy, Sent, save, Copy!Effective(row))
  BY <1>1 DEF CopyInv, Doomed, CopyFollows
<1> QED BY <1>1, <1>2 DEF Agrees

-----------------------------------------------------------------------------
(***************************************************************************)
(* Editing one project.                                                    *)
(*                                                                         *)
(* A tab that is not muddled has one call of projects-update at a time.    *)
(* The fields it was last to write hold what that call sent once it is     *)
(* applied, and what the page shows before it is and after it has failed;  *)
(* the form of the settings page has what was sent, until it is changed.   *)
(* A field whose value the subscriber has not read is one an event named,  *)
(* or will name.                                                           *)
(***************************************************************************)
PageType == [at : {"detail", "settings"}, state : {"loading", "shown", "missing", "left"},
             copy : [Edit!Fields -> Values], saving : BOOLEAN, dirty : BOOLEAN]

EditType == [pc : {"new", "asked", "updated", "answered", "failed", "done"},
             view : Views \cup {NoValue}, patch : [Edit!Fields -> Values \cup {NoValue}]]

Gone == [f \in Edit!Fields |-> NoValue]

\* The fields a page is about.
AboutOf(v) == IF page[v].at = "detail" THEN {"name"} ELSE Edit!Settings

Live == {e \in Edits : edit[e].pc \notin {"new", "done"}}

EditTypeOK ==
    /\ project \in [Edit!Fields -> Values] \cup {Gone}
    /\ page \in [Views -> PageType]
    /\ edit \in [Edits -> EditType]
    /\ mirror \in [Edit!Fields -> Values \cup {NoValue}]
    /\ due \subseteq Edit!Fields
    /\ untold \in BOOLEAN
    /\ editor \in [Edit!Fields -> Views \cup {NoValue}]
    /\ muddled \subseteq Views

EditsAreOfPages ==
    /\ \A e \in Live : /\ edit[e].view \in Views
                       /\ page[edit[e].view].state \in {"shown", "left"}
                       /\ \A f \in Edit!Fields : edit[e].patch[f] # NoValue <=> f \in AboutOf(edit[e].view)
                       /\ page[edit[e].view].at = "settings" => page[edit[e].view].saving
    /\ \A v \in Views, f \in Edit!Fields :
         editor[f] = v => f \in AboutOf(v) /\ page[v].state # "loading"

OneEditAtATime ==
    \A d, e \in Live : /\ edit[d].view = edit[e].view
                       /\ page[edit[d].view].at = "settings" \/ edit[d].view \notin muddled
                       => d = e

FormIsSent ==
    \A e \in Live :
      page[edit[e].view].at = "settings" /\ ~page[edit[e].view].dirty
        => \A f \in Edit!Settings : edit[e].patch[f] = page[edit[e].view].copy[f]

EditApplied ==
    \A v \in Views \ muddled, f \in Edit!Fields :
      editor[f] = v /\ page[v].state = "shown" /\ ~Edit!Deleted =>
        /\ \A e \in Live :
             edit[e].view = v /\ edit[e].pc \in {"updated", "answered"}
               => edit[e].patch[f] = project[f]
        /\ /\ \A e \in Live :
                edit[e].view = v => page[v].at = "detail" /\ edit[e].pc \in {"asked", "failed"}
           /\ ~page[v].dirty
           => page[v].copy[f] = project[f]

Told ==
    ~Edit!Deleted /\ ~untold => \A f \in Edit!Fields :
        \/ mirror[f] = project[f] \/ f \in due
        \/ \E e \in Edits : edit[e].pc = "updated" /\ f \in Edit!Sent(e)

EditInv ==
    EditTypeOK /\ EditsAreOfPages /\ OneEditAtATime /\ FormIsSent /\ EditApplied /\ Told

LEMMA FieldsAre == /\ Edit!Fields = {"name", "description", "status"}
                   /\ Edit!Settings = {"description", "status"}
                   /\ Edit!Settings \subseteq Edit!Fields /\ "name" \in Edit!Fields
                   /\ "name" \notin Edit!Settings
                   /\ \A v : AboutOf(v) \subseteq Edit!Fields
BY DEF Edit!Fields, Edit!Settings, AboutOf

LEMMA EditInit == Edit!Init => EditInv
<1> SUFFICES ASSUME Edit!Init PROVE EditInv
  OBVIOUS
<1>1. \A e \in Edits : edit[e] = Edit!NoEdit /\ edit[e].pc = "new"
  BY DEF Edit!Init, Edit!NoEdit
<1>2. Live = {}
  BY <1>1 DEF Live
<1>3. project \in [Edit!Fields -> Values] /\ mirror = project
  BY ValuesAreValues DEF Edit!Init
<1>4. page \in [Views -> PageType] /\ \A v \in Views : page[v].state = "loading"
  <2> SUFFICES ASSUME NEW v \in Views PROVE page[v] \in PageType /\ page[v].state = "loading"
    BY DEF Edit!Init
  <2>1. \E at \in {"detail", "settings"} :
          page[v] = [at |-> at, state |-> "loading", copy |-> project, saving |-> FALSE,
                     dirty |-> FALSE]
    BY DEF Edit!Init
  <2> QED BY <1>3, <2>1 DEF PageType
<1>5. edit \in [Edits -> EditType]
  BY DEF Edit!Init, Edit!NoEdit, EditType
<1>6. EditTypeOK
  BY <1>3, <1>4, <1>5 DEF Edit!Init, EditTypeOK
<1>7. \A v \in Views, f \in Edit!Fields : editor[f] # v
  BY ValuesAreValues DEF Edit!Init
<1>8. EditsAreOfPages /\ OneEditAtATime /\ FormIsSent
  BY <1>2, <1>7 DEF EditsAreOfPages, OneEditAtATime, FormIsSent
<1>9. EditApplied /\ Told
  BY <1>3, <1>7 DEF EditApplied, Told
<1> QED BY <1>6, <1>8, <1>9 DEF EditInv

\* A load replaces the copy of a page that no edit is of.
LEMMA LoadKeeps == ASSUME EditInv, NEW v \in Views, Edit!Load(v) PROVE EditInv'
<1> DEFINE r == [page[v] EXCEPT !.state = IF Edit!Deleted THEN "missing" ELSE "shown",
                                !.copy = IF Edit!Deleted THEN @ ELSE project]
<1>1. /\ page[v].state = "loading" /\ page' = [page EXCEPT ![v] = r]
      /\ UNCHANGED <<project, edit, mirror, due, untold, editor, muddled>>
  BY DEF Edit!Load
<1>2. page[v] \in PageType /\ page \in [Views -> PageType]
  BY DEF EditInv, EditTypeOK
<1>3. ~Edit!Deleted => project \in [Edit!Fields -> Values]
  BY FieldsAre DEF EditInv, EditTypeOK, Edit!Deleted, Gone
<1>4. r \in PageType /\ r.at = page[v].at
  BY <1>2, <1>3 DEF PageType
<1> HIDE DEF r
<1>5. page' \in [Views -> PageType] /\ page'[v] = r /\ \A w \in Views \ {v} : page'[w] = page[w]
  BY <1>1, <1>2, <1>4
<1>6. Live' = Live /\ Edit!Deleted' = Edit!Deleted
      /\ \A w \in Views : AboutOf(w)' = AboutOf(w)
  BY <1>1, <1>4, <1>5 DEF Live, Edit!Deleted, AboutOf
<1>7. \A e \in Live : edit[e].view \in Views \ {v}
  BY <1>1 DEF EditInv, EditsAreOfPages
<1>8. \A f \in Edit!Fields : editor[f] # v
  BY <1>1 DEF EditInv, EditsAreOfPages
<1>9. EditTypeOK'
  BY <1>1, <1>5 DEF EditInv, EditTypeOK
<1>10. EditsAreOfPages'
  BY <1>1, <1>5, <1>6, <1>7, <1>8 DEF EditInv, EditsAreOfPages
<1>11. OneEditAtATime' /\ FormIsSent'
  BY <1>1, <1>5, <1>6, <1>7 DEF EditInv, OneEditAtATime, FormIsSent
<1>12. EditApplied'
  BY <1>1, <1>5, <1>6, <1>8 DEF EditInv, EditApplied
<1>13. Told'
  BY <1>1, <1>6 DEF EditInv, Told, Edit!Sent
<1> QED BY <1>9, <1>10, <1>11, <1>12, <1>13 DEF EditInv

\* A draft makes the form dirty.
LEMMA DraftKeeps ==
    ASSUME EditInv, NEW v \in Views, NEW g \in Edit!Fields, NEW x \in Values,
           Edit!Draft(v, g, x)
    PROVE  EditInv'
<1> DEFINE r == [page[v] EXCEPT !.copy = [@ EXCEPT ![g] = x], !.dirty = TRUE]
<1>1. /\ page[v].at = "settings" /\ page[v].state = "shown"
      /\ page' = [page EXCEPT ![v] = r]
      /\ UNCHANGED <<project, edit, mirror, due, untold, editor, muddled>>
  BY DEF Edit!Draft
<1>2. page[v] \in PageType /\ page \in [Views -> PageType]
  BY DEF EditInv, EditTypeOK
<1>3. r \in PageType /\ r.at = "settings" /\ r.state = "shown" /\ r.saving = page[v].saving /\ r.dirty
  BY <1>1, <1>2 DEF PageType
<1> HIDE DEF r
<1>4. page' \in [Views -> PageType] /\ page'[v] = r /\ \A w \in Views \ {v} : page'[w] = page[w]
  BY <1>1, <1>2, <1>3
<1>5. Live' = Live /\ Edit!Deleted' = Edit!Deleted
      /\ \A w \in Views : AboutOf(w)' = AboutOf(w) /\ page'[w].at = page[w].at
                          /\ page'[w].state = page[w].state /\ page'[w].saving = page[w].saving
                          /\ (~page'[w].dirty => page'[w] = page[w])
  BY <1>1, <1>3, <1>4 DEF Live, Edit!Deleted, AboutOf
<1>6. EditTypeOK'
  BY <1>1, <1>4 DEF EditInv, EditTypeOK
<1>7. EditsAreOfPages'
  BY <1>1, <1>5 DEF EditInv, EditsAreOfPages
<1>8. OneEditAtATime' /\ FormIsSent'
  BY <1>1, <1>5 DEF EditInv, EditsAreOfPages, OneEditAtATime, FormIsSent
<1>9. EditApplied'
  BY <1>1, <1>5 DEF EditInv, EditApplied
<1>10. Told'
  BY <1>1, <1>5 DEF EditInv, Told, Edit!Sent
<1> QED BY <1>6, <1>7, <1>8, <1>9, <1>10 DEF EditInv

\* A new edit is asked, and nothing is applied.
LEMMA CallAdds ==
    ASSUME EditInv, NEW e \in Edits, NEW v \in Views, NEW p, Edit!Call(e, v, p),
           p \in [Edit!Fields -> Values \cup {NoValue}], project' = project
    PROVE  /\ edit' \in [Edits -> EditType] /\ e \notin Live /\ Live' = Live \cup {e}
           /\ edit'[e].pc = "asked" /\ edit'[e].view = v /\ edit'[e].patch = p
           /\ edit[e].pc = "new"
           /\ \A d \in Edits \ {e} : edit'[d] = edit[d]
           /\ Edit!Deleted' = Edit!Deleted
<1> DEFINE r == [pc |-> "asked", view |-> v, patch |-> p]
<1>1. edit[e].pc = "new" /\ edit' = [edit EXCEPT ![e] = r]
  BY DEF Edit!Call
<1>2. r \in EditType /\ r.pc = "asked" /\ r.view = v /\ r.patch = p
  BY DEF EditType
<1> HIDE DEF r
<1>3. edit \in [Edits -> EditType]
  BY DEF EditInv, EditTypeOK
<1>4. edit' \in [Edits -> EditType] /\ edit'[e] = r /\ \A d \in Edits \ {e} : edit'[d] = edit[d]
  BY <1>1, <1>2, <1>3
<1>5. Live' = Live \cup {e} /\ e \notin Live
  BY <1>1, <1>2, <1>4 DEF Live
<1> QED BY <1>1, <1>2, <1>4, <1>5 DEF Edit!Deleted

LEMMA RenameKeeps ==
    ASSUME EditInv, NEW e \in Edits, NEW v \in Views, NEW x \in Values, Edit!Rename(e, v, x)
    PROVE  EditInv'
<1> DEFINE p == [f \in Edit!Fields |-> IF f = "name" THEN x ELSE NoValue]
<1>1. /\ page[v].at = "detail" /\ page[v].state = "shown" /\ Edit!Call(e, v, p)
      /\ muddled' = IF Edit!EditsOf(v) = {} THEN muddled ELSE muddled \cup {v}
      /\ UNCHANGED <<project, page, mirror, due, untold, editor>>
  BY DEF Edit!Rename
<1>2. /\ p \in [Edit!Fields -> Values \cup {NoValue}]
      /\ \A f \in Edit!Fields : p[f] # NoValue <=> f = "name"
  BY ValuesAreValues
<1> HIDE DEF p
<1>3. /\ edit' \in [Edits -> EditType] /\ e \notin Live /\ Live' = Live \cup {e}
      /\ edit'[e].pc = "asked" /\ edit'[e].view = v /\ edit'[e].patch = p
      /\ edit[e].pc = "new"
      /\ \A d \in Edits \ {e} : edit'[d] = edit[d]
      /\ Edit!Deleted' = Edit!Deleted
  BY <1>1, <1>2, CallAdds
<1>4. /\ muddled \subseteq muddled' /\ muddled' \subseteq Views
      /\ \A w \in Views : AboutOf(w)' = AboutOf(w)
      /\ \A d \in Live : d \in Edits \ {e} /\ edit'[d] = edit[d]
      /\ v \notin muddled' => \A d \in Live : edit[d].view # v
      /\ AboutOf(v) = {"name"}
  BY <1>1, <1>3 DEF EditInv, EditTypeOK, AboutOf, Edit!EditsOf, Live
<1>5. EditTypeOK'
  BY <1>1, <1>3, <1>4 DEF EditInv, EditTypeOK
<1>6. EditsAreOfPages'
  <2>1. \A d \in Live' :
           /\ edit'[d].view \in Views
           /\ page[edit'[d].view].state \in {"shown", "left"}
           /\ \A f \in Edit!Fields :
                edit'[d].patch[f] # NoValue <=> f \in AboutOf(edit'[d].view)
           /\ page[edit'[d].view].at = "settings" => page[edit'[d].view].saving
    <3> TAKE d \in Live'
    <3>1. CASE d = e
      BY <1>1, <1>2, <1>3, <1>4, <3>1
    <3>2. CASE d # e
      BY <1>3, <1>4, <3>2 DEF EditInv, EditsAreOfPages
    <3> QED BY <3>1, <3>2
  <2>2. \A d \in Live' : AboutOf(edit[d].view)' = AboutOf(edit'[d].view)
    BY <1>1 DEF AboutOf
  <2> QED BY <1>1, <1>4, <2>1, <2>2 DEF EditInv, EditsAreOfPages
<1>7. OneEditAtATime'
  BY <1>1, <1>3, <1>4 DEF EditInv, EditsAreOfPages, OneEditAtATime
<1>8. FormIsSent'
  BY <1>1, <1>3, <1>4 DEF EditInv, FormIsSent
<1>9. EditApplied'
  BY <1>1, <1>3, <1>4 DEF EditInv, EditApplied
<1>10. Told'
  BY <1>1, <1>3 DEF EditInv, Told, Edit!Sent
<1> QED BY <1>5, <1>6, <1>7, <1>8, <1>9, <1>10 DEF EditInv

LEMMA SaveKeeps ==
    ASSUME EditInv, NEW e \in Edits, NEW v \in Views, Edit!Save(e, v)
    PROVE  EditInv'
<1> DEFINE p == Edit!SettingsOf(page[v].copy)
           r == [page[v] EXCEPT !.saving = TRUE, !.dirty = FALSE]
<1>1. /\ page[v].at = "settings" /\ page[v].state = "shown" /\ ~page[v].saving
      /\ Edit!Call(e, v, p)
      /\ page' = [page EXCEPT ![v] = r]
      /\ UNCHANGED <<project, mirror, due, untold, editor, muddled>>
  BY DEF Edit!Save
<1>2. page[v] \in PageType /\ page \in [Views -> PageType] /\ page[v].copy \in [Edit!Fields -> Values]
  BY DEF EditInv, EditTypeOK, PageType
<1>3. /\ p \in [Edit!Fields -> Values \cup {NoValue}]
      /\ \A f \in Edit!Fields : p[f] # NoValue <=> f \in Edit!Settings
      /\ \A f \in Edit!Settings : p[f] = page[v].copy[f]
  BY <1>2, ValuesAreValues, FieldsAre DEF Edit!SettingsOf
<1> HIDE DEF p
<1>4. /\ r \in PageType /\ r.at = "settings" /\ r.state = "shown" /\ r.saving /\ r.copy = page[v].copy
      /\ ~r.dirty
  BY <1>1, <1>2 DEF PageType
<1> HIDE DEF r
<1>5. page' \in [Views -> PageType] /\ page'[v] = r /\ \A w \in Views \ {v} : page'[w] = page[w]
  BY <1>1, <1>2, <1>4
<1>6. /\ edit' \in [Edits -> EditType] /\ e \notin Live /\ Live' = Live \cup {e}
      /\ edit'[e].pc = "asked" /\ edit'[e].view = v /\ edit'[e].patch = p
      /\ edit[e].pc = "new"
      /\ \A d \in Edits \ {e} : edit'[d] = edit[d]
      /\ Edit!Deleted' = Edit!Deleted
  BY <1>1, <1>3, CallAdds
<1>7. /\ \A w \in Views : /\ AboutOf(w)' = AboutOf(w) /\ page'[w].at = page[w].at
                          /\ page'[w].state = page[w].state
      /\ AboutOf(v) = Edit!Settings
  BY <1>1, <1>4, <1>5 DEF AboutOf
<1>8. \A d \in Live : /\ d # e /\ edit'[d] = edit[d]
                      /\ edit[d].view \in Views \ {v}
                      /\ page'[edit[d].view] = page[edit[d].view]
  <2> TAKE d \in Live
  <2>1. d # e /\ edit'[d] = edit[d] /\ edit[d].view \in Views
    BY <1>6 DEF EditInv, EditsAreOfPages, Live
  <2>2. edit[d].view # v
    BY <1>1 DEF EditInv, EditsAreOfPages
  <2> QED BY <1>5, <2>1, <2>2
<1>9. EditTypeOK'
  BY <1>1, <1>5, <1>6 DEF EditInv, EditTypeOK
<1>10. EditsAreOfPages'
  <2>1. \A d \in Live' :
           /\ edit'[d].view \in Views
           /\ page'[edit'[d].view].state \in {"shown", "left"}
           /\ \A f \in Edit!Fields :
                edit'[d].patch[f] # NoValue <=> f \in AboutOf(edit'[d].view)
           /\ page'[edit'[d].view].at = "settings" => page'[edit'[d].view].saving
    <3> TAKE d \in Live'
    <3>1. CASE d = e
      BY <1>3, <1>4, <1>5, <1>6, <1>7, <3>1
    <3>2. CASE d # e
      BY <1>6, <1>8, <3>2 DEF EditInv, EditsAreOfPages
    <3> QED BY <3>1, <3>2
  <2>2. \A d \in Live' : AboutOf(edit[d].view)' = AboutOf(edit'[d].view)
    BY <1>7, <2>1 DEF AboutOf
  <2> QED BY <1>1, <1>7, <2>1, <2>2 DEF EditInv, EditsAreOfPages
<1>11. OneEditAtATime'
  BY <1>1, <1>6, <1>8 DEF EditInv, OneEditAtATime
<1>12. FormIsSent'
  <2>1. page'[v].copy = page[v].copy
    BY <1>4, <1>5
  <2> QED BY <1>3, <1>6, <1>8, <2>1 DEF EditInv, FormIsSent
<1>13. EditApplied'
  <2>1. \A w \in Views : page'[w].copy = page[w].copy /\ (w # v => page'[w] = page[w])
    BY <1>4, <1>5
  <2> QED BY <1>1, <1>6, <1>7, <1>8, <2>1 DEF EditInv, EditApplied
<1>14. Told'
  BY <1>1, <1>6 DEF EditInv, Told, Edit!Sent
<1> QED BY <1>9, <1>10, <1>11, <1>12, <1>13, <1>14 DEF EditInv

\* Nothing is said any more of a project that is deleted.
LEMMA DeleteKeeps == ASSUME EditInv, NEW v \in Views, Edit!Delete(v) PROVE EditInv'
<1> DEFINE r == [page[v] EXCEPT !.state = "left"]
<1>1. /\ page[v].at = "settings" /\ page[v].state = "shown"
      /\ project' = Gone /\ page' = [page EXCEPT ![v] = r]
      /\ UNCHANGED <<edit, mirror, due, untold, editor, muddled>>
  BY DEF Edit!Delete, Gone
<1>2. page[v] \in PageType /\ page \in [Views -> PageType]
  BY DEF EditInv, EditTypeOK
<1>3. /\ r \in PageType /\ r.at = page[v].at /\ r.state = "left" /\ r.saving = page[v].saving
      /\ r.copy = page[v].copy /\ r.dirty = page[v].dirty
  BY <1>2 DEF PageType
<1> HIDE DEF r
<1>4. page' \in [Views -> PageType] /\ page'[v] = r /\ \A w \in Views \ {v} : page'[w] = page[w]
  BY <1>1, <1>2, <1>3
<1>5. Live' = Live /\ Edit!Deleted'
  BY <1>1, FieldsAre DEF Live, Edit!Deleted, Gone
<1>6. \A w \in Views : /\ AboutOf(w)' = AboutOf(w) /\ page'[w].at = page[w].at
                       /\ page'[w].saving = page[w].saving /\ page'[w].dirty = page[w].dirty
                       /\ page'[w].copy = page[w].copy
                       /\ page'[w].state = page[w].state \/ page'[w].state = "left"
  BY <1>3, <1>4 DEF AboutOf
<1>7. EditTypeOK'
  BY <1>1, <1>4 DEF EditInv, EditTypeOK
<1>8. EditsAreOfPages'
  <2>1. \A d \in Live : AboutOf(edit[d].view)' = AboutOf(edit[d].view)
    BY <1>1, <1>6 DEF EditInv, EditsAreOfPages, AboutOf
  <2>2. \A d \in Live : page'[edit[d].view].state \in {"shown", "left"}
    BY <1>6 DEF EditInv, EditsAreOfPages
  <2>3. \A w \in Views, f \in Edit!Fields :
          editor[f] = w => f \in AboutOf(w)' /\ page'[w].state # "loading"
    BY <1>6 DEF EditInv, EditsAreOfPages
  <2> QED BY <1>1, <1>5, <1>6, <2>1, <2>2, <2>3 DEF EditInv, EditsAreOfPages
<1>9. OneEditAtATime' /\ FormIsSent'
  BY <1>1, <1>5, <1>6 DEF EditInv, EditsAreOfPages, OneEditAtATime, FormIsSent
<1>10. EditApplied' /\ Told'
  BY <1>5 DEF EditApplied, Told
<1> QED BY <1>7, <1>8, <1>9, <1>10 DEF EditInv

\* What ends is the only call of its tab, unless the tab is muddled.
LEMMA TakeAnswerKeeps == ASSUME EditInv, NEW e \in Edits, Edit!TakeAnswer(e) PROVE EditInv'
<1> DEFINE v == edit[e].view
           name == IF edit[e].pc = "answered" /\ page[v].at = "detail"
                   THEN edit[e].patch["name"] ELSE page[v].copy["name"]
           r == [page[v] EXCEPT !.saving = FALSE, !.copy = [@ EXCEPT !["name"] = name],
                   !.dirty = @ \/ (page[v].at = "settings" /\ edit[e].pc = "failed")]
           n == [Edit!NoEdit EXCEPT !.pc = "done"]
<1>1. /\ edit[e].pc \in {"answered", "failed"}
      /\ edit' = [edit EXCEPT ![e] = n]
      /\ page' = [page EXCEPT ![v] = r]
      /\ UNCHANGED <<project, mirror, due, untold, editor, muddled>>
  BY DEF Edit!TakeAnswer
<1>2. e \in Live /\ v \in Views /\ page[v] \in PageType /\ page \in [Views -> PageType]
      /\ edit[e] \in EditType /\ edit \in [Edits -> EditType]
  BY <1>1 DEF EditInv, EditTypeOK, EditsAreOfPages, Live
<1>3. name \in Values
  <2>1. page[v].copy["name"] \in Values
    BY <1>2, FieldsAre DEF PageType
  <2>2. page[v].at = "detail" => edit[e].patch["name"] # NoValue
    BY <1>2, FieldsAre DEF EditInv, EditsAreOfPages, AboutOf
  <2>3. edit[e].patch["name"] \in Values \cup {NoValue}
    BY <1>2, FieldsAre DEF EditType
  <2> QED BY <2>1, <2>2, <2>3
<1>4. page[v].copy \in [Edit!Fields -> Values]
  BY <1>2 DEF PageType
<1>5. /\ r \in PageType /\ r.at = page[v].at /\ r.state = page[v].state
      /\ r.copy["name"] = name
      /\ \A f \in Edit!Settings : r.copy[f] = page[v].copy[f]
      /\ ~r.dirty => ~page[v].dirty /\ (page[v].at = "settings" => edit[e].pc = "answered")
  <2>1. [page[v].copy EXCEPT !["name"] = name] \in [Edit!Fields -> Values]
    BY <1>3, <1>4
  <2>2. /\ [page[v].copy EXCEPT !["name"] = name]["name"] = name
        /\ \A f \in Edit!Settings : [page[v].copy EXCEPT !["name"] = name][f] = page[v].copy[f]
    BY <1>3, <1>4, FieldsAre
  <2> HIDE DEF name
  <2> QED BY <1>1, <1>2, <2>1, <2>2 DEF PageType
<1>6. n \in EditType /\ n.pc = "done"
  BY DEF Edit!NoEdit, EditType
<1> HIDE DEF n, r
<1>7. /\ page' \in [Views -> PageType] /\ page'[v] = r
      /\ \A w \in Views \ {v} : page'[w] = page[w]
  BY <1>1, <1>2, <1>5
<1>8. /\ edit' \in [Edits -> EditType] /\ edit'[e] = n
      /\ \A d \in Edits \ {e} : edit'[d] = edit[d]
  BY <1>1, <1>2, <1>6
<1>9. /\ Live' = Live \ {e} /\ Edit!Deleted' = Edit!Deleted
      /\ \A d \in Live' : d \in Live /\ edit'[d] = edit[d] /\ d # e
  BY <1>1, <1>2, <1>6, <1>8 DEF Live, Edit!Deleted
<1>10. \A w \in Views : /\ AboutOf(w)' = AboutOf(w) /\ page'[w].at = page[w].at
                        /\ page'[w].state = page[w].state
  BY <1>5, <1>7 DEF AboutOf
<1>11. \A d \in Live' : edit[d].view = v => page[v].at # "settings" /\ v \in muddled
  BY <1>2, <1>9 DEF EditInv, OneEditAtATime
<1>12. EditTypeOK'
  BY <1>1, <1>7, <1>8 DEF EditInv, EditTypeOK
<1>13. EditsAreOfPages'
  <2>1. \A d \in Live' :
           /\ edit'[d].view \in Views
           /\ page'[edit'[d].view].state \in {"shown", "left"}
           /\ \A f \in Edit!Fields :
                edit'[d].patch[f] # NoValue <=> f \in AboutOf(edit'[d].view)
           /\ page'[edit'[d].view].at = "settings" => page'[edit'[d].view].saving
    <3> TAKE d \in Live'
    <3>1. /\ edit[d].view \in Views
          /\ page[edit[d].view].state \in {"shown", "left"}
          /\ \A f \in Edit!Fields :
               edit[d].patch[f] # NoValue <=> f \in AboutOf(edit[d].view)
          /\ page[edit[d].view].at = "settings" => page[edit[d].view].saving
      BY <1>9 DEF EditInv, EditsAreOfPages
    <3> HIDE DEF v
    <3> QED BY <1>7, <1>9, <1>10, <1>11, <3>1
  <2>2. \A d \in Live' : AboutOf(edit[d].view)' = AboutOf(edit'[d].view)
    BY <1>10, <2>1 DEF AboutOf
  <2> QED BY <1>1, <1>10, <2>1, <2>2 DEF EditInv, EditsAreOfPages
<1>14. OneEditAtATime'
  BY <1>1, <1>9, <1>10, <1>13 DEF EditInv, EditsAreOfPages, OneEditAtATime
<1>15. FormIsSent'
  <2> SUFFICES ASSUME NEW d \in Live', page'[edit'[d].view].at = "settings",
                      ~page'[edit'[d].view].dirty, NEW f \in Edit!Settings
               PROVE  edit'[d].patch[f] = page'[edit'[d].view].copy[f]
    BY DEF FormIsSent
  <2>1. edit'[d] = edit[d] /\ d \in Live /\ edit[d].view \in Views
    BY <1>9 DEF EditInv, EditsAreOfPages
  <2>2. edit[d].view # v
    BY <1>9, <1>10, <1>11, <2>1
  <2>3. page'[edit[d].view] = page[edit[d].view]
    BY <1>7, <2>1, <2>2
  <2> QED BY <2>1, <2>3 DEF EditInv, FormIsSent
<1>16. EditApplied'
  <2> SUFFICES ASSUME NEW w \in Views \ muddled, NEW f \in Edit!Fields,
                      editor[f] = w, page[w].state = "shown", ~Edit!Deleted
               PROVE  /\ \A d \in Live' :
                           edit'[d].view = w /\ edit'[d].pc \in {"updated", "answered"}
                             => edit'[d].patch[f] = project[f]
                      /\ /\ \A d \in Live' :
                              edit'[d].view = w => page'[w].at = "detail" /\ edit'[d].pc \in {"asked", "failed"}
                         /\ ~page'[w].dirty
                         => page'[w].copy[f] = project[f]
    BY <1>1, <1>9, <1>10 DEF EditApplied
  <2>1. /\ \A d \in Live :
             edit[d].view = w /\ edit[d].pc \in {"updated", "answered"}
               => edit[d].patch[f] = project[f]
        /\ /\ \A d \in Live :
                edit[d].view = w => page[w].at = "detail" /\ edit[d].pc \in {"asked", "failed"}
           /\ ~page[w].dirty
           => page[w].copy[f] = project[f]
    BY DEF EditInv, EditApplied
  <2>2. CASE w # v
    BY <1>7, <1>9, <2>1, <2>2
  <2>3. CASE w = v
    <3>1. \A d \in Live : edit[d].view = w => d = e
      BY <1>2, <2>3 DEF EditInv, OneEditAtATime
    <3>2. ASSUME ~page'[w].dirty PROVE page'[w].copy[f] = project[f]
      <4>1. f \in AboutOf(w)
        BY DEF EditInv, EditsAreOfPages
      <4>2. CASE page[w].at = "detail"
        <5>1. f = "name" /\ page'[w].copy[f] = name
          BY <1>5, <1>7, <2>3, <4>1, <4>2 DEF AboutOf
        <5>2. CASE edit[e].pc = "answered"
          BY <1>2, <2>1, <2>3, <4>2, <5>1, <5>2
        <5>3. CASE edit[e].pc = "failed"
          BY <1>5, <1>7, <2>1, <2>3, <3>1, <3>2, <4>2, <5>1, <5>3
        <5> QED BY <1>1, <5>2, <5>3
      <4>3. CASE page[w].at # "detail"
        <5>1. page[w].at = "settings" /\ f \in Edit!Settings
          BY <1>2, <2>3, <4>1, <4>3 DEF PageType, AboutOf
        <5>2. edit[e].pc = "answered" /\ ~page[w].dirty /\ page'[w].copy[f] = page[w].copy[f]
          BY <1>5, <1>7, <2>3, <3>2, <5>1
        <5>3. edit[e].patch[f] = page[w].copy[f]
          BY <1>2, <2>3, <5>1, <5>2 DEF EditInv, FormIsSent
        <5> QED BY <1>2, <2>1, <2>3, <5>2, <5>3
      <4> QED BY <4>2, <4>3
    <3> QED BY <1>9, <2>1, <3>1, <3>2
  <2> QED BY <2>2, <2>3
<1>17. Told'
  <2>1. \A d \in Edits : edit[d].pc = "updated" => edit'[d] = edit[d]
    BY <1>1, <1>8
  <2> QED BY <1>1, <1>9, <2>1 DEF EditInv, Told, Edit!Sent
<1> QED BY <1>12, <1>13, <1>14, <1>15, <1>16, <1>17 DEF EditInv

\* An edit goes on, and its page, its fields and what they hold are as before.
LEMMA EditGoesOn ==
    ASSUME EditInv, NEW e \in Live, NEW q \in {"updated", "answered", "failed"},
           edit' = [edit EXCEPT ![e].pc = q]
    PROVE  /\ edit' \in [Edits -> EditType] /\ Live' = Live /\ e \in Edits
           /\ edit'[e].pc = q /\ edit'[e].view = edit[e].view /\ edit'[e].patch = edit[e].patch
           /\ \A d \in Edits \ {e} : edit'[d] = edit[d]
           /\ \A d \in Live : edit'[d].view = edit[d].view /\ edit'[d].patch = edit[d].patch
           /\ \A d \in Edits : Edit!Sent(d)' = Edit!Sent(d)
<1> DEFINE r == [edit[e] EXCEPT !.pc = q]
<1>1. e \in Edits /\ edit[e] \in EditType /\ edit \in [Edits -> EditType]
      /\ edit' = [edit EXCEPT ![e] = r]
  BY DEF Live, EditInv, EditTypeOK
<1>2. r \in EditType /\ r.pc = q /\ r.view = edit[e].view /\ r.patch = edit[e].patch
  BY <1>1 DEF EditType
<1> HIDE DEF r
<1>3. edit' \in [Edits -> EditType] /\ edit'[e] = r /\ \A d \in Edits \ {e} : edit'[d] = edit[d]
  BY <1>1, <1>2
<1>4. Live' = Live
  BY <1>2, <1>3 DEF Live
<1>5. \A d \in Edits : edit'[d].view = edit[d].view /\ edit'[d].patch = edit[d].patch
  BY <1>2, <1>3
<1> QED BY <1>1, <1>2, <1>3, <1>4, <1>5 DEF Edit!Sent, Live

\* What does not depend on how far an edit is.
LEMMA PagesStay ==
    ASSUME EditInv, page' = page, Live' = Live, muddled \subseteq muddled',
           \A d \in Live : edit'[d].view = edit[d].view /\ edit'[d].patch = edit[d].patch,
           \A v \in Views, f \in Edit!Fields :
             editor'[f] = v => f \in AboutOf(v) /\ page[v].state # "loading"
    PROVE  EditsAreOfPages' /\ OneEditAtATime' /\ FormIsSent'
<1>1. \A v : AboutOf(v) = IF page[v].at = "detail" THEN {"name"} ELSE Edit!Settings
  BY DEF AboutOf
<1>2. EditsAreOfPages'
  BY <1>1 DEF EditInv, EditsAreOfPages, AboutOf
<1>3. OneEditAtATime' /\ FormIsSent'
  BY DEF EditInv, OneEditAtATime, FormIsSent
<1> QED BY <1>2, <1>3

LEMMA UpdateKeeps == ASSUME EditInv, NEW e \in Edits, Edit!Update(e) PROVE EditInv'
<1> DEFINE v == edit[e].view
<1>1. edit[e].pc = "asked" /\ UNCHANGED <<page, mirror, due, untold, muddled>> /\ e \in Live
  BY DEF Edit!Update, Live
<1>2. /\ v \in Views /\ page[v].state \in {"shown", "left"} /\ Edit!Meant(e) = AboutOf(v)
      /\ Edit!Sent(e) = AboutOf(v) /\ edit[e] \in EditType
  BY <1>1, FieldsAre DEF EditInv, EditsAreOfPages, EditTypeOK, Edit!Meant, Edit!Sent, AboutOf
<1>3. CASE /\ ~Edit!Deleted
           /\ project' = [f \in Edit!Fields |-> IF f \in Edit!Sent(e) THEN edit[e].patch[f] ELSE project[f]]
           /\ editor' = [f \in Edit!Fields |-> IF f \in Edit!Meant(e) THEN edit[e].view ELSE editor[f]]
           /\ edit' = [edit EXCEPT ![e].pc = "updated"]
  <2>1. /\ edit' \in [Edits -> EditType] /\ Live' = Live
        /\ edit'[e].pc = "updated" /\ edit'[e].view = v /\ edit'[e].patch = edit[e].patch
        /\ \A d \in Edits \ {e} : edit'[d] = edit[d]
        /\ \A d \in Live : edit'[d].view = edit[d].view /\ edit'[d].patch = edit[d].patch
        /\ \A d \in Edits : Edit!Sent(d)' = Edit!Sent(d)
    BY <1>1, <1>3, EditGoesOn
  <2> HIDE DEF v
  <2>2. /\ \A f \in AboutOf(v) : project'[f] = edit[e].patch[f] /\ editor'[f] = v
        /\ \A f \in Edit!Fields \ AboutOf(v) : project'[f] = project[f] /\ editor'[f] = editor[f]
    BY <1>2, <1>3, FieldsAre DEF v
  <2>3. project' \in [Edit!Fields -> Values]
    <3>1. project \in [Edit!Fields -> Values]
      BY <1>3, FieldsAre DEF EditInv, EditTypeOK, Edit!Deleted, Gone
    <3>2. \A f \in Edit!Sent(e) : edit[e].patch[f] \in Values
      BY <1>2 DEF EditType, Edit!Sent
    <3> QED BY <1>3, <3>1, <3>2
  <2>4. editor' \in [Edit!Fields -> Views \cup {NoValue}]
    BY <1>2, <1>3 DEF EditInv, EditTypeOK, v
  <2>5. EditTypeOK'
    BY <1>1, <2>1, <2>3, <2>4 DEF EditInv, EditTypeOK
  <2>6. \A w \in Views, f \in Edit!Fields :
          editor'[f] = w => f \in AboutOf(w) /\ page[w].state # "loading"
    <3> TAKE w \in Views, f \in Edit!Fields
    <3>1. CASE f \in AboutOf(v)
      BY <1>2, <2>2, <3>1
    <3>2. CASE f \notin AboutOf(v)
      BY <2>2, <3>2 DEF EditInv, EditsAreOfPages
    <3> QED BY <3>1, <3>2
  <2>7. EditsAreOfPages' /\ OneEditAtATime' /\ FormIsSent'
    BY <1>1, <2>1, <2>6, PagesStay
  <2>8. EditApplied'
    <3> SUFFICES ASSUME NEW w \in Views \ muddled, NEW f \in Edit!Fields,
                        editor'[f] = w, page[w].state = "shown"
                 PROVE  /\ \A d \in Live :
                             edit'[d].view = w /\ edit'[d].pc \in {"updated", "answered"}
                               => edit'[d].patch[f] = project'[f]
                        /\ /\ \A d \in Live :
                                edit'[d].view = w => page[w].at = "detail" /\ edit'[d].pc \in {"asked", "failed"}
                           /\ ~page[w].dirty
                           => page[w].copy[f] = project'[f]
      BY <1>1, <2>1 DEF EditApplied
    <3>1. CASE w = v
      <4>1. f \in AboutOf(v) /\ project'[f] = edit[e].patch[f]
        BY <2>2, <2>6, <3>1
      <4>2. \A d \in Live : edit[d].view = w => d = e
        BY <1>1, <3>1 DEF EditInv, OneEditAtATime, v
      <4> QED BY <1>1, <2>1, <3>1, <4>1, <4>2
    <3>2. CASE w # v
      <4>1. f \notin AboutOf(v) /\ project'[f] = project[f] /\ editor[f] = w
        BY <2>2, <3>2
      <4>2. \A d \in Live : edit[d].view = w => d # e /\ edit'[d] = edit[d]
        BY <2>1, <3>2 DEF Live, v
      <4> QED BY <1>3, <2>1, <4>1, <4>2 DEF EditInv, EditApplied
    <3> QED BY <3>1, <3>2
  <2>9. Told'
    <3> SUFFICES ASSUME ~untold, NEW f \in Edit!Fields
                 PROVE  \/ mirror[f] = project'[f] \/ f \in due
                        \/ \E d \in Edits : edit'[d].pc = "updated" /\ f \in Edit!Sent(d)
      BY <1>1, <2>1 DEF Told
    <3>1. CASE f \in AboutOf(v)
      BY <1>2, <2>1, <3>1
    <3>2. CASE f \notin AboutOf(v)
      <4>1. \A d \in Edits : edit[d].pc = "updated" => edit'[d] = edit[d]
        BY <1>1, <2>1
      <4> QED BY <1>3, <2>2, <3>2, <4>1 DEF EditInv, Told
    <3> QED BY <3>1, <3>2
  <2> QED BY <2>5, <2>7, <2>8, <2>9 DEF EditInv
<1>4. CASE edit' = [edit EXCEPT ![e].pc = "failed"] /\ UNCHANGED <<project, editor>>
  <2>1. /\ edit' \in [Edits -> EditType] /\ Live' = Live
        /\ edit'[e].pc = "failed" /\ edit'[e].view = v /\ edit'[e].patch = edit[e].patch
        /\ \A d \in Edits \ {e} : edit'[d] = edit[d]
        /\ \A d \in Live : edit'[d].view = edit[d].view /\ edit'[d].patch = edit[d].patch
        /\ \A d \in Edits : Edit!Sent(d)' = Edit!Sent(d)
    BY <1>1, <1>4, EditGoesOn
  <2>2. EditTypeOK'
    BY <1>1, <1>4, <2>1 DEF EditInv, EditTypeOK
  <2>3. EditsAreOfPages' /\ OneEditAtATime' /\ FormIsSent'
    <3>1. \A w \in Views, f \in Edit!Fields :
            editor'[f] = w => f \in AboutOf(w) /\ page[w].state # "loading"
      BY <1>4 DEF EditInv, EditsAreOfPages
    <3> QED BY <1>1, <2>1, <3>1, PagesStay
  <2>4. \A d \in Live : edit'[d].pc = edit[d].pc \/ (edit[d].pc = "asked" /\ edit'[d].pc = "failed")
    BY <1>1, <2>1 DEF Live
  <2>5. Edit!Deleted' = Edit!Deleted
    BY <1>4 DEF Edit!Deleted
  <2>6. EditApplied'
    BY <1>1, <1>4, <2>1, <2>4, <2>5 DEF EditInv, EditApplied
  <2>7. Told'
    <3>1. \A d \in Edits : edit[d].pc = "updated" => edit'[d] = edit[d]
      BY <1>1, <2>1
    <3> QED BY <1>1, <1>4, <2>1, <2>5, <3>1 DEF EditInv, Told
  <2> QED BY <2>2, <2>3, <2>6, <2>7 DEF EditInv
<1> QED BY <1>3, <1>4 DEF Edit!Update

LEMMA DispatchKeeps == ASSUME EditInv, NEW e \in Edits, Edit!Dispatch(e) PROVE EditInv'
<1>1. /\ edit[e].pc = "updated" /\ e \in Live
      /\ edit' = [edit EXCEPT ![e].pc = "answered"]
      /\ \/ due' = (IF Edit!Deleted THEN {} ELSE due \cup Edit!Sent(e)) /\ untold' = untold
         \/ untold' = TRUE /\ due' = due
      /\ UNCHANGED <<project, page, mirror, editor, muddled>>
  BY DEF Edit!Dispatch, Edit!Changed, Live
<1>2. /\ edit' \in [Edits -> EditType] /\ Live' = Live
      /\ edit'[e].pc = "answered" /\ edit'[e].view = edit[e].view /\ edit'[e].patch = edit[e].patch
      /\ \A d \in Edits \ {e} : edit'[d] = edit[d]
      /\ \A d \in Live : edit'[d].view = edit[d].view /\ edit'[d].patch = edit[d].patch
      /\ \A d \in Edits : Edit!Sent(d)' = Edit!Sent(d)
  BY <1>1, EditGoesOn
<1>3. due' \subseteq Edit!Fields /\ untold' \in BOOLEAN
  BY <1>1 DEF Edit!Sent, EditInv, EditTypeOK
<1>4. EditTypeOK'
  BY <1>1, <1>2, <1>3 DEF EditInv, EditTypeOK
<1>5. EditsAreOfPages' /\ OneEditAtATime' /\ FormIsSent'
  <2>1. \A w \in Views, f \in Edit!Fields :
          editor'[f] = w => f \in AboutOf(w) /\ page[w].state # "loading"
    BY <1>1 DEF EditInv, EditsAreOfPages
  <2> QED BY <1>1, <1>2, <2>1, PagesStay
<1>6. \A d \in Live : edit'[d].pc = edit[d].pc \/ (edit[d].pc = "updated" /\ edit'[d].pc = "answered")
  BY <1>1, <1>2 DEF Live
<1>7. Edit!Deleted' = Edit!Deleted
  BY <1>1 DEF Edit!Deleted
<1>8. EditApplied'
  BY <1>1, <1>2, <1>6, <1>7 DEF EditInv, EditApplied
<1>9. Told'
  <2> SUFFICES ASSUME ~Edit!Deleted, ~untold', NEW f \in Edit!Fields
               PROVE  \/ mirror[f] = project[f] \/ f \in due'
                      \/ \E d \in Edits : edit'[d].pc = "updated" /\ f \in Edit!Sent(d)
    BY <1>1, <1>2, <1>7 DEF Told
  <2>1. ~untold /\ due' = due \cup Edit!Sent(e)
    BY <1>1
  <2>2. CASE mirror[f] = project[f] \/ f \in due
    BY <2>1, <2>2
  <2>3. ASSUME NEW d \in Edits, edit[d].pc = "updated", f \in Edit!Sent(d)
        PROVE  f \in due' \/ \E b \in Edits : edit'[b].pc = "updated" /\ f \in Edit!Sent(b)
    BY <1>2, <2>1, <2>3
  <2> QED BY <2>1, <2>2, <2>3 DEF EditInv, Told
<1> QED BY <1>4, <1>5, <1>8, <1>9 DEF EditInv

LEMMA LoseAnswerKeeps == ASSUME EditInv, NEW e \in Edits, Edit!LoseAnswer(e) PROVE EditInv'
<1>1. /\ edit[e].pc \in {"updated", "answered"} /\ e \in Live
      /\ edit' = [edit EXCEPT ![e].pc = "failed"]
      /\ untold' = (untold \/ edit[e].pc = "updated")
      /\ muddled' = muddled \cup {edit[e].view}
      /\ UNCHANGED <<project, page, mirror, due, editor>>
  BY DEF Edit!LoseAnswer, Live
<1>2. /\ edit' \in [Edits -> EditType] /\ Live' = Live
      /\ edit'[e].pc = "failed" /\ edit'[e].view = edit[e].view /\ edit'[e].patch = edit[e].patch
      /\ \A d \in Edits \ {e} : edit'[d] = edit[d]
      /\ \A d \in Live : edit'[d].view = edit[d].view /\ edit'[d].patch = edit[d].patch
      /\ \A d \in Edits : Edit!Sent(d)' = Edit!Sent(d)
  BY <1>1, EditGoesOn
<1>3. edit[e].view \in Views
  BY <1>1 DEF EditInv, EditsAreOfPages
<1>4. EditTypeOK'
  BY <1>1, <1>2, <1>3 DEF EditInv, EditTypeOK
<1>5. EditsAreOfPages' /\ OneEditAtATime' /\ FormIsSent'
  <2>1. \A w \in Views, f \in Edit!Fields :
          editor'[f] = w => f \in AboutOf(w) /\ page[w].state # "loading"
    BY <1>1 DEF EditInv, EditsAreOfPages
  <2> QED BY <1>1, <1>2, <2>1, PagesStay
<1>6. Edit!Deleted' = Edit!Deleted
  BY <1>1 DEF Edit!Deleted
<1>7. EditApplied'
  <2> SUFFICES ASSUME NEW w \in Views \ muddled', NEW f \in Edit!Fields,
                      editor[f] = w, page[w].state = "shown", ~Edit!Deleted
               PROVE  /\ \A d \in Live :
                           edit'[d].view = w /\ edit'[d].pc \in {"updated", "answered"}
                             => edit'[d].patch[f] = project[f]
                      /\ /\ \A d \in Live :
                              edit'[d].view = w => page[w].at = "detail" /\ edit'[d].pc \in {"asked", "failed"}
                         /\ ~page[w].dirty
                         => page[w].copy[f] = project[f]
    BY <1>1, <1>2, <1>6 DEF EditApplied
  <2>1. w \in Views \ muddled /\ w # edit[e].view
    BY <1>1
  <2>2. \A d \in Live : edit[d].view = w => edit'[d] = edit[d]
    BY <1>2, <2>1 DEF Live
  <2> QED BY <1>2, <2>1, <2>2 DEF EditInv, EditApplied
<1>8. Told'
  <2> SUFFICES ASSUME ~Edit!Deleted, ~untold' PROVE Told'
    BY <1>6 DEF Told
  <2>1. ~untold /\ \A d \in Edits : edit[d].pc = "updated" => d # e /\ edit'[d] = edit[d]
    BY <1>1, <1>2
  <2> QED BY <1>1, <1>2, <1>6, <2>1 DEF EditInv, Told
<1> QED BY <1>4, <1>5, <1>7, <1>8 DEF EditInv

LEMMA FetchKeeps == ASSUME EditInv, Edit!Fetch PROVE EditInv'
<1>1. /\ mirror' = [f \in Edit!Fields |-> IF f \in due THEN project[f] ELSE mirror[f]]
      /\ due' = {}
      /\ UNCHANGED <<project, page, edit, untold, editor, muddled>>
  BY DEF Edit!Fetch
<1>2. mirror' \in [Edit!Fields -> Values \cup {NoValue}]
  BY <1>1 DEF EditInv, EditTypeOK, Gone
<1>3. EditTypeOK'
  BY <1>1, <1>2 DEF EditInv, EditTypeOK
<1>4. EditsAreOfPages' /\ OneEditAtATime' /\ FormIsSent' /\ EditApplied'
  BY <1>1 DEF EditInv, EditsAreOfPages, OneEditAtATime, FormIsSent, EditApplied, Live,
              Edit!Deleted, AboutOf
<1>5. Told'
  BY <1>1 DEF EditInv, Told, Edit!Deleted, Edit!Sent
<1> QED BY <1>3, <1>4, <1>5 DEF EditInv

LEMMA EditStep == EditInv /\ [Edit!Next]_editVars => EditInv'
<1> SUFFICES ASSUME EditInv, [Edit!Next]_editVars PROVE EditInv'
  OBVIOUS
<1>1. CASE Edit!Fetch
  BY <1>1, FetchKeeps
<1>2. ASSUME NEW v \in Views, Edit!Load(v) \/ Edit!Delete(v) PROVE EditInv'
  BY <1>2, LoadKeeps, DeleteKeeps
<1>3. ASSUME NEW v \in Views, NEW f \in Edit!Fields, NEW x \in Values, Edit!Draft(v, f, x)
      PROVE  EditInv'
  BY <1>3, DraftKeeps
<1>4. ASSUME NEW e \in Edits, NEW v \in Views,
             Edit!Save(e, v) \/ \E x \in Values : Edit!Rename(e, v, x)
      PROVE  EditInv'
  BY <1>4, SaveKeeps, RenameKeeps
<1>5. ASSUME NEW e \in Edits,
             Edit!Update(e) \/ Edit!Dispatch(e) \/ Edit!LoseAnswer(e) \/ Edit!TakeAnswer(e)
      PROVE  EditInv'
  BY <1>5, UpdateKeeps, DispatchKeeps, LoseAnswerKeeps, TakeAnswerKeeps
<1>6. CASE UNCHANGED editVars
  BY <1>6 DEF EditInv, EditTypeOK, EditsAreOfPages, OneEditAtATime, FormIsSent, EditApplied,
              Told, Live, Edit!Deleted, AboutOf, Edit!Sent, editVars
<1> QED BY <1>1, <1>2, <1>3, <1>4, <1>5, <1>6 DEF Edit!Next

LEMMA EditConclusion == EditInv => OwnEditsShow /\ SubscriberCatchesUp
<1> SUFFICES ASSUME EditInv PROVE OwnEditsShow /\ SubscriberCatchesUp
  OBVIOUS
<1>1. OwnEditsShow
  BY DEF EditInv, EditApplied, OwnEditsShow, Edit!OwnEditsShow, Edit!EditsOf, Live
<1>2. SubscriberCatchesUp
  <2> SUFFICES ASSUME ~Edit!Deleted, ~untold, due = {}, \A e \in Edits : edit[e].pc # "updated"
               PROVE  mirror = project
    BY DEF SubscriberCatchesUp, Edit!SubscriberCatchesUp
  <2>1. \A f \in Edit!Fields : mirror[f] = project[f]
    BY DEF EditInv, Told
  <2>2. mirror \in [Edit!Fields -> Values \cup {NoValue}]
        /\ project \in [Edit!Fields -> Values \cup {NoValue}]
    BY DEF EditInv, EditTypeOK, Gone
  <2> QED BY <2>1, <2>2
<1> QED BY <1>1, <1>2

-----------------------------------------------------------------------------
(***************************************************************************)
(* What super admins publish.                                              *)
(*                                                                         *)
(* A component whose select was disabled all along has one change at a     *)
(* time, and the change under way is the last that was chosen.  One form   *)
(* is submitted at a time, and while nothing failed its text is not in the *)
(* table before it is inserted, nor in the form after.  The newest lists   *)
(* that were read are the newest rows of the tables, unless some handler   *)
(* was answered that will read them again, and a list that began to be     *)
(* read after a row was posted has it unless newer ones displaced it.  A   *)
(* visitor is told what was posted before it came, as far as its list      *)
(* goes, and of no calm that there was not.                                *)
(***************************************************************************)
AnyLevel == Levels \cup {"operational", "active", "revoked"}

PartRow == [id : Parts, level : AnyLevel]
PostRow == [id : Runs, text : Texts, at : Nat, since : Nat]

RunType == [pc : {"new", "insert", "write", "answered", "refused", "reading", "done"},
            part : Parts \cup {NoPart}, to : AnyLevel \cup {"none"},
            text : Texts \cup {NoText}, nth : Nat, want : SUBSET {"parts", "posts"},
            parts : SUBSET PartRow, posts : SUBSET PostRow]

VisitorType == [pc : {"away", "loading", "shown"}, want : SUBSET {"parts", "posts"},
                parts : SUBSET PartRow, posts : SUBSET PostRow, owed : SUBSET PostRow,
                clear : BOOLEAN, blind : BOOLEAN]

BoardTypeOK ==
    /\ desk \in {"status", "changelog", "announcements", "keys"}
    /\ state \in [Parts -> AnyLevel] /\ chosen \in [Parts -> AnyLevel]
    /\ posted \subseteq PostRow /\ IsFiniteSet(posted)
    /\ board \in [parts : SUBSET PartRow, posts : SUBSET PostRow]
    /\ saving \in Parts \cup {NoPart}
    /\ submitting \in BOOLEAN /\ picked \in BOOLEAN
    /\ text \in Texts \cup {NoText}
    /\ run \in [Runs -> RunType]
    /\ visitor \in VisitorType
    /\ reads \in [begun : Nat, last : Nat]
    /\ loosened \subseteq Parts /\ spoilt \subseteq Parts
    /\ upsets \in Nat

Aloft == {r \in Runs : run[r].pc \notin {"new", "done"}}

RunsAreKept ==
    /\ \A r \in Aloft :
         /\ run[r].part # NoPart => run[r].text = NoText /\ desk \in {"status", "keys"}
         /\ run[r].pc = "write" => /\ run[r].part # NoPart /\ run[r].to \in AnyLevel
                                   /\ desk = "keys" => run[r].to = "revoked"
         /\ run[r].pc \in {"insert", "refused"} => run[r].text # NoText
    /\ desk \notin {"status", "keys"} => \A c \in Parts : state[c] = "operational"

ChoicesFollow ==
    /\ desk = "status" =>
         /\ \A r \in Aloft : run[r].part \in Parts \ loosened => saving = run[r].part
         /\ \A q, r \in Aloft :
              run[q].part = run[r].part /\ run[q].part \in Parts \ loosened => q = r
    /\ \A r \in Aloft : run[r].pc = "write" /\ run[r].part \notin loosened \cup spoilt
                          => run[r].to = chosen[run[r].part]
    /\ \A c \in Parts \ (loosened \cup spoilt) :
         (\A r \in Aloft : run[r].pc = "write" => run[r].part # c) => state[c] = chosen[c]

PostsAreNew ==
    /\ \A r \in Aloft : run[r].text # NoText => submitting
    /\ \A q, r \in Aloft : run[q].text # NoText /\ run[r].text # NoText => q = r
    /\ upsets = 0 =>
         /\ \A p, q \in posted : p.text = q.text => p = q
         /\ \A r \in Aloft : /\ run[r].pc # "refused"
                             /\ run[r].pc = "insert" => \A p \in posted : p.text # run[r].text
         /\ (\A r \in Aloft : run[r].text # NoText => run[r].pc = "reading")
              => \A p \in posted : p.text # text

\* The tables of a refresh that are not still to be read are as they are.
UpToDate(want, parts, posts) ==
    /\ "parts" \in Board!Tables(desk) \ want => parts = Board!ListedParts
    /\ "posts" \in Board!Tables(desk) \ want => posts = Board!ListedPosts

BoardFollows ==
    /\ reads.last <= reads.begun /\ \A r \in Aloft : run[r].nth <= reads.begun
    /\ upsets = 0 /\ reads.begun # 0 /\ (\A r \in Aloft : run[r].pc # "answered") =>
         /\ \A r \in Aloft : run[r].pc = "reading" /\ run[r].nth = reads.begun
                               => UpToDate(run[r].want, run[r].parts, run[r].posts)
         /\ reads.last = reads.begun => UpToDate({}, board.parts, board.posts)

\* Every refresh that began after a row was posted reads the row, unless newer ones
\* displaced it.
Listing(posts, nth) ==
    \A p \in posted : p \in posts \/ Board!Displaced(p, desk) \/ nth <= p.since

PostsFollow == upsets = 0 /\ desk # "keys" =>
    /\ \A r \in Aloft : run[r].pc = "reading" /\ "posts" \notin run[r].want
                         => Listing(run[r].posts, run[r].nth)
    /\ Listing(board.posts, reads.last)

VisitorFollows ==
    /\ visitor.want # {} => visitor.pc = "loading"
    /\ visitor.pc # "away" =>
         /\ desk \in {"status", "changelog"} /\ visitor.owed \subseteq posted
         /\ Board!AllOperational(Board!StateRows) => visitor.clear
         /\ ~visitor.blind =>
              /\ "parts" \notin visitor.want /\ Board!AllOperational(visitor.parts)
                   => visitor.clear
              /\ "posts" \notin visitor.want =>
                   \A p \in visitor.owed :
                     p \in visitor.posts \/ Board!Displaced(p, "visitor")

BoardInv ==
    /\ BoardTypeOK /\ RunsAreKept /\ ChoicesFollow /\ PostsAreNew /\ BoardFollows
    /\ PostsFollow /\ VisitorFollows

LEMMA NoRunIsRun == Board!NoRun \in RunType /\ Board!NoVisitor \in VisitorType
BY DEF Board!NoRun, RunType, Board!NoVisitor, VisitorType

LEMMA DesksHaveTables ==
    /\ Board!Tables(desk) \subseteq {"parts", "posts"}
    /\ "parts" \in Board!Tables(desk) <=> desk \in {"status", "keys"}
    /\ "posts" \in Board!Tables(desk) <=> desk # "keys"
BY DEF Board!Tables

LEMMA StateIsRows == state \in [Parts -> AnyLevel] => Board!StateRows \subseteq PartRow
BY DEF Board!StateRows, PartRow

LEMMA CardinalityIsBoards == \A S : Board!Cardinality(S) = Cardinality(S)
BY DEF Board!Cardinality, Cardinality

\* The lists do not change unless the tables do.
LEMMA TablesStay ==
    ASSUME UNCHANGED <<desk, listed, state, posted>>
    PROVE  /\ Board!ListedParts' = Board!ListedParts /\ Board!ListedPosts' = Board!ListedPosts
           /\ \A p, limit : Board!Displaced(p, limit)' <=> Board!Displaced(p, limit)
<1>1. \A p : Board!Newer(p)' = Board!Newer(p)
  BY DEF Board!Newer
<1>2. Board!Newest(Limits[desk])' = Board!Newest(Limits[desk])
  BY <1>1 DEF Board!Newest
<1> QED BY <1>1, <1>2 DEF Board!ListedParts, Board!StateRows, Board!ListedPosts, Board!Displaced

LEMMA ListsAreRows ==
    ASSUME BoardTypeOK
    PROVE  /\ Board!StateRows \subseteq PartRow /\ Board!ListedParts \subseteq PartRow
           /\ Board!ListedPosts \subseteq PostRow /\ Board!PublicPosts \subseteq PostRow
BY StateIsRows DEF BoardTypeOK, Board!ListedParts, Board!ListedPosts, Board!PublicPosts,
   Board!Newest

\* A row that is not in a list of the newest is displaced.
LEMMA NewestOrDisplaced ==
    ASSUME BoardTypeOK, desk # "keys", NEW p \in posted
    PROVE  /\ p \in Board!ListedPosts \/ Board!Displaced(p, desk)
           /\ p \in Board!PublicPosts \/ Board!Displaced(p, "visitor")
<1>1. Cardinality(Board!Newer(p)) \in Nat
  <2>1. IsFiniteSet(Board!Newer(p))
    BY FS_Subset DEF BoardTypeOK, Board!Newer
  <2> QED BY <2>1, FS_CardinalityType
<1>2. desk # "changelog" => Limits[desk] \in Nat /\ Limits["visitor"] \in Nat
  BY LimitsAreNats DEF BoardTypeOK
<1>3. Board!Cardinality(Board!Newer(p)) = Cardinality(Board!Newer(p))
  BY CardinalityIsBoards
<1> QED BY <1>1, <1>2, <1>3 DEF Board!ListedPosts, Board!PublicPosts, Board!Newest, Board!Displaced

\* What was displaced stays so.
LEMMA DisplacedStays ==
    ASSUME BoardTypeOK, BoardTypeOK', posted \subseteq posted', UNCHANGED desk,
           NEW p, NEW limit \in {desk, "visitor"},
           Board!Displaced(p, limit)
    PROVE  Board!Displaced(p, limit)'
<1>1. /\ IsFiniteSet(Board!Newer(p)') /\ IsFiniteSet(Board!Newer(p))
      /\ Cardinality(Board!Newer(p)) <= Cardinality(Board!Newer(p)')
  BY FS_Subset DEF BoardTypeOK, Board!Newer
<1>2. Cardinality(Board!Newer(p)) \in Nat /\ Cardinality(Board!Newer(p)') \in Nat
  BY <1>1, FS_CardinalityType
<1>3. desk # "changelog" => Limits[limit] \in Nat
  BY LimitsAreNats DEF BoardTypeOK
<1>4. /\ Board!Cardinality(Board!Newer(p)) = Cardinality(Board!Newer(p))
      /\ Board!Cardinality(Board!Newer(p)') = Cardinality(Board!Newer(p)')
  BY CardinalityIsBoards
<1> QED BY <1>1, <1>2, <1>3, <1>4 DEF Board!Displaced

LEMMA BoardInit == Board!Init => BoardInv
<1> SUFFICES ASSUME Board!Init PROVE BoardInv
  OBVIOUS
<1>1. \A r \in Runs : run[r] = Board!NoRun /\ run[r].pc = "new"
  BY DEF Board!Init, Board!NoRun
<1>2. Aloft = {}
  BY <1>1 DEF Aloft
<1>3. state \in [Parts -> AnyLevel]
        /\ (desk \notin {"status", "keys"} => \A c \in Parts : state[c] = "operational")
  BY LevelsAreKnown DEF Board!Init, Board!LevelsOf, AnyLevel
<1>4. BoardTypeOK
  <2>1. run \in [Runs -> RunType] /\ visitor \in VisitorType
    BY NoRunIsRun DEF Board!Init
  <2>2. board \in [parts : SUBSET PartRow, posts : SUBSET PostRow] /\ reads \in [begun : Nat, last : Nat]
    BY DEF Board!Init
  <2> QED BY <1>3, <2>1, <2>2, FS_EmptySet DEF Board!Init, BoardTypeOK
<1>5. RunsAreKept /\ ChoicesFollow /\ PostsAreNew
  BY <1>2, <1>3 DEF Board!Init, RunsAreKept, ChoicesFollow, PostsAreNew
<1>6. BoardFollows
  <2>1. reads.begun = 0 /\ reads.last = 0
    BY DEF Board!Init
  <2> QED BY <1>2, <2>1, 0 <= 0 DEF BoardFollows
<1>7. VisitorFollows
  <2>1. visitor.want = {} /\ visitor.pc = "away"
    BY DEF Board!Init, Board!NoVisitor
  <2> QED BY <2>1 DEF VisitorFollows
<1>8. PostsFollow
  BY <1>2 DEF Board!Init, PostsFollow, Listing
<1> QED BY <1>4, <1>5, <1>6, <1>7, <1>8 DEF BoardInv

\* One run of the effect or of a handler changes.
LEMMA RunChanges ==
    ASSUME BoardTypeOK, NEW r \in Runs, NEW n \in RunType, run' = [run EXCEPT ![r] = n]
    PROVE  /\ run' \in [Runs -> RunType] /\ run'[r] = n
           /\ \A q \in Runs \ {r} : run'[q] = run[q]
           /\ Aloft' = IF n.pc \in {"new", "done"} THEN Aloft \ {r} ELSE Aloft \cup {r}
           /\ Aloft \subseteq Runs
<1>1. run' \in [Runs -> RunType] /\ run'[r] = n /\ \A q \in Runs \ {r} : run'[q] = run[q]
  BY DEF BoardTypeOK
<1> QED BY <1>1 DEF Aloft

\* What a visitor is told does not depend on the page.
LEMMA VisitorIsLeft ==
    ASSUME VisitorFollows, UNCHANGED <<desk, listed, state, posted, visitor>>
    PROVE  VisitorFollows'
BY DEF VisitorFollows, Board!StateRows, Board!AllOperational, Board!Displaced, Board!Newer

\* No list is read or shown.
LEMMA PostsStay ==
    ASSUME PostsFollow, UNCHANGED <<desk, posted, board>>, reads'.last = reads.last,
           upsets' = 0 => upsets = 0,
           desk # "keys" => \A q \in Aloft' :
             run'[q].pc = "reading" /\ "posts" \notin run'[q].want
               => q \in Aloft /\ run'[q] = run[q]
    PROVE  PostsFollow'
<1>1. \A p : Board!Displaced(p, desk)' <=> Board!Displaced(p, desk)
  BY DEF Board!Displaced, Board!Newer
<1>2. ASSUME NEW posts, NEW nth, Listing(posts, nth) PROVE Listing(posts, nth)'
  BY <1>1, <1>2 DEF Listing
<1>3. ASSUME upsets' = 0, desk # "keys" PROVE Listing(board.posts, reads.last)'
  BY <1>1, <1>3 DEF PostsFollow, Listing
<1>4. ASSUME upsets' = 0, desk # "keys", NEW q \in Aloft', run'[q].pc = "reading",
             "posts" \notin run'[q].want
      PROVE  Listing(run[q].posts, run[q].nth)'
  BY <1>1, <1>4 DEF PostsFollow, Listing
<1> QED BY <1>3, <1>4 DEF PostsFollow

LEMMA OpenKeeps == ASSUME BoardInv, NEW r \in Runs, Board!Open(r) PROVE BoardInv'
<1> DEFINE b == reads.begun + 1
           n == [Board!NoRun EXCEPT !.pc = "reading", !.nth = b, !.want = Board!Tables(desk)]
           d == [reads EXCEPT !.begun = b]
<1>1. /\ run[r].pc = "new" /\ reads.begun = 0 /\ run' = [run EXCEPT ![r] = n] /\ reads' = d
      /\ UNCHANGED <<desk, listed, state, posted, board, saving, submitting, picked,
                     text, visitor, chosen, loosened, spoilt, upsets>>
  BY DEF Board!Open, Board!Refresh
<1>2. BoardTypeOK /\ reads \in [begun : Nat, last : Nat]
  BY DEF BoardInv, BoardTypeOK
<1>3. b \in Nat /\ b = reads.begun + 1
  BY <1>2
<1> HIDE DEF b
<1>4. /\ n \in RunType /\ n.pc = "reading" /\ n.nth = b /\ n.want = Board!Tables(desk)
      /\ n.part = NoPart /\ n.text = NoText
      /\ d \in [begun : Nat, last : Nat] /\ d.begun = b /\ d.last = reads.last
  BY <1>2, <1>3, DesksHaveTables DEF Board!NoRun, RunType
<1> HIDE DEF n, d
<1>5. /\ run' \in [Runs -> RunType] /\ run'[r] = n
      /\ \A q \in Runs \ {r} : run'[q] = run[q]
      /\ Aloft' = Aloft \cup {r} /\ Aloft \subseteq Runs
  BY <1>1, <1>2, <1>4, RunChanges
<1>6. r \notin Aloft /\ \A q \in Aloft : q # r /\ run'[q] = run[q]
  BY <1>1, <1>5 DEF Aloft
<1>7. BoardTypeOK'
  BY <1>1, <1>2, <1>4, <1>5 DEF BoardTypeOK
<1>8. RunsAreKept' /\ ChoicesFollow'
  BY <1>1, <1>4, <1>5, <1>6, NothingIsNothing DEF BoardInv, RunsAreKept, ChoicesFollow
<1>9. PostsAreNew'
  BY <1>1, <1>4, <1>5, <1>6 DEF BoardInv, PostsAreNew
<1>10. BoardFollows'
  <2>1. reads.last <= reads.begun /\ \A q \in Aloft : run[q].nth <= reads.begun /\ run[q].nth \in Nat
    BY <1>2, <1>5 DEF BoardInv, BoardFollows, BoardTypeOK, RunType
  <2>2. /\ reads'.last < b /\ b <= b /\ reads'.begun = b
        /\ \A q \in Aloft : run'[q].nth < b
    BY <1>1, <1>2, <1>3, <1>4, <1>6, <2>1
  <2>3. /\ reads'.last <= b /\ reads'.last # b
        /\ \A q \in Aloft : run'[q].nth <= b /\ run'[q].nth # b
    BY <1>2, <1>3, <1>4, <1>1, <1>6, <2>1, <2>2
  <2>4. UpToDate(run[r].want, run[r].parts, run[r].posts)'
    BY <1>1, <1>4, <1>5 DEF UpToDate, Board!Tables
  <2>5. \A q \in Aloft' : run'[q].pc = "reading" /\ run'[q].nth = reads'.begun => q = r
    BY <1>5, <2>2, <2>3
  <2> QED BY <1>1, <1>4, <1>5, <1>6, <2>2, <2>3, <2>4, <2>5 DEF BoardFollows
<1>11. VisitorFollows'
  BY <1>1, VisitorIsLeft DEF BoardInv
<1>12. PostsFollow'
  BY <1>1, <1>4, <1>5, <1>6, DesksHaveTables, PostsStay DEF BoardInv
<1> QED BY <1>7, <1>8, <1>9, <1>10, <1>11, <1>12 DEF BoardInv

\* A handler is called.
LEMMA HandlerBegins ==
    ASSUME BoardInv, NEW r \in Runs, run[r].pc = "new",
           NEW n \in RunType, n.pc \in {"insert", "write"}, n.nth = 0,
           run' = [run EXCEPT ![r] = n],
           UNCHANGED <<desk, listed, state, posted, board, visitor, reads, upsets>>
    PROVE  /\ run' \in [Runs -> RunType] /\ run'[r] = n
           /\ \A q \in Aloft : q # r /\ run'[q] = run[q]
           /\ Aloft' = Aloft \cup {r} /\ Aloft \subseteq Runs /\ r \notin Aloft
           /\ BoardFollows' /\ PostsFollow' /\ VisitorFollows'
<1>1. /\ run' \in [Runs -> RunType] /\ run'[r] = n
      /\ \A q \in Runs \ {r} : run'[q] = run[q]
      /\ Aloft' = Aloft \cup {r} /\ Aloft \subseteq Runs
  BY RunChanges DEF BoardInv
<1>2. r \notin Aloft /\ \A q \in Aloft : q # r /\ run'[q] = run[q]
  BY <1>1 DEF Aloft
<1>3. BoardFollows'
  <2>1. reads.begun \in Nat
    BY DEF BoardInv, BoardTypeOK
  <2>2. \A q \in Aloft' : run'[q].nth <= reads'.begun
    BY <1>1, <1>2, <2>1 DEF BoardInv, BoardFollows
  <2>3. \A want, parts, posts : UpToDate(want, parts, posts)' <=> UpToDate(want, parts, posts)
    BY TablesStay DEF UpToDate, Board!Tables
  <2>4. reads'.last <= reads'.begun
    BY DEF BoardInv, BoardFollows
  <2>5. ASSUME upsets' = 0, reads'.begun # 0, \A q \in Aloft' : run'[q].pc # "answered"
        PROVE  /\ \A q \in Aloft' : run'[q].pc = "reading" /\ run'[q].nth = reads'.begun
                               => UpToDate(run[q].want, run[q].parts, run[q].posts)'
               /\ reads'.last = reads'.begun => UpToDate({}, board.parts, board.posts)'
    <3>1. \A q \in Aloft : run[q].pc # "answered"
      BY <1>1, <1>2, <2>5
    <3>2. \A q \in Aloft' : run'[q].pc = "reading" => q \in Aloft /\ run'[q] = run[q]
      BY <1>1, <1>2
    <3> QED BY <2>5, <3>1, <3>2, TablesStay DEF BoardInv, BoardFollows, UpToDate, Board!Tables
  <2> QED BY <2>2, <2>4, <2>5 DEF BoardFollows
<1>4. VisitorFollows'
  BY VisitorIsLeft DEF BoardInv
<1>5. PostsFollow'
  BY <1>1, <1>2, PostsStay DEF BoardInv
<1> QED BY <1>1, <1>2, <1>3, <1>4, <1>5

LEMMA SubmitKeeps == ASSUME BoardInv, NEW r \in Runs, Board!Submit(r) PROVE BoardInv'
<1> DEFINE n == [Board!NoRun EXCEPT !.pc = "insert", !.text = text]
<1>1. /\ run[r].pc = "new" /\ text # NoText /\ ~submitting /\ submitting' = TRUE
      /\ run' = [run EXCEPT ![r] = n]
      /\ UNCHANGED <<desk, listed, state, posted, board, saving, picked, text, visitor,
                     reads, chosen, loosened, spoilt, upsets>>
  BY DEF Board!Submit
<1>2. BoardTypeOK
  BY DEF BoardInv
<1>3. n \in RunType /\ n.pc = "insert" /\ n.nth = 0 /\ n.part = NoPart /\ n.text = text
  BY <1>2 DEF Board!NoRun, RunType, BoardTypeOK
<1> HIDE DEF n
<1>4. /\ run' \in [Runs -> RunType] /\ run'[r] = n
      /\ \A q \in Aloft : q # r /\ run'[q] = run[q]
      /\ Aloft' = Aloft \cup {r} /\ Aloft \subseteq Runs /\ r \notin Aloft
      /\ BoardFollows' /\ PostsFollow' /\ VisitorFollows'
  BY <1>1, <1>3, HandlerBegins
<1>5. BoardTypeOK'
  BY <1>1, <1>2, <1>4 DEF BoardTypeOK
<1>6. RunsAreKept' /\ ChoicesFollow'
  BY <1>1, <1>3, <1>4, NothingIsNothing DEF BoardInv, RunsAreKept, ChoicesFollow
<1>7. \A q \in Aloft : run[q].text = NoText
  BY <1>1 DEF BoardInv, PostsAreNew
<1>8. PostsAreNew'
  BY <1>1, <1>3, <1>4, <1>7 DEF BoardInv, PostsAreNew
<1> QED BY <1>4, <1>5, <1>6, <1>8 DEF BoardInv

\* Whichever component was enabled by this one taking its place is loosened.
LEMMA ChangeStatusKeeps ==
    ASSUME BoardInv, NEW r \in Runs, NEW cell \in board.parts, NEW s \in Levels,
           Board!ChangeStatus(r, cell, s)
    PROVE  BoardInv'
<1> DEFINE c == cell.id
           n == [Board!NoRun EXCEPT !.pc = "write", !.part = c, !.to = s]
<1>1. /\ run[r].pc = "new" /\ desk = "status" /\ saving # c /\ saving' = c
      /\ run' = [run EXCEPT ![r] = n] /\ chosen' = [chosen EXCEPT ![c] = s]
      /\ loosened' = loosened \cup Board!Enabled(c, {})
      /\ UNCHANGED <<desk, listed, state, posted, board, submitting, picked, text,
                     visitor, reads, spoilt, upsets>>
  BY DEF Board!ChangeStatus
<1>2. BoardTypeOK
  BY DEF BoardInv
<1>3. c \in Parts /\ s \in AnyLevel
  BY <1>2 DEF BoardTypeOK, PartRow, AnyLevel
<1> HIDE DEF c
<1>4. n \in RunType /\ n.pc = "write" /\ n.nth = 0 /\ n.part = c /\ n.to = s /\ n.text = NoText
  BY <1>3 DEF Board!NoRun, RunType
<1> HIDE DEF n
<1>5. /\ run' \in [Runs -> RunType] /\ run'[r] = n
      /\ \A q \in Aloft : q # r /\ run'[q] = run[q]
      /\ Aloft' = Aloft \cup {r} /\ Aloft \subseteq Runs /\ r \notin Aloft
      /\ BoardFollows' /\ PostsFollow' /\ VisitorFollows'
  BY <1>1, <1>4, HandlerBegins
<1>6. /\ loosened \subseteq loosened' /\ loosened' \subseteq Parts
      /\ c \in loosened' => c \in loosened
      /\ \A q \in Aloft : run[q].part \in Parts /\ run[q].part # c => run[q].part \in loosened'
  BY <1>1, <1>2, <1>5 DEF BoardTypeOK, Board!Enabled, Board!InFlight, Aloft
<1>7. c \notin loosened' => \A q \in Aloft : run[q].part # c
  BY <1>1, <1>3, <1>6 DEF BoardInv, ChoicesFollow
<1>8. chosen' \in [Parts -> AnyLevel] /\ chosen'[c] = s
      /\ \A d \in Parts \ {c} : chosen'[d] = chosen[d]
  BY <1>1, <1>2, <1>3 DEF BoardTypeOK
<1>9. BoardTypeOK'
  BY <1>1, <1>2, <1>3, <1>5, <1>6, <1>8 DEF BoardTypeOK
<1>10. RunsAreKept'
  BY <1>1, <1>3, <1>4, <1>5, NothingIsNothing DEF BoardInv, RunsAreKept
<1>11. ChoicesFollow'
  <2>1. \A q \in Aloft' : run'[q].part \in Parts \ loosened' => q = r
    BY <1>3, <1>4, <1>5, <1>6, <1>7
  <2>2. ASSUME NEW q \in Aloft', run'[q].pc = "write", run'[q].part \notin loosened' \cup spoilt'
        PROVE  run'[q].to = chosen'[run'[q].part]
    <3>1. CASE q = r
      BY <1>4, <1>5, <1>8, <3>1
    <3>2. CASE q # r
      <4>1. q \in Aloft /\ run'[q] = run[q] /\ run[q].part # NoPart
        BY <1>5, <2>2, <3>2 DEF BoardInv, RunsAreKept
      <4>2. run[q].part \in Parts
        BY <1>2, <1>5, <4>1 DEF BoardTypeOK, RunType
      <4> QED BY <2>1, <2>2, <3>2, <4>1, <4>2
    <3> QED BY <3>1, <3>2
  <2>3. ASSUME NEW d \in Parts \ (loosened' \cup spoilt'),
               \A q \in Aloft' : run'[q].pc = "write" => run'[q].part # d
        PROVE  state'[d] = chosen'[d]
    <3>1. d # c /\ \A q \in Aloft : run[q].pc = "write" => run[q].part # d
      BY <1>4, <1>5, <2>3
    <3>2. state[d] = chosen[d]
      BY <1>1, <1>6, <2>3, <3>1 DEF BoardInv, ChoicesFollow
    <3> QED BY <1>1, <1>8, <3>1, <3>2
  <2>4. \A q \in Aloft' : run'[q].part \in Parts \ loosened' => saving' = run'[q].part
    BY <1>1, <1>4, <1>5, <2>1
  <2> QED BY <1>1, <2>1, <2>2, <2>3, <2>4 DEF ChoicesFollow
<1>12. PostsAreNew'
  BY <1>1, <1>4, <1>5 DEF BoardInv, PostsAreNew
<1> QED BY <1>5, <1>9, <1>10, <1>11, <1>12 DEF BoardInv

LEMMA RevokeKeeps ==
    ASSUME BoardInv, NEW r \in Runs, NEW cell \in board.parts, Board!Revoke(r, cell)
    PROVE  BoardInv'
<1> DEFINE c == cell.id
           n == [Board!NoRun EXCEPT !.pc = "write", !.part = c, !.to = "revoked"]
<1>1. /\ run[r].pc = "new" /\ desk = "keys"
      /\ run' = [run EXCEPT ![r] = n] /\ chosen' = [chosen EXCEPT ![c] = "revoked"]
      /\ UNCHANGED <<desk, listed, state, posted, board, saving, submitting, picked,
                     text, visitor, reads, loosened, spoilt, upsets>>
  BY DEF Board!Revoke
<1>2. BoardTypeOK
  BY DEF BoardInv
<1>3. c \in Parts
  BY <1>2 DEF BoardTypeOK, PartRow
<1> HIDE DEF c
<1>4. n \in RunType /\ n.pc = "write" /\ n.nth = 0 /\ n.part = c /\ n.to = "revoked" /\ n.text = NoText
  BY <1>3 DEF Board!NoRun, RunType, AnyLevel
<1> HIDE DEF n
<1>5. /\ run' \in [Runs -> RunType] /\ run'[r] = n
      /\ \A q \in Aloft : q # r /\ run'[q] = run[q]
      /\ Aloft' = Aloft \cup {r} /\ Aloft \subseteq Runs /\ r \notin Aloft
      /\ BoardFollows' /\ PostsFollow' /\ VisitorFollows'
  BY <1>1, <1>4, HandlerBegins
<1>6. chosen' \in [Parts -> AnyLevel] /\ chosen'[c] = "revoked"
      /\ \A d \in Parts \ {c} : chosen'[d] = chosen[d]
  BY <1>1, <1>2, <1>3 DEF BoardTypeOK, AnyLevel
<1>7. BoardTypeOK'
  BY <1>1, <1>2, <1>5, <1>6 DEF BoardTypeOK
<1>8. RunsAreKept'
  BY <1>1, <1>3, <1>4, <1>5, NothingIsNothing DEF BoardInv, RunsAreKept, AnyLevel
<1>9. ChoicesFollow'
  <2>1. ASSUME NEW q \in Aloft', run'[q].pc = "write", run'[q].part \notin loosened' \cup spoilt'
        PROVE  run'[q].to = chosen'[run'[q].part]
    <3>1. run'[q].to = "revoked"
      BY <1>1, <1>8, <2>1 DEF RunsAreKept
    <3>2. CASE run'[q].part = c
      BY <1>6, <3>1, <3>2
    <3>3. CASE run'[q].part # c
      <4>1. q \in Aloft /\ run'[q] = run[q] /\ run[q].part # NoPart
        BY <1>4, <1>5, <2>1, <3>3 DEF BoardInv, RunsAreKept
      <4>2. run[q].part \in Parts \ {c}
        BY <1>2, <1>5, <3>3, <4>1 DEF BoardTypeOK, RunType
      <4>3. run[q].to = chosen[run[q].part]
        BY <1>1, <2>1, <4>1 DEF BoardInv, ChoicesFollow
      <4> QED BY <1>6, <4>1, <4>2, <4>3
    <3> QED BY <3>2, <3>3
  <2>2. ASSUME NEW d \in Parts \ (loosened' \cup spoilt'),
               \A q \in Aloft' : run'[q].pc = "write" => run'[q].part # d
        PROVE  state'[d] = chosen'[d]
    <3>1. d # c /\ \A q \in Aloft : run[q].pc = "write" => run[q].part # d
      BY <1>4, <1>5, <2>2
    <3>2. state[d] = chosen[d]
      BY <1>1, <2>2, <3>1 DEF BoardInv, ChoicesFollow
    <3> QED BY <1>1, <1>6, <3>1, <3>2
  <2> QED BY <1>1, <2>1, <2>2 DEF ChoicesFollow
<1>10. PostsAreNew'
  BY <1>1, <1>4, <1>5 DEF BoardInv, PostsAreNew
<1> QED BY <1>5, <1>7, <1>8, <1>9, <1>10 DEF BoardInv

\* The visitor comes, or the form is filled in: no run changes.
LEMMA OffRunsKeep ==
    ASSUME BoardInv, BoardTypeOK', PostsAreNew', VisitorFollows',
           UNCHANGED <<desk, listed, state, posted, board, saving, submitting, picked,
                       run, reads, chosen, loosened, spoilt>>,
           upsets' = 0 => upsets = 0
    PROVE  BoardInv'
<1>1. Aloft' = Aloft
  BY DEF Aloft
<1>2. RunsAreKept' /\ ChoicesFollow'
  BY <1>1 DEF BoardInv, RunsAreKept, ChoicesFollow
<1>3. BoardFollows'
  BY <1>1, TablesStay DEF BoardInv, BoardFollows, UpToDate, Board!Tables
<1>4. PostsFollow'
  BY <1>1, PostsStay DEF BoardInv
<1> QED BY <1>2, <1>3, <1>4 DEF BoardInv

LEMMA TypeKeeps == ASSUME BoardInv, NEW t \in Texts, Board!Type(t) PROVE BoardInv'
<1>1. /\ t # text /\ \A p \in posted : p.text # t
      /\ text' = t
      /\ UNCHANGED <<desk, listed, state, posted, board, saving, submitting, picked,
                     run, visitor, reads, chosen, loosened, spoilt, upsets>>
  BY DEF Board!Type
<1>2. BoardTypeOK'
  BY <1>1 DEF BoardInv, BoardTypeOK
<1>3. PostsAreNew'
  BY <1>1 DEF BoardInv, PostsAreNew, Aloft
<1>4. VisitorFollows'
  BY <1>1, VisitorIsLeft DEF BoardInv
<1> QED BY <1>1, <1>2, <1>3, <1>4, OffRunsKeep

LEMMA VisitKeeps == ASSUME BoardInv, Board!Visit PROVE BoardInv'
<1> DEFINE cl == Board!AllOperational(Board!StateRows)
           v == [Board!NoVisitor EXCEPT !.pc = "loading", !.want = Board!Tables(desk),
                                        !.owed = posted, !.clear = cl]
<1>1. /\ desk \in {"status", "changelog"} /\ visitor' = v
      /\ UNCHANGED <<desk, listed, state, posted, board, saving, submitting, picked,
                     text, run, reads, chosen, loosened, spoilt, upsets>>
  BY DEF Board!Visit
<1>2. BoardTypeOK
  BY DEF BoardInv
<1>3. cl \in BOOLEAN /\ (cl <=> Board!AllOperational(Board!StateRows))
  BY DEF Board!AllOperational
<1>4. cl' <=> cl
  BY <1>1 DEF Board!AllOperational, Board!StateRows
<1>5. desk = "changelog" => cl
  BY DEF BoardInv, RunsAreKept, Board!AllOperational, Board!StateRows
<1> HIDE DEF cl
<1>6. /\ v \in VisitorType /\ v.pc = "loading" /\ v.want = Board!Tables(desk)
      /\ v.owed = posted /\ v.clear = cl /\ v.parts = {} /\ v.posts = {}
  BY <1>2, <1>3, DesksHaveTables DEF Board!NoVisitor, VisitorType, BoardTypeOK
<1> HIDE DEF v
<1>7. BoardTypeOK'
  BY <1>1, <1>2, <1>6 DEF BoardTypeOK
<1>8. PostsAreNew'
  BY <1>1 DEF BoardInv, PostsAreNew, Aloft
<1>9. VisitorFollows'
  <2>1. Board!AllOperational(Board!StateRows)' <=> cl
    BY <1>1, <1>3 DEF Board!AllOperational, Board!StateRows
  <2>2. "parts" \notin v.want => cl
    BY <1>1, <1>5, <1>6, DesksHaveTables
  <2>3. "posts" \in v.want
    BY <1>1, <1>6, DesksHaveTables
  <2> QED BY <1>1, <1>6, <2>1, <2>2, <2>3 DEF VisitorFollows
<1> QED BY <1>1, <1>7, <1>8, <1>9, OffRunsKeep

LEMMA VisitorReadsKeeps ==
    ASSUME BoardInv, NEW t \in {"parts", "posts"}, Board!VisitorReads(t) PROVE BoardInv'
<1>1. /\ t \in visitor.want
      /\ UNCHANGED <<desk, listed, state, posted, board, saving, submitting, picked,
                     text, run, reads, chosen, loosened, spoilt>>
  BY DEF Board!VisitorReads
<1>2. BoardTypeOK /\ VisitorFollows /\ visitor \in VisitorType
  BY DEF BoardInv, BoardTypeOK
<1>3. visitor.pc = "loading" /\ Board!Tables(desk)' = Board!Tables(desk)
      /\ Board!StateRows' = Board!StateRows /\ Board!StateRows \subseteq PartRow
  BY <1>1, <1>2, StateIsRows DEF VisitorFollows, Board!Tables, Board!StateRows, BoardTypeOK
<1>4. \A rows : Board!AllOperational(rows)' = Board!AllOperational(rows)
  BY DEF Board!AllOperational
<1>5. PostsAreNew' \/ upsets' # upsets
  BY <1>1 DEF BoardInv, PostsAreNew, Aloft
<1>6. CASE /\ visitor' = [visitor EXCEPT !.want = @ \ {t},
                            !.parts = IF t = "parts" THEN Board!StateRows ELSE @,
                            !.posts = IF t = "posts" THEN Board!PublicPosts ELSE @]
           /\ UNCHANGED upsets
  <2> DEFINE ps == IF t = "parts" THEN Board!StateRows ELSE visitor.parts
             es == IF t = "posts" THEN Board!PublicPosts ELSE visitor.posts
             v == [visitor EXCEPT !.want = @ \ {t}, !.parts = ps, !.posts = es]
  <2>1. ps \subseteq PartRow /\ es \subseteq PostRow
    BY <1>2, <1>3, ListsAreRows DEF VisitorType
  <2>0. (t = "parts" => ps = Board!StateRows) /\ (t # "parts" => ps = visitor.parts)
        /\ (t = "posts" => es = Board!PublicPosts) /\ (t # "posts" => es = visitor.posts)
    OBVIOUS
  <2>2. visitor' = v
    BY <1>6
  <2> HIDE DEF ps, es
  <2>3. /\ v \in VisitorType /\ v.pc = "loading" /\ v.want = visitor.want \ {t}
        /\ v.parts = ps /\ v.posts = es /\ v.owed = visitor.owed
        /\ v.clear = visitor.clear /\ v.blind = visitor.blind
    BY <1>2, <1>3, <2>1 DEF VisitorType
  <2> HIDE DEF v
  <2>4. BoardTypeOK'
    BY <1>1, <1>2, <1>6, <2>2, <2>3 DEF BoardTypeOK
  <2>5. VisitorFollows'
    <3>1. ASSUME "posts" \notin v.want, ~v.blind, NEW p \in v.owed
          PROVE  p \in v.posts \/ Board!Displaced(p, "visitor")
      BY <1>1, <1>2, <1>3, <2>0, <2>3, <3>1, NewestOrDisplaced DEF VisitorFollows
    <3>2. \A p : Board!Displaced(p, "visitor")' <=> Board!Displaced(p, "visitor")
      BY <1>1, TablesStay
    <3> QED BY <1>1, <1>2, <1>3, <2>0, <2>2, <2>3, <3>1, <3>2
            DEF VisitorFollows, Board!AllOperational
  <2> QED BY <1>1, <1>5, <1>6, <2>4, <2>5, OffRunsKeep
<1>7. CASE /\ visitor' = [visitor EXCEPT !.want = @ \ {t}, !.blind = TRUE]
           /\ Board!Upset
  <2>1. /\ visitor' \in VisitorType /\ visitor'.pc = "loading"
        /\ visitor'.want = visitor.want \ {t} /\ visitor'.owed = visitor.owed
        /\ visitor'.clear = visitor.clear /\ visitor'.blind = TRUE
    BY <1>2, <1>3, <1>7 DEF VisitorType
  <2>2. upsets' \in Nat /\ upsets' # 0
    BY <1>2, <1>7 DEF Board!Upset, BoardTypeOK
  <2>3. BoardTypeOK'
    BY <1>1, <1>2, <2>1, <2>2 DEF BoardTypeOK
  <2>4. PostsAreNew'
    BY <1>1, <2>2 DEF BoardInv, PostsAreNew, Aloft
  <2>5. VisitorFollows'
    BY <1>1, <1>2, <1>3, <2>1 DEF VisitorFollows, Board!AllOperational
  <2> QED BY <1>1, <2>2, <2>3, <2>4, <2>5, OffRunsKeep
<1> QED BY <1>6, <1>7 DEF Board!VisitorReads

LEMMA VisitorSeesKeeps == ASSUME BoardInv, Board!VisitorSees PROVE BoardInv'
<1>1. /\ visitor.pc = "loading" /\ visitor.want = {}
      /\ visitor' = [visitor EXCEPT !.pc = "shown"]
      /\ UNCHANGED <<desk, listed, state, posted, board, saving, submitting, picked,
                     text, run, reads, chosen, loosened, spoilt, upsets>>
  BY DEF Board!VisitorSees
<1>2. BoardTypeOK /\ VisitorFollows /\ visitor \in VisitorType
  BY DEF BoardInv, BoardTypeOK
<1>3. /\ visitor' \in VisitorType /\ visitor'.pc = "shown" /\ visitor'.want = {}
      /\ visitor'.owed = visitor.owed /\ visitor'.clear = visitor.clear
      /\ visitor'.blind = visitor.blind /\ visitor'.parts = visitor.parts
      /\ visitor'.posts = visitor.posts
  BY <1>1, <1>2 DEF VisitorType
<1>4. BoardTypeOK'
  BY <1>1, <1>2, <1>3 DEF BoardTypeOK
<1>5. PostsAreNew'
  BY <1>1 DEF BoardInv, PostsAreNew, Aloft
<1>6. VisitorFollows'
  BY <1>1, <1>2, <1>3
     DEF VisitorFollows, Board!AllOperational, Board!StateRows, Board!Displaced, Board!Newer
<1> QED BY <1>1, <1>4, <1>5, <1>6, OffRunsKeep

LEMMA WriteKeeps == ASSUME BoardInv, NEW r \in Runs, Board!Write(r) PROVE BoardInv'
<1> DEFINE c == run[r].part
           n == [run[r] EXCEPT !.pc = "answered"]
           now == Board!AllOperational(Board!StateRows')
           v == [visitor EXCEPT !.clear = @ \/ now]
<1>1. /\ run[r].pc = "write" /\ run' = [run EXCEPT ![r] = n]
      /\ visitor' = v
      /\ UNCHANGED <<desk, listed, posted, board, saving, submitting, picked, text,
                     reads, chosen, loosened>>
  BY DEF Board!Write
<1>2. BoardTypeOK /\ r \in Aloft
  BY <1>1 DEF BoardInv, Aloft
<1>3. c # NoPart /\ c \in Parts /\ run[r].to \in AnyLevel /\ run[r].text = NoText
      /\ desk \in {"status", "keys"}
  BY <1>1, <1>2 DEF BoardInv, RunsAreKept, BoardTypeOK, RunType
<1>4. \/ /\ state' = [state EXCEPT ![c] = run[r].to]
         /\ UNCHANGED <<spoilt, upsets>>
      \/ /\ spoilt' = spoilt \cup {c} /\ state' = state /\ upsets' = upsets + 1
  BY DEF Board!Write, Board!Upset
<1>5. /\ n \in RunType /\ n.pc = "answered" /\ n.part = c /\ n.to = run[r].to
      /\ n.text = NoText /\ n.nth = run[r].nth
  BY <1>2, <1>3 DEF BoardTypeOK, RunType
<1>6. now \in BOOLEAN /\ (now <=> Board!AllOperational(Board!StateRows)')
  BY DEF Board!AllOperational
<1> HIDE DEF now
<1>7. /\ v \in VisitorType /\ v.pc = visitor.pc /\ v.want = visitor.want
      /\ v.parts = visitor.parts /\ v.posts = visitor.posts /\ v.owed = visitor.owed
      /\ v.blind = visitor.blind /\ v.clear = (visitor.clear \/ now)
  BY <1>2, <1>6 DEF BoardTypeOK, VisitorType
<1> HIDE DEF n, v, c
<1>8. /\ run' \in [Runs -> RunType] /\ run'[r] = n
      /\ \A q \in Runs \ {r} : run'[q] = run[q]
      /\ Aloft' = Aloft /\ Aloft \subseteq Runs
  <2>1. Aloft \cup {r} = Aloft
    BY <1>2
  <2> QED BY <1>1, <1>2, <1>5, <2>1, RunChanges
<1>9. /\ state' \in [Parts -> AnyLevel] /\ spoilt' \subseteq Parts /\ upsets' \in Nat
      /\ spoilt \subseteq spoilt' /\ (upsets' = 0 => upsets = 0)
      /\ \A d \in Parts \ {c} : state'[d] = state[d]
      /\ c \notin spoilt' => state'[c] = run[r].to
  BY <1>2, <1>3, <1>4 DEF BoardTypeOK
<1>10. BoardTypeOK'
  BY <1>1, <1>2, <1>7, <1>8, <1>9 DEF BoardTypeOK
<1>11. RunsAreKept'
  BY <1>1, <1>3, <1>5, <1>8 DEF BoardInv, RunsAreKept
<1>12. \A q \in Aloft : /\ run'[q].part = run[q].part /\ run'[q].to = run[q].to
                        /\ run'[q].text = run[q].text /\ run'[q].nth = run[q].nth
                        /\ run'[q].pc = IF q = r THEN "answered" ELSE run[q].pc
  BY <1>3, <1>5, <1>8 DEF c
<1>13. ChoicesFollow'
  <2>1. ASSUME NEW d \in Parts \ (loosened' \cup spoilt'),
               \A q \in Aloft' : run'[q].pc = "write" => run'[q].part # d
        PROVE  state'[d] = chosen'[d]
    <3>1. CASE d = c
      <4>1. run[r].to = chosen[c]
        BY <1>1, <1>2, <1>9, <2>1, <3>1 DEF BoardInv, ChoicesFollow, c
      <4> QED BY <1>1, <1>9, <2>1, <3>1, <4>1
    <3>2. CASE d # c
      <4>1. \A q \in Aloft : run[q].pc = "write" => run[q].part # d
        BY <1>8, <1>12, <2>1, <3>2 DEF c
      <4> QED BY <1>1, <1>9, <2>1, <3>2, <4>1 DEF BoardInv, ChoicesFollow
    <3> QED BY <3>1, <3>2
  <2> QED BY <1>1, <1>8, <1>9, <1>12, <2>1 DEF BoardInv, ChoicesFollow
<1>14. PostsAreNew'
  <2>1. \A q \in Aloft : run[q].text # NoText => run'[q] = run[q]
    BY <1>3, <1>8
  <2>2. \A q \in Aloft : run'[q].pc \in {"insert", "refused"} => run'[q] = run[q]
    BY <1>5, <1>8
  <2> QED BY <1>1, <1>8, <1>9, <1>12, <2>1, <2>2 DEF BoardInv, PostsAreNew
<1>15. BoardFollows'
  BY <1>1, <1>2, <1>8, <1>12 DEF BoardInv, BoardFollows
<1>16. VisitorFollows'
  <2>1. \A p : Board!Displaced(p, "visitor")' <=> Board!Displaced(p, "visitor")
    BY <1>1 DEF Board!Displaced, Board!Newer
  <2> QED BY <1>1, <1>6, <1>7, <2>1 DEF BoardInv, VisitorFollows, Board!AllOperational
<1>17. PostsFollow'
  BY <1>1, <1>5, <1>8, <1>9, PostsStay DEF BoardInv
<1> QED BY <1>10, <1>11, <1>13, <1>14, <1>15, <1>16, <1>17 DEF BoardInv

LEMMA PostKeeps == ASSUME BoardInv, NEW r \in Runs, Board!Insert(r) PROVE BoardInv'
<1> DEFINE new == [id |-> r, text |-> run[r].text, at |-> Cardinality(posted) + 1,
                  since |-> reads.begun]
<1>1. /\ run[r].pc = "insert"
      /\ UNCHANGED <<desk, listed, state, board, saving, submitting, picked, text,
                     visitor, reads, chosen, loosened, spoilt>>
  BY DEF Board!Insert
<1>2. BoardTypeOK /\ r \in Aloft
  BY <1>1 DEF BoardInv, Aloft
<1>3. run[r].text # NoText /\ run[r].text \in Texts /\ run[r].part = NoPart /\ new \in PostRow
      /\ new.text = run[r].text /\ new.since = reads.begun
  BY <1>1, <1>2, FS_CardinalityType DEF BoardInv, RunsAreKept, BoardTypeOK, RunType, PostRow
<1> HIDE DEF new
<1>4. PICK pc \in {"answered", "refused"} :
         /\ run' = [run EXCEPT ![r].pc = pc]
         /\ posted' \in {posted, posted \cup {new}}
         /\ pc = "answered" => upsets' = upsets
         /\ pc = "refused" => upsets' = upsets + 1
  BY CardinalityIsBoards DEF Board!Insert, Board!Posting, Board!Upset, new
<1> DEFINE n == [run[r] EXCEPT !.pc = pc]
<1>5. run' = [run EXCEPT ![r] = n]
  BY <1>4
<1>6. /\ n \in RunType /\ n.pc = pc /\ n.part = NoPart /\ n.text = run[r].text
      /\ n.nth = run[r].nth
  BY <1>2, <1>3 DEF BoardTypeOK, RunType
<1> HIDE DEF n
<1>7. /\ run' \in [Runs -> RunType] /\ run'[r] = n
      /\ \A q \in Runs \ {r} : run'[q] = run[q]
      /\ Aloft' = Aloft /\ Aloft \subseteq Runs
  <2>1. Aloft \cup {r} = Aloft
    BY <1>2
  <2> QED BY <1>2, <1>5, <1>6, <2>1, RunChanges
<1>8. /\ posted \subseteq posted' /\ posted' \subseteq PostRow /\ upsets' \in Nat
      /\ IsFiniteSet(posted')
      /\ upsets' = 0 => upsets = 0 /\ pc = "answered"
  BY <1>2, <1>3, <1>4, FS_AddElement DEF BoardTypeOK
<1>9. BoardTypeOK'
  BY <1>1, <1>2, <1>7, <1>8 DEF BoardTypeOK
<1>10. \A q \in Aloft : /\ run'[q].part = run[q].part
                        /\ run'[q].text = run[q].text /\ run'[q].nth = run[q].nth
                        /\ run'[q].pc = IF q = r THEN pc ELSE run[q].pc
                        /\ q # r => run'[q] = run[q]
  BY <1>3, <1>6, <1>7
<1>11. RunsAreKept'
  BY <1>1, <1>3, <1>7, <1>10 DEF BoardInv, RunsAreKept
<1>12. ChoicesFollow'
  <2>1. \A q \in Aloft : (run'[q].pc = "write" <=> run[q].pc = "write")
                         /\ (run'[q].pc = "write" => run'[q].to = run[q].to)
    BY <1>1, <1>10
  <2> QED BY <1>1, <1>7, <1>10, <2>1 DEF BoardInv, ChoicesFollow
<1>13. PostsAreNew'
  <2>1. \A q \in Aloft : run[q].text # NoText => q = r
    BY <1>2, <1>3 DEF BoardInv, PostsAreNew
  <2>2. ASSUME upsets' = 0
        PROVE  /\ \A p, q \in posted' : p.text = q.text => p = q
               /\ \A q \in Aloft' : run'[q].pc # "refused"
    BY <1>1, <1>2, <1>3, <1>4, <1>7, <1>8, <1>10, <2>2 DEF BoardInv, PostsAreNew
  <2>3. ASSUME upsets' = 0 PROVE \A q \in Aloft' : run'[q].pc # "insert"
    BY <1>7, <1>8, <1>10, <1>11, <2>1, <2>3 DEF RunsAreKept
  <2>4. run'[r].pc # "reading" /\ run'[r].text # NoText
    BY <1>2, <1>3, <1>10
  <2> QED BY <1>1, <1>2, <1>7, <1>10, <2>2, <2>3, <2>4 DEF BoardInv, PostsAreNew
<1>14. BoardFollows'
  BY <1>1, <1>2, <1>7, <1>8, <1>10 DEF BoardInv, BoardFollows
<1>15. VisitorFollows'
  <2>1. \A p : Board!Displaced(p, "visitor") => Board!Displaced(p, "visitor")'
    BY <1>1, <1>2, <1>8, <1>9, DisplacedStays
  <2> QED BY <1>1, <1>8, <2>1 DEF BoardInv, VisitorFollows, Board!AllOperational, Board!StateRows
<1>16. PostsFollow'
  <2>1. \A p : Board!Displaced(p, desk) => Board!Displaced(p, desk)'
    BY <1>1, <1>2, <1>8, <1>9, DisplacedStays DEF BoardTypeOK
  <2>2. \A p \in posted' : p \in posted \/ p.since = reads.begun
    BY <1>3, <1>4
  <2>3. reads.last <= reads.begun /\ \A q \in Aloft : run[q].nth <= reads.begun
    BY DEF BoardInv, BoardFollows
  <2>4. ASSUME upsets' = 0, desk # "keys" PROVE Listing(board.posts, reads.last)'
    BY <1>1, <1>8, <2>1, <2>2, <2>3, <2>4 DEF BoardInv, PostsFollow, Listing
  <2>5. ASSUME upsets' = 0, desk # "keys", NEW q \in Aloft', run'[q].pc = "reading",
               "posts" \notin run'[q].want
        PROVE  Listing(run[q].posts, run[q].nth)'
    <3>1. q # r /\ q \in Aloft /\ run'[q] = run[q]
      BY <1>7, <1>10, <2>5
    <3> QED BY <1>1, <1>8, <2>1, <2>2, <2>3, <2>5, <3>1 DEF BoardInv, PostsFollow, Listing
  <2> QED BY <1>1, <2>4, <2>5 DEF PostsFollow
<1> QED BY <1>9, <1>11, <1>12, <1>13, <1>14, <1>15, <1>16 DEF BoardInv

\* A query of a refresh, answered or not, and the whole of a refresh: no row changes.
LEMMA ReadKeepsBoard ==
    ASSUME BoardInv, NEW r \in Runs, NEW t \in {"parts", "posts"}, Board!Read(r, t)
    PROVE  BoardInv'
<1> DEFINE ps == IF t = "parts" THEN Board!ListedParts ELSE run[r].parts
           es == IF t = "posts" THEN Board!ListedPosts ELSE run[r].posts
           w == run[r].want \ {t}
<1>1. /\ run[r].pc = "reading" /\ t \in run[r].want
      /\ UNCHANGED <<desk, listed, state, posted, board, saving, submitting, picked,
                     text, visitor, reads, chosen, loosened, spoilt>>
  BY DEF Board!Read
<1>2. BoardTypeOK /\ r \in Aloft /\ run[r] \in RunType
  BY <1>1 DEF BoardInv, BoardTypeOK, Aloft
<1>3. /\ (t = "parts" => ps = Board!ListedParts) /\ (t # "parts" => ps = run[r].parts)
      /\ (t = "posts" => es = Board!ListedPosts) /\ (t # "posts" => es = run[r].posts)
      /\ ps \subseteq PartRow /\ es \subseteq PostRow /\ w \in SUBSET {"parts", "posts"}
  BY <1>2, ListsAreRows DEF RunType
<1>4. \/ run' = [run EXCEPT ![r].want = w, ![r].parts = ps, ![r].posts = es] /\ upsets' = upsets
      \/ run' = [run EXCEPT ![r].want = w] /\ upsets' = upsets + 1
  BY <1>2 DEF Board!Read, Board!Upset, BoardTypeOK
<1> HIDE DEF ps, es, w
<1>5. PICK n \in RunType :
        /\ run' = [run EXCEPT ![r] = n]
        /\ n.pc = "reading" /\ n.part = run[r].part /\ n.text = run[r].text
        /\ n.nth = run[r].nth /\ n.want = w /\ upsets' \in Nat
        /\ upsets' = 0 => upsets = 0 /\ n.parts = ps /\ n.posts = es
  <2>1. CASE run' = [run EXCEPT ![r].want = w, ![r].parts = ps, ![r].posts = es] /\ upsets' = upsets
    <3> DEFINE n == [run[r] EXCEPT !.want = w, !.parts = ps, !.posts = es]
    <3>1. run' = [run EXCEPT ![r] = n]
      BY <1>2, <2>1 DEF BoardTypeOK
    <3>2. /\ n \in RunType /\ n.pc = "reading" /\ n.part = run[r].part /\ n.text = run[r].text
          /\ n.nth = run[r].nth /\ n.want = w /\ n.parts = ps /\ n.posts = es
      BY <1>1, <1>2, <1>3 DEF RunType
    <3>3. upsets' \in Nat /\ upsets' = upsets
      BY <1>2, <2>1 DEF BoardTypeOK
    <3> HIDE DEF n
    <3> QED BY <3>1, <3>2, <3>3
  <2>2. CASE run' = [run EXCEPT ![r].want = w] /\ upsets' = upsets + 1
    <3> DEFINE n == [run[r] EXCEPT !.want = w]
    <3>1. run' = [run EXCEPT ![r] = n]
      BY <1>2, <2>2 DEF BoardTypeOK
    <3>2. /\ n \in RunType /\ n.pc = "reading" /\ n.part = run[r].part /\ n.text = run[r].text
          /\ n.nth = run[r].nth /\ n.want = w
      BY <1>1, <1>2, <1>3 DEF RunType
    <3>3. upsets' \in Nat /\ upsets' # 0
      BY <1>2, <2>2 DEF BoardTypeOK
    <3> HIDE DEF n
    <3> QED BY <3>1, <3>2, <3>3
  <2> QED BY <1>4, <2>1, <2>2
<1>6. /\ run' \in [Runs -> RunType] /\ run'[r] = n
      /\ \A q \in Runs \ {r} : run'[q] = run[q]
      /\ Aloft' = Aloft /\ Aloft \subseteq Runs
  <2>1. Aloft \cup {r} = Aloft
    BY <1>2
  <2> QED BY <1>2, <1>5, <2>1, RunChanges
<1>7. \A q \in Aloft : /\ run'[q].part = run[q].part /\ run'[q].text = run[q].text
                       /\ run'[q].nth = run[q].nth /\ run'[q].pc = run[q].pc
                       /\ run[q].pc # "reading" => run'[q] = run[q]
                       /\ q # r => run'[q] = run[q]
  BY <1>1, <1>5, <1>6
<1>8. BoardTypeOK'
  BY <1>1, <1>2, <1>5, <1>6 DEF BoardTypeOK
<1>9. RunsAreKept' /\ ChoicesFollow'
  BY <1>1, <1>6, <1>7 DEF BoardInv, RunsAreKept, ChoicesFollow
<1>10. PostsAreNew'
  BY <1>1, <1>5, <1>6, <1>7 DEF BoardInv, PostsAreNew
<1>11. BoardFollows'
  <2>1. reads.last <= reads.begun /\ \A q \in Aloft : run[q].nth <= reads.begun
    BY DEF BoardInv, BoardFollows
  <2>2. ASSUME upsets' = 0, reads'.begun # 0, \A q \in Aloft' : run'[q].pc # "answered",
               NEW q \in Aloft', run'[q].pc = "reading", run'[q].nth = reads'.begun
        PROVE  UpToDate(run[q].want, run[q].parts, run[q].posts)'
    <3>1. UpToDate(run[q].want, run[q].parts, run[q].posts)
      BY <1>1, <1>5, <1>6, <1>7, <2>2 DEF BoardInv, BoardFollows
    <3>2. CASE q = r
      BY <1>1, <1>2, <1>3, <1>5, <1>6, <2>2, <3>1, <3>2, TablesStay
         DEF UpToDate, Board!Tables, w
    <3>3. CASE q # r
      BY <1>1, <1>6, <1>7, <2>2, <3>1, <3>3, TablesStay DEF UpToDate, Board!Tables
    <3> QED BY <3>2, <3>3
  <2>3. ASSUME upsets' = 0, reads'.begun # 0, \A q \in Aloft' : run'[q].pc # "answered",
               reads'.last = reads'.begun
        PROVE  UpToDate({}, board.parts, board.posts)'
    <3>1. UpToDate({}, board.parts, board.posts)
      BY <1>1, <1>5, <1>6, <1>7, <2>3 DEF BoardInv, BoardFollows
    <3> QED BY <1>1, <3>1, TablesStay DEF UpToDate, Board!Tables
  <2> QED BY <1>1, <1>6, <1>7, <2>1, <2>2, <2>3 DEF BoardFollows
<1>12. VisitorFollows'
  BY <1>1, VisitorIsLeft DEF BoardInv
<1>13. PostsFollow'
  <2>1. \A p : Board!Displaced(p, desk)' <=> Board!Displaced(p, desk)
    BY <1>1, TablesStay
  <2>2. ASSUME upsets' = 0, desk # "keys" PROVE Listing(board.posts, reads.last)'
    BY <1>1, <1>5, <2>1, <2>2 DEF BoardInv, PostsFollow, Listing
  <2>3. ASSUME upsets' = 0, desk # "keys", NEW q \in Aloft', run'[q].pc = "reading",
               "posts" \notin run'[q].want
        PROVE  Listing(run[q].posts, run[q].nth)'
    <3>1. CASE q # r \/ t # "posts"
      BY <1>1, <1>3, <1>5, <1>6, <1>7, <2>1, <2>3, <3>1 DEF BoardInv, PostsFollow, Listing, w
    <3>2. CASE q = r /\ t = "posts"
      BY <1>1, <1>2, <1>3, <1>5, <1>6, <2>1, <2>3, <3>2, NewestOrDisplaced DEF Listing
    <3> QED BY <3>1, <3>2
  <2> QED BY <1>1, <2>2, <2>3 DEF PostsFollow
<1> QED BY <1>8, <1>9, <1>10, <1>11, <1>12, <1>13 DEF BoardInv

LEMMA AnswerKeepsBoard == ASSUME BoardInv, NEW r \in Runs, Board!TakeAnswer(r) PROVE BoardInv'
<1> DEFINE b == reads.begun + 1
           n == [run[r] EXCEPT !.pc = "reading", !.nth = b, !.want = Board!Tables(desk)]
           d == [reads EXCEPT !.begun = b]
<1>1. /\ run[r].pc = "answered" /\ run' = [run EXCEPT ![r] = n] /\ reads' = d
      /\ text' = IF run[r].text # NoText THEN NoText ELSE text
      /\ UNCHANGED <<desk, listed, state, posted, board, saving, submitting, picked,
                     visitor, chosen, loosened, spoilt, upsets>>
  BY DEF Board!TakeAnswer, Board!Refresh
<1>2. BoardTypeOK /\ reads \in [begun : Nat, last : Nat] /\ r \in Aloft /\ run[r] \in RunType
  BY <1>1 DEF BoardInv, BoardTypeOK, Aloft
<1>3. b \in Nat /\ b = reads.begun + 1
  BY <1>2
<1> HIDE DEF b
<1>4. /\ n \in RunType /\ n.pc = "reading" /\ n.nth = b /\ n.want = Board!Tables(desk)
      /\ n.part = run[r].part /\ n.text = run[r].text
      /\ d \in [begun : Nat, last : Nat] /\ d.begun = b /\ d.last = reads.last
  BY <1>2, <1>3, DesksHaveTables DEF RunType
<1> HIDE DEF n, d
<1>5. /\ run' \in [Runs -> RunType] /\ run'[r] = n
      /\ \A q \in Runs \ {r} : run'[q] = run[q]
      /\ Aloft' = Aloft /\ Aloft \subseteq Runs
  <2>1. Aloft \cup {r} = Aloft
    BY <1>2
  <2> QED BY <1>1, <1>2, <1>4, <2>1, RunChanges
<1>6. \A q \in Aloft : /\ run'[q].part = run[q].part /\ run'[q].text = run[q].text
                       /\ run'[q].pc = IF q = r THEN "reading" ELSE run[q].pc
                       /\ q # r => run'[q] = run[q]
  BY <1>4, <1>5
<1>7. BoardTypeOK'
  <2>1. text' \in Texts \cup {NoText}
    BY <1>1, <1>2 DEF BoardTypeOK
  <2> QED BY <1>1, <1>2, <1>4, <1>5, <2>1 DEF BoardTypeOK
<1>8. RunsAreKept' /\ ChoicesFollow'
  <2>1. \A q \in Aloft : run'[q].pc = "write" <=> run[q].pc = "write"
    BY <1>1, <1>6
  <2>2. \A q \in Aloft : run'[q].pc = "write" => run'[q].to = run[q].to
    BY <1>1, <1>6
  <2>3. RunsAreKept'
    BY <1>1, <1>5, <1>6, <2>1, <2>2 DEF BoardInv, RunsAreKept
  <2> QED BY <1>1, <1>5, <1>6, <2>1, <2>2, <2>3 DEF BoardInv, ChoicesFollow
<1>9. PostsAreNew'
  <2>1. ASSUME upsets' = 0, \A q \in Aloft' : run'[q].text # NoText => run'[q].pc = "reading",
               NEW p \in posted'
        PROVE  p.text # text'
    <3>1. CASE run[r].text # NoText
      <4>1. p.text \in Texts
        BY <1>1, <1>2, <2>1 DEF BoardTypeOK, PostRow
      <4> QED BY <1>1, <3>1, <4>1, NothingIsNothing
    <3>2. CASE run[r].text = NoText
      <4>1. \A q \in Aloft : run[q].text # NoText => run[q].pc = "reading"
        BY <1>5, <1>6, <2>1, <3>2
      <4> QED BY <1>1, <2>1, <3>2, <4>1 DEF BoardInv, PostsAreNew
    <3> QED BY <3>1, <3>2
  <2> QED BY <1>1, <1>5, <1>6, <2>1 DEF BoardInv, PostsAreNew
<1>10. BoardFollows'
  <2>1. reads.last <= reads.begun /\ \A q \in Aloft : run[q].nth <= reads.begun /\ run[q].nth \in Nat
    BY <1>2, <1>5 DEF BoardInv, BoardFollows, BoardTypeOK, RunType
  <2>2. /\ reads'.last <= b /\ reads'.last # b /\ b <= b /\ reads'.begun = b
        /\ \A q \in Aloft : run[q].nth <= b /\ run[q].nth # b
    BY <1>1, <1>2, <1>3, <1>4, <2>1
  <2>3. \A q \in Aloft' : run'[q].nth <= b /\ (run'[q].nth = b => q = r)
    BY <1>4, <1>5, <1>6, <2>2
  <2>4. UpToDate(run[r].want, run[r].parts, run[r].posts)'
    BY <1>1, <1>4, <1>5 DEF UpToDate, Board!Tables
  <2> QED BY <2>2, <2>3, <2>4 DEF BoardFollows
<1>11. VisitorFollows'
  BY <1>1, VisitorIsLeft DEF BoardInv
<1>12. PostsFollow'
  BY <1>1, <1>4, <1>5, <1>6, DesksHaveTables, PostsStay DEF BoardInv
<1> QED BY <1>7, <1>8, <1>9, <1>10, <1>11, <1>12 DEF BoardInv

\* A handler is done.
LEMMA RunEnds ==
    ASSUME BoardInv, NEW r \in Aloft,
           run' = [run EXCEPT ![r] = [Board!NoRun EXCEPT !.pc = "done"]]
    PROVE  /\ r \in Runs /\ run' \in [Runs -> RunType]
           /\ Aloft' = Aloft \ {r} /\ \A q \in Aloft' : run'[q] = run[q]
<1> DEFINE n == [Board!NoRun EXCEPT !.pc = "done"]
<1>1. n \in RunType /\ n.pc = "done" /\ r \in Runs /\ BoardTypeOK
  BY DEF Board!NoRun, RunType, Aloft, BoardInv
<1>2. run' = [run EXCEPT ![r] = n]
  OBVIOUS
<1> HIDE DEF n
<1>3. /\ run' \in [Runs -> RunType] /\ \A q \in Runs \ {r} : run'[q] = run[q]
      /\ Aloft' = Aloft \ {r} /\ Aloft \subseteq Runs
  BY <1>1, <1>2, RunChanges
<1> QED BY <1>1, <1>3

LEMMA RefusalKeeps == ASSUME BoardInv, NEW r \in Runs, Board!TakeRefusal(r) PROVE BoardInv'
<1>1. /\ run[r].pc = "refused" /\ submitting' = FALSE
      /\ run' = [run EXCEPT ![r] = [Board!NoRun EXCEPT !.pc = "done"]]
      /\ UNCHANGED <<desk, listed, state, posted, board, saving, picked, text, visitor,
                     reads, chosen, loosened, spoilt, upsets>>
  BY DEF Board!TakeRefusal
<1>2. BoardTypeOK /\ r \in Aloft /\ run[r].text # NoText /\ run[r].part = NoPart
  <2>1. r \in Aloft
    BY <1>1 DEF Aloft
  <2> QED BY <1>1, <2>1 DEF BoardInv, RunsAreKept
<1>3. /\ run' \in [Runs -> RunType]
      /\ Aloft' = Aloft \ {r} /\ \A q \in Aloft' : run'[q] = run[q]
  BY <1>1, <1>2, RunEnds
<1>4. BoardTypeOK'
  BY <1>1, <1>2, <1>3 DEF BoardTypeOK
<1>5. RunsAreKept'
  BY <1>1, <1>3 DEF BoardInv, RunsAreKept
<1>6. ChoicesFollow'
  <2>1. ASSUME NEW c \in Parts, \A q \in Aloft' : run'[q].pc = "write" => run'[q].part # c
        PROVE  \A q \in Aloft : run[q].pc = "write" => run[q].part # c
    BY <1>1, <1>3, <2>1
  <2> QED BY <1>1, <1>3, <2>1 DEF BoardInv, ChoicesFollow
<1>7. PostsAreNew'
  <2>1. \A q \in Aloft' : run[q].text = NoText
    BY <1>2, <1>3 DEF BoardInv, PostsAreNew
  <2>2. upsets # 0
    BY <1>1, <1>2 DEF BoardInv, PostsAreNew
  <2> QED BY <1>1, <1>3, <2>1, <2>2 DEF PostsAreNew
<1>8. BoardFollows'
  <2>1. upsets # 0
    BY <1>1, <1>2 DEF BoardInv, PostsAreNew
  <2> QED BY <1>1, <1>3, <2>1 DEF BoardInv, BoardFollows
<1>9. VisitorFollows'
  BY <1>1, VisitorIsLeft DEF BoardInv
<1>10. PostsFollow'
  BY <1>1, <1>3, PostsStay DEF BoardInv
<1> QED BY <1>4, <1>5, <1>6, <1>7, <1>8, <1>9, <1>10 DEF BoardInv

\* Whichever component is enabled by this one being done is loosened.
LEMMA ListsKeep == ASSUME BoardInv, NEW r \in Runs, Board!TakeLists(r) PROVE BoardInv'
<1>1. /\ run[r].pc = "reading" /\ run[r].want = {}
      /\ board' = [parts |-> run[r].parts, posts |-> run[r].posts]
      /\ picked' = (picked \/ run[r].parts # {})
      /\ reads' = [reads EXCEPT !.last = run[r].nth]
      /\ submitting' = (submitting /\ run[r].text = NoText)
      /\ run' = [run EXCEPT ![r] = [Board!NoRun EXCEPT !.pc = "done"]]
      /\ UNCHANGED <<desk, listed, state, posted, text, visitor, chosen, spoilt,
                     upsets>>
      /\ IF desk = "status" /\ run[r].part # NoPart
         THEN saving' = NoPart /\ loosened' = loosened \cup Board!Enabled(NoPart, {r})
         ELSE UNCHANGED <<saving, loosened>>
  BY DEF Board!TakeLists
<1>2. BoardTypeOK /\ r \in Aloft /\ run[r] \in RunType /\ reads \in [begun : Nat, last : Nat]
  BY <1>1 DEF BoardInv, BoardTypeOK, Aloft
<1>3. /\ run' \in [Runs -> RunType]
      /\ Aloft' = Aloft \ {r} /\ \A q \in Aloft' : run'[q] = run[q]
  BY <1>1, <1>2, RunEnds
<1>4. /\ reads' \in [begun : Nat, last : Nat] /\ reads'.begun = reads.begun
      /\ reads'.last = run[r].nth
      /\ board' \in [parts : SUBSET PartRow, posts : SUBSET PostRow]
      /\ board'.parts = run[r].parts /\ board'.posts = run[r].posts
  BY <1>1, <1>2 DEF RunType
<1>5. /\ saving' \in Parts \cup {NoPart} /\ loosened \subseteq loosened' /\ loosened' \subseteq Parts
      /\ picked' \in BOOLEAN /\ submitting' \in BOOLEAN
  BY <1>1, <1>2 DEF BoardTypeOK, Board!Enabled
<1>6. BoardTypeOK'
  BY <1>1, <1>2, <1>3, <1>4, <1>5 DEF BoardTypeOK
<1>7. RunsAreKept'
  BY <1>1, <1>3 DEF BoardInv, RunsAreKept
<1>8. ChoicesFollow'
  <2>1. ASSUME NEW c \in Parts, \A q \in Aloft' : run'[q].pc = "write" => run'[q].part # c
        PROVE  \A q \in Aloft : run[q].pc = "write" => run[q].part # c
    BY <1>1, <1>3, <2>1
  <2>2. ASSUME desk = "status", NEW q \in Aloft', run'[q].part \in Parts \ loosened'
        PROVE  saving' = run'[q].part
    <3>1. q \in Runs \ {r} /\ Board!InFlight(q) /\ run'[q] = run[q] /\ run[q].part \in Parts
      BY <1>3, <2>2 DEF Aloft, Board!InFlight
    <3>2. saving = run[q].part
      BY <1>3, <1>5, <2>2, <3>1 DEF BoardInv, ChoicesFollow
    <3>3. CASE run[r].part # NoPart
      BY <1>1, <2>2, <3>1, <3>3, NothingIsNothing DEF Board!Enabled
    <3>4. CASE run[r].part = NoPart
      BY <1>1, <3>1, <3>2, <3>4
    <3> QED BY <3>3, <3>4
  <2> QED BY <1>1, <1>3, <1>5, <2>1, <2>2 DEF BoardInv, ChoicesFollow
<1>9. PostsAreNew'
  <2>1. \A q \in Aloft' : run[q].text # NoText => run[r].text = NoText
    BY <1>2, <1>3 DEF BoardInv, PostsAreNew
  <2>2. (\A q \in Aloft' : run'[q].text # NoText => run'[q].pc = "reading")
          => \A q \in Aloft : run[q].text # NoText => run[q].pc = "reading"
    BY <1>1, <1>3
  <2>3. \A q \in Aloft' : run'[q].text # NoText => submitting'
    BY <1>1, <1>3, <2>1 DEF BoardInv, PostsAreNew
  <2>4. \A p, q \in Aloft' : run'[p].text # NoText /\ run'[q].text # NoText => p = q
    BY <1>3 DEF BoardInv, PostsAreNew
  <2>5. ASSUME upsets' = 0
        PROVE  /\ \A p, q \in posted' : p.text = q.text => p = q
               /\ \A q \in Aloft' : /\ run'[q].pc # "refused"
                                    /\ run'[q].pc = "insert"
                                         => \A p \in posted' : p.text # run'[q].text
    BY <1>1, <1>3, <2>5 DEF BoardInv, PostsAreNew
  <2>6. ASSUME upsets' = 0, \A q \in Aloft' : run'[q].text # NoText => run'[q].pc = "reading"
        PROVE  \A p \in posted' : p.text # text'
    BY <1>1, <2>2, <2>6 DEF BoardInv, PostsAreNew
  <2> QED BY <2>3, <2>4, <2>5, <2>6 DEF PostsAreNew
<1>10. BoardFollows'
  <2>1. run[r].nth <= reads.begun /\ \A q \in Aloft' : run'[q].nth <= reads.begun
    BY <1>2, <1>3 DEF BoardInv, BoardFollows
  <2>2. (\A q \in Aloft' : run'[q].pc # "answered") => \A q \in Aloft : run[q].pc # "answered"
    BY <1>1, <1>3
  <2>3. ASSUME upsets' = 0, reads'.begun # 0, \A q \in Aloft' : run'[q].pc # "answered"
        PROVE  \A q \in Aloft : run[q].pc = "reading" /\ run[q].nth = reads.begun
                 => UpToDate(run[q].want, run[q].parts, run[q].posts)
    BY <1>1, <1>4, <2>2, <2>3 DEF BoardInv, BoardFollows
  <2>4. ASSUME upsets' = 0, reads'.begun # 0, \A q \in Aloft' : run'[q].pc # "answered",
               NEW q \in Aloft', run'[q].pc = "reading", run'[q].nth = reads'.begun
        PROVE  UpToDate(run[q].want, run[q].parts, run[q].posts)'
    <3>1. UpToDate(run[q].want, run[q].parts, run[q].posts)
      BY <1>3, <1>4, <2>3, <2>4
    <3> QED BY <1>1, <1>3, <2>4, <3>1, TablesStay DEF UpToDate, Board!Tables
  <2>5. ASSUME upsets' = 0, reads'.begun # 0, \A q \in Aloft' : run'[q].pc # "answered",
               reads'.last = reads'.begun
        PROVE  UpToDate({}, board.parts, board.posts)'
    <3>1. UpToDate({}, run[r].parts, run[r].posts)
      BY <1>1, <1>2, <1>4, <2>3, <2>5
    <3> QED BY <1>1, <1>4, <3>1, TablesStay DEF UpToDate, Board!Tables
  <2> QED BY <1>4, <2>1, <2>4, <2>5 DEF BoardFollows
<1>11. VisitorFollows'
  BY <1>1, VisitorIsLeft DEF BoardInv
<1>12. PostsFollow'
  <2>1. \A p : Board!Displaced(p, desk)' <=> Board!Displaced(p, desk)
    BY <1>1, TablesStay
  <2>2. ASSUME upsets' = 0, desk # "keys" PROVE Listing(board.posts, reads.last)'
    BY <1>1, <1>2, <1>4, <2>1, <2>2 DEF BoardInv, PostsFollow, Listing
  <2>3. ASSUME upsets' = 0, desk # "keys", NEW q \in Aloft', run'[q].pc = "reading",
               "posts" \notin run'[q].want
        PROVE  Listing(run[q].posts, run[q].nth)'
    BY <1>1, <1>3, <2>1, <2>3 DEF BoardInv, PostsFollow, Listing
  <2> QED BY <1>1, <2>2, <2>3 DEF PostsFollow
<1> QED BY <1>6, <1>7, <1>8, <1>9, <1>10, <1>11, <1>12 DEF BoardInv

LEMMA BoardStep == BoardInv /\ [Board!Next]_boardVars => BoardInv'
<1> SUFFICES ASSUME BoardInv, [Board!Next]_boardVars PROVE BoardInv'
  OBVIOUS
<1>1. ASSUME NEW t \in Texts, Board!Type(t) PROVE BoardInv'
  BY <1>1, TypeKeeps
<1>2. ASSUME NEW r \in Runs, Board!Open(r) \/ Board!Submit(r) PROVE BoardInv'
  BY <1>2, OpenKeeps, SubmitKeeps
<1>3. ASSUME NEW r \in Runs, Board!Write(r) \/ Board!Insert(r) PROVE BoardInv'
  BY <1>3, WriteKeeps, PostKeeps
<1>4. ASSUME NEW r \in Runs,
             Board!TakeAnswer(r) \/ Board!TakeRefusal(r) \/ Board!TakeLists(r)
      PROVE  BoardInv'
  BY <1>4, AnswerKeepsBoard, RefusalKeeps, ListsKeep
<1>5. ASSUME NEW r \in Runs, NEW cell \in board.parts,
             Board!Revoke(r, cell) \/ \E s \in Levels : Board!ChangeStatus(r, cell, s)
      PROVE  BoardInv'
  BY <1>5, RevokeKeeps, ChangeStatusKeeps
<1>6. ASSUME NEW t \in {"parts", "posts"},
             Board!VisitorReads(t) \/ \E r \in Runs : Board!Read(r, t)
      PROVE  BoardInv'
  BY <1>6, VisitorReadsKeeps, ReadKeepsBoard
<1>7. CASE Board!Visit \/ Board!VisitorSees
  BY <1>7, VisitKeeps, VisitorSeesKeeps
<1>8. CASE UNCHANGED boardVars
  <2>1. BoardTypeOK' /\ PostsAreNew' /\ VisitorFollows'
    BY <1>8, VisitorIsLeft DEF boardVars, BoardInv, BoardTypeOK, PostsAreNew, Aloft
  <2> QED BY <1>8, <2>1, OffRunsKeep DEF boardVars
<1> QED BY <1>1, <1>2, <1>3, <1>4, <1>5, <1>6, <1>7, <1>8 DEF Board!Next

LEMMA BoardConclusion == BoardInv => BoardIsCurrent /\ ChosenStands /\ VisitorIsTold
<1> SUFFICES ASSUME BoardInv PROVE BoardIsCurrent /\ ChosenStands /\ VisitorIsTold
  OBVIOUS
<1>1. BoardIsCurrent
  <2> SUFFICES ASSUME reads.last # 0, upsets = 0
               PROVE  /\ desk # "keys" =>
                           \A p \in posted : \/ p \in board.posts \/ Board!Displaced(p, desk)
                                            \/ reads.last <= p.since
                      /\ \A p, q \in posted : p.text = q.text => p = q
                      /\ Board!AtRest /\ reads.last = reads.begun
                           => UpToDate({}, board.parts, board.posts)
    BY DEF BoardIsCurrent, Board!BoardIsCurrent, UpToDate
  <2>1. Board!AtRest => Aloft = {}
    BY DEF Board!AtRest, Board!InFlight, Aloft
  <2> QED BY <2>1 DEF BoardInv, BoardFollows, PostsAreNew, PostsFollow, Listing
<1>2. ChosenStands
  BY DEF BoardInv, ChoicesFollow, ChosenStands, Board!ChosenStands, Aloft
<1>3. VisitorIsTold
  BY DEF BoardInv, VisitorFollows, VisitorIsTold, Board!VisitorIsTold
<1> QED BY <1>1, <1>2, <1>3

-----------------------------------------------------------------------------
(***************************************************************************)
(* All pages.                                                              *)
(***************************************************************************)
ConsoleInv == Inv /\ ShowInv /\ RowsInv /\ CopyInv /\ EditInv /\ BoardInv

LEMMA ConsoleBegins == ConsoleInit => ConsoleInv
<1> SUFFICES ASSUME ConsoleInit PROVE ConsoleInv
  OBVIOUS
<1>1. Init /\ Rows!Init /\ Copy!Init /\ Edit!Init /\ Board!Init
  BY DEF ConsoleInit
<1> QED BY <1>1, AdminInit, ShowInit, RowsInit, CopyInit, EditInit, BoardInit DEF ConsoleInv

\* The page that is mounted steps, and the others stutter.
LEMMA ConsoleStep == ConsoleInv /\ [ConsoleNext]_consoleVars => ConsoleInv'
<1> SUFFICES ASSUME ConsoleInv, [ConsoleNext]_consoleVars PROVE ConsoleInv'
  OBVIOUS
<1>1. /\ [Next]_vars
      /\ [Rows!Next]_projectVars
      /\ [Copy!Next]_copyVars
      /\ [Edit!Next]_editVars
      /\ [Board!Next]_boardVars
  BY DEF ConsoleNext, consoleVars
<1> QED BY <1>1, AdminStep, ShowStep, RowsStep, CopyStep, EditStep, BoardStep DEF ConsoleInv

(* Every reachable state of every page, with the tables and functions it   *)
(* uses, satisfies its invariant (App.tsx of either dashboard).            *)
THEOREM ConsoleInvariant == ConsoleSpec => []ConsoleInv
<1> QED BY ConsoleBegins, ConsoleStep, PTL DEF ConsoleSpec

(* Whoever suspended an administrator became one earlier                   *)
(* (admin-suspend-user:51-66, admin-list-developers:73-74).                *)
THEOREM EldersSuspend == ConsoleSpec => []SuspendedByElder
<1>1. ConsoleInv => SuspendedByElder
  BY DEF ConsoleInv, Inv
<1> QED BY <1>1, ConsoleInvariant, PTL

(* So the first administrator is never suspended: somebody can always      *)
(* reinstate the others.                                                   *)
THEOREM FirstAdminStays == ConsoleSpec => [](FirstAdmin \notin banned)
<1>1. ConsoleInv => FirstAdmin \notin banned
  <2> SUFFICES ASSUME Inv, FirstAdmin \in banned PROVE FALSE
    BY DEF ConsoleInv
  <2>1. PICK w \in Users : Outranks(w, FirstAdmin)
    BY DEF Inv, SuspendedByElder
  <2>2. rank[w] \in Nat /\ rank[FirstAdmin] = 1
    BY DEF Inv, TypeOK, Ranked
  <2> QED BY <2>1, <2>2 DEF Outranks
<1> QED BY <1>1, ConsoleInvariant, PTL

(* The last row of audit_logs about an account says what it is, unless a   *)
(* row failed or changes overlapped (admin-suspend-user:68-76).            *)
THEOREM TrailIsTrue == ConsoleSpec => []TrailAgrees
<1>1. ConsoleInv => TrailAgrees
  BY DEF ConsoleInv, Inv, Trail
<1> QED BY <1>1, ConsoleInvariant, PTL

(* An administrator sees its own changes of an account once its page has   *)
(* come to rest, although the list is read page by page                    *)
(* (AdminDevelopersPage:54-72, admin-list-developers:80-100).              *)
THEOREM OwnChangesAreListed == ConsoleSpec => []OwnChangesShow
<1>1. ConsoleInv => OwnChangesShow
  BY ShowConclusion DEF ConsoleInv
<1> QED BY <1>1, ConsoleInvariant, PTL

(* At rest a page lists the rows of the project that is selected, as they  *)
(* are (ApiKeysPage:36-39, WebhooksPage:38-41).                            *)
THEOREM ListsAreOfSelected == ConsoleSpec => []ListIsOfSelected
<1>1. ConsoleInv => ListIsOfSelected
  BY RowsConclusion DEF ConsoleInv
<1> QED BY <1>1, ConsoleInvariant, PTL

(* The secret a page reveals is the one its row has now                    *)
(* (ApiKeysPage:62-84, WebhooksPage:60-67).                                *)
THEOREM RevealedSecretsAreCurrent == ConsoleSpec => []RevealedSecretIsCurrent
<1>1. ConsoleInv => RevealedSecretIsCurrent
  BY RowsConclusion DEF ConsoleInv
<1> QED BY <1>1, ConsoleInvariant, PTL

(* A change shown before it was saved is in the table, or was put back     *)
(* (NotificationSettingsPage:42-52, NotificationsPage:39-50).              *)
THEOREM CopiesAreSaved == ConsoleSpec => []CopyIsSaved
<1>1. ConsoleInv => CopyIsSaved
  BY CopyConclusion DEF ConsoleInv
<1> QED BY <1>1, ConsoleInvariant, PTL

(* A tab shows the fields it was last to write as they are stored          *)
(* (ProjectDetailPage:28-33, ProjectSettingsPage:30-43).                   *)
THEOREM OwnEditsAreShown == ConsoleSpec => []OwnEditsShow
<1>1. ConsoleInv => OwnEditsShow
  BY EditConclusion DEF ConsoleInv
<1> QED BY <1>1, ConsoleInvariant, PTL

(* Whoever reads a project again at each project.updated event comes to    *)
(* know it as it is, in whatever order the events arrive                   *)
(* (projects-update:70-79).                                                *)
THEOREM SubscribersCatchUp == ConsoleSpec => []SubscriberCatchesUp
<1>1. ConsoleInv => SubscriberCatchesUp
  BY EditConclusion DEF ConsoleInv
<1> QED BY <1>1, ConsoleInvariant, PTL

(* While no call failed, whatever was posted is once in the table, and in  *)
(* the list a super admin is shown unless the refresh that arrived last    *)
(* had begun before it or as many newer entries displaced it; at rest      *)
(* after the newest refresh the lists are the newest rows of their tables  *)
(* (AdminStatusPage:38-79, AdminChangelogPage:25-55,                       *)
(* AdminAnnouncementsPage:30-112, AdminApiKeysPage:18-36).                 *)
THEOREM BoardsAreCurrent == ConsoleSpec => []BoardIsCurrent
<1>1. ConsoleInv => BoardIsCurrent
  BY BoardConclusion DEF ConsoleInv
<1> QED BY <1>1, ConsoleInvariant, PTL

(* A component or key is what was chosen last, unless its update failed or *)
(* its select was enabled before its change was done (AdminStatusPage:54,  *)
(* AdminApiKeysPage:32-36).                                                *)
THEOREM ChoicesStand == ConsoleSpec => []ChosenStands
<1>1. ConsoleInv => ChosenStands
  BY BoardConclusion DEF ConsoleInv
<1> QED BY <1>1, ConsoleInvariant, PTL

(* A visitor whose reads all succeeded is told of every incident logged    *)
(* before it came, unless as many newer ones displaced it as the page      *)
(* shows, and that all is well only if it was at some moment since         *)
(* (StatusPage:33-45, ChangelogPage).                                      *)
THEOREM VisitorsAreTold == ConsoleSpec => []VisitorIsTold
<1>1. ConsoleInv => VisitorIsTold
  BY BoardConclusion DEF ConsoleInv
<1> QED BY <1>1, ConsoleInvariant, PTL

=============================================================================
