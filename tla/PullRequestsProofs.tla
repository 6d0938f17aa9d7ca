------------------------- MODULE PullRequestsProofs --------------------------
(***************************************************************************)
(* Proofs about PullRequests, for any number of workers, reviewers,        *)
(* commits, checks and pull requests.                                      *)
(***************************************************************************)
EXTENDS PullRequests, TLAPS

(* A step that changes one session alone keeps the invariant when the new  *)
(* session is typed and knows what it should.                              *)
LEMMA OneSession ==
  ASSUME PullInv, NEW r \in Reviewers, NEW s \in Sessions, SessionKnown(s),
         session' = [session EXCEPT ![r] = s], UNCHANGED <<githubVars, call>>
  PROVE  PullInv'
<1> USE DEF PullInv
<1>1. UNCHANGED <<head, pulls, buckets, green, call>>
  BY DEF githubVars
<1>2. PullTypeOK'
  BY <1>1 DEF PullTypeOK
<1>3. (QuietPeople => OnePullRequest /\ CreationsKnown)' /\ GreenKnown' /\ HeadsKnown'
  BY <1>1 DEF OnePullRequest, CreationsKnown, GreenKnown, HeadsKnown, Existing, Open
<1>4. \A q \in Reviewers : SessionKnown(session[q])'
  <2> TAKE q \in Reviewers
  <2>1. session'[q] = IF q = r THEN s ELSE session[q]
    BY DEF PullTypeOK
  <2>2. SessionKnown(session'[q])
    BY <2>1
  <2> QED
    BY <1>1, <2>2 DEF SessionKnown, ChecksRead, ReviewKnown, HeadKnown, InfraFailed, Existing
<1> QED
  BY <1>2, <1>3, <1>4

(* A step that changes one call alone keeps it when no creation begins, or *)
(* one begins that has seen no pull request.                               *)
LEMMA OneCall ==
  ASSUME PullInv, NEW w \in Workers, NEW c \in CallStates,
         call' = [call EXCEPT ![w] = c], UNCHANGED <<githubVars, session>>,
         c = "create" => Existing = {}
  PROVE  PullInv'
<1> USE DEF PullInv
<1>1. UNCHANGED <<head, pulls, buckets, green, session>>
  BY DEF githubVars
<1>2. PullTypeOK'
  BY <1>1 DEF PullTypeOK
<1>3. QuietPeople => CreationsKnown'
  BY <1>1 DEF CreationsKnown, PullTypeOK, Existing, Open
<1>4. (QuietPeople => OnePullRequest') /\ GreenKnown' /\ HeadsKnown'
  BY <1>1 DEF OnePullRequest, GreenKnown, HeadsKnown, Existing, Open
<1>5. \A q \in Reviewers : SessionKnown(session[q])'
  BY <1>1 DEF SessionKnown, ChecksRead, ReviewKnown, HeadKnown, InfraFailed, Existing
<1> QED
  BY <1>2, <1>3, <1>4, <1>5
-----------------------------------------------------------------------------
(* GitHub and the people.                                                  *)

LEMMA InitKnown == PullInit => PullInv
<1> SUFFICES ASSUME PullInit PROVE PullInv
  OBVIOUS
<1> USE DEF PullInit
<1>1. NoReview \in Sessions
  BY AccountAssumption DEF NoReview, Sessions, SessionStates, Numbers, NoPull, Parts
<1>2. PullTypeOK
  <2>1. buckets \in [Commits -> [Checks -> Buckets]]
    OBVIOUS
  <2>2. pulls \in [Numbers -> [state : PullStates, commit : Commits \cup {NoCommit}]]
    BY DEF PullStates
  <2> QED
    BY <1>1, <2>1, <2>2, CommitAssumption DEF PullTypeOK, CallStates
<1>3. Existing = {} /\ Open = {}
  BY DEF Existing, Open
<1>4. GreenKnown
  <2> SUFFICES ASSUME NEW c \in Commits, \A k \in Checks : buckets[c][k] = "pass"
               PROVE  FALSE
    BY DEF GreenKnown
  <2>1. PICK b \in Buckets \ {"pass"} : buckets = [d \in Commits |-> [k \in Checks |-> b]]
    OBVIOUS
  <2> QED
    BY <2>1, CheckAssumption
<1>5. SessionKnown(NoReview)
  BY DEF SessionKnown, ChecksRead, ReviewKnown, HeadKnown, InfraFailed, NoReview, Judged,
         NoPull, Parts
<1> QED
  BY <1>2, <1>3, <1>4, <1>5
  DEF PullInv, OnePullRequest, CreationsKnown, HeadsKnown

LEMMA PushKnown ==
  ASSUME PullInv, NEW c \in Commits, Push(c)
  PROVE  PullInv'
<1> USE DEF PullInv
<1>1. UNCHANGED <<buckets, green, call>> /\ head' = c
  BY DEF Push
<1>2. \A n \in Numbers :
        pulls'[n] = IF n \in Open THEN [pulls[n] EXCEPT !.commit = c] ELSE pulls[n]
  BY DEF Push
<1>3. \A n \in Numbers : pulls'[n].state = pulls[n].state
  BY <1>2 DEF PullTypeOK, Open
<1>4. Existing' = Existing /\ Open' = Open
  BY <1>3 DEF Existing, Open
<1>5. \A r \in Reviewers :
        session'[r] = [session[r] EXCEPT
          !.moved = @ \/ (session[r].number # NoPull /\ session[r].pc # "posted" /\ c # head)]
  BY DEF Push
<1>6. PullTypeOK'
  <2>1. session' \in [Reviewers -> Sessions]
    <3>1. ASSUME NEW r \in Reviewers
          PROVE  session'[r] \in Sessions
      <4>1. \A b \in BOOLEAN : [session[r] EXCEPT !.moved = b] \in Sessions
        BY DEF PullTypeOK, Sessions
      <4>2. (session[r].moved \/ (session[r].number # NoPull /\ session[r].pc # "posted"
                                  /\ c # head)) \in BOOLEAN
        OBVIOUS
      <4> QED
        BY <1>5, <4>1, <4>2, Zenon
    <3> QED
      BY <3>1 DEF Push
  <2>2. pulls' \in [Numbers -> [state : PullStates, commit : Commits \cup {NoCommit}]]
    BY DEF Push, PullTypeOK
  <2> QED
    BY <1>1, <2>1, <2>2 DEF PullTypeOK
<1>7. (QuietPeople => OnePullRequest /\ CreationsKnown)' /\ GreenKnown'
  BY <1>1, <1>4 DEF OnePullRequest, CreationsKnown, GreenKnown
<1>8. HeadsKnown'
  BY <1>1, <1>2, <1>4 DEF HeadsKnown, PullTypeOK, Open, Existing
<1>9. \A r \in Reviewers : SessionKnown(session[r])'
  <2> TAKE r \in Reviewers
  <2> PICK s : s = session[r]
    OBVIOUS
  <2> PICK t : t = session'[r]
    OBVIOUS
  <2>1. s \in Sessions
    BY DEF PullTypeOK
  <2>2. /\ t.pc = s.pc /\ t.source = s.source /\ t.number = s.number /\ t.read = s.read
        /\ t.checks = s.checks /\ t.reviewer = s.reviewer /\ t.formed = s.formed
        /\ t.decision = s.decision /\ t.lands = s.lands
        /\ t.moved = (s.moved \/ (s.number # NoPull /\ s.pc # "posted" /\ c # head))
    BY <1>5, <2>1 DEF Sessions
  <2>3. SessionKnown(s)
    OBVIOUS
  <2>4. ChecksRead(t)' /\ ReviewKnown(t)'
    BY <1>1, <2>2, <2>3 DEF SessionKnown, ChecksRead, ReviewKnown, InfraFailed
  <2>5. HeadKnown(t)'
    <3>1. /\ t.source = "github" /\ t.number # NoPull => t.number \in Existing'
          /\ t.number = NoPull => \A part \in Parts : t.read[part] = NoCommit
      BY <1>4, <2>2, <2>3 DEF SessionKnown, HeadKnown
    <3>2. t.pc \in Judged => t.number # NoPull /\ \A part \in Parts : t.read[part] # NoCommit
      BY <2>2, <2>3 DEF SessionKnown, HeadKnown
    <3>3. ASSUME t.source = "github", ~t.moved, NEW part \in Parts, t.read[part] # NoCommit
          PROVE  t.read[part] = IF t.pc = "posted" THEN t.lands ELSE pulls'[t.number].commit
      <4>1. s.read[part] = IF s.pc = "posted" THEN s.lands ELSE pulls[s.number].commit
        BY <2>2, <2>3, <3>3 DEF SessionKnown, HeadKnown
      <4>2. CASE s.pc = "posted"
        BY <2>2, <4>1, <4>2
      <4>3. CASE s.pc # "posted" /\ s.number = NoPull
        BY <2>2, <2>3, <3>3, <4>3 DEF SessionKnown, HeadKnown
      <4>4. CASE s.pc # "posted" /\ s.number # NoPull
        <5>1. c = head /\ s.number \in Numbers /\ s.number \in Existing
          BY <2>1, <2>2, <2>3, <3>3, <4>4 DEF Sessions, SessionKnown, HeadKnown
        <5>2. pulls'[s.number].commit = pulls[s.number].commit
          BY <1>2, <5>1 DEF HeadsKnown, PullTypeOK, Open
        <5> QED
          BY <2>2, <4>1, <4>4, <5>2
      <4> QED
        BY <4>2, <4>3, <4>4
    <3> QED
      BY <3>1, <3>2, <3>3 DEF HeadKnown
  <2> QED
    BY <2>4, <2>5 DEF SessionKnown
<1> QED
  BY <1>6, <1>7, <1>8, <1>9

LEMMA ReportKnown ==
  ASSUME PullInv, NEW c \in Commits, NEW k \in Checks, NEW b \in Buckets, Report(c, k, b)
  PROVE  PullInv'
<1> USE DEF PullInv
<1>1. UNCHANGED <<head, pulls, call, session>>
  BY DEF Report
<1>2. buckets' = [buckets EXCEPT ![c][k] = b]
  BY DEF Report
<1>3. green' = green \cup {d \in {c} : \A j \in Checks : buckets'[d][j] = "pass"}
  BY DEF Report
<1>4. PullTypeOK'
  BY <1>1, <1>2, <1>3 DEF PullTypeOK
<1>5. (QuietPeople => OnePullRequest /\ CreationsKnown)' /\ HeadsKnown'
  BY <1>1 DEF OnePullRequest, CreationsKnown, HeadsKnown, Existing, Open
<1>6. GreenKnown'
  <2> SUFFICES ASSUME NEW d \in Commits, \A j \in Checks : buckets'[d][j] = "pass"
               PROVE  d \in green'
    BY DEF GreenKnown
  <2>1. CASE d = c
    BY <1>3, <2>1
  <2>2. CASE d # c
    BY <1>2, <1>3, <2>2 DEF GreenKnown, PullTypeOK
  <2> QED
    BY <2>1, <2>2
<1>7. \A r \in Reviewers : SessionKnown(session[r])'
  BY <1>1, <1>3 DEF SessionKnown, ChecksRead, ReviewKnown, HeadKnown, InfraFailed, Existing
<1> QED
  BY <1>4, <1>5, <1>6, <1>7

LEMMA CloseKnown ==
  ASSUME PullInv, NEW n \in Numbers, NEW state \in {"CLOSED", "MERGED"},
         Close(n, state)
  PROVE  PullInv'
<1> USE DEF PullInv
<1>1. UNCHANGED <<head, buckets, green, call, session>>
  BY DEF Close
<1>2. n \in Open /\ pulls' = [pulls EXCEPT ![n].state = state]
  BY DEF Close
<1>3. PullTypeOK'
  BY <1>1, <1>2 DEF PullTypeOK, PullStates
<1>4. \A m \in Numbers : /\ pulls'[m].commit = pulls[m].commit
                          /\ pulls'[m].state = IF m = n THEN state ELSE pulls[m].state
  BY <1>2 DEF PullTypeOK
<1>5. Existing' = Existing /\ Open' \subseteq Open
  BY <1>2, <1>4 DEF Existing, Open
<1>6. (QuietPeople => OnePullRequest') /\ GreenKnown' /\ HeadsKnown'
  BY <1>1, <1>4, <1>5 DEF OnePullRequest, GreenKnown, HeadsKnown, Open, Existing
<1>7. QuietPeople => CreationsKnown'
  BY <1>1 DEF CreationsKnown, Close
<1>8. ASSUME NEW r \in Reviewers
      PROVE  SessionKnown(session[r])'
  <2> PICK s : s = session[r]
    OBVIOUS
  <2>1. s \in Sessions /\ SessionKnown(s)
    BY DEF PullTypeOK
  <2>2. ChecksRead(s)' /\ ReviewKnown(s)'
    BY <1>1, <2>1 DEF SessionKnown, ChecksRead, ReviewKnown, InfraFailed
  <2>3. s.number # NoPull => pulls'[s.number].commit = pulls[s.number].commit
    BY <1>4, <2>1 DEF Sessions
  <2>4. HeadKnown(s)'
    BY <1>5, <2>1, <2>3 DEF SessionKnown, HeadKnown
  <2> QED
    BY <1>1, <2>2, <2>4 DEF SessionKnown
<1> QED
  BY <1>3, <1>6, <1>7, <1>8
-----------------------------------------------------------------------------
(* The workers.                                                            *)

LEMMA CreateKnown ==
  ASSUME PullInv, NEW w \in Workers, Create(w)
  PROVE  PullInv'
<1> USE DEF PullInv
<1>1. CASE Open # {} /\ UNCHANGED pulls /\ call' = [call EXCEPT ![w] = "raised"]
  BY <1>1, OneCall DEF Create, CallStates, githubVars
<1>2. ASSUME NEW n \in Numbers \ Existing, Open = {},
             pulls' = [pulls EXCEPT ![n] = [state |-> "OPEN", commit |-> head]],
             call' = [call EXCEPT ![w] = "view"]
      PROVE  PullInv'
  <2>1. UNCHANGED <<head, buckets, green, session>> /\ call[w] = "create"
    BY DEF Create
  <2>2. QuietPeople => Existing = {}
    BY <1>2, <2>1 DEF CreationsKnown
  <2>3. PullTypeOK'
    BY <1>2, <2>1 DEF PullTypeOK, PullStates, CallStates
  <2>4. \A m \in Numbers :
          pulls'[m] = IF m = n THEN [state |-> "OPEN", commit |-> head] ELSE pulls[m]
    BY <1>2 DEF PullTypeOK
  <2>5. Existing' = Existing \cup {n} /\ Open' = {n}
    BY <1>2, <2>4 DEF Existing, Open
  <2>6. QuietPeople => OnePullRequest' /\ CreationsKnown'
    BY <2>2, <2>5 DEF OnePullRequest, CreationsKnown
  <2>7. GreenKnown' /\ HeadsKnown'
    BY <2>1, <2>4, <2>5 DEF GreenKnown, HeadsKnown, PullTypeOK, Existing
  <2>8. ASSUME NEW r \in Reviewers
        PROVE  SessionKnown(session[r])'
    <3> PICK s : s = session[r]
      OBVIOUS
    <3>1. s \in Sessions /\ SessionKnown(s)
      BY DEF PullTypeOK
    <3>2. ChecksRead(s)' /\ ReviewKnown(s)'
      BY <2>1, <3>1 DEF SessionKnown, ChecksRead, ReviewKnown, InfraFailed
    <3>3. s.source = "github" /\ s.number # NoPull =>
            s.number \in Existing /\ pulls'[s.number] = pulls[s.number]
      BY <1>2, <2>4, <3>1 DEF SessionKnown, HeadKnown, Existing
    <3>4. HeadKnown(s)'
      BY <2>5, <3>1, <3>3 DEF SessionKnown, HeadKnown
    <3> QED
      BY <2>1, <3>2, <3>4 DEF SessionKnown
  <2> QED
    BY <2>3, <2>6, <2>7, <2>8
<1> QED
  BY <1>1, <1>2 DEF Create

LEMMA EnsureKnown ==
  ASSUME PullInv, NEW w \in Workers, Ensure(w)
  PROVE  PullInv'
<1>1. CASE List(w)
  BY <1>1, OneCall DEF List, CallStates
<1>2. CASE Edit(w)
  BY <1>2, OneCall DEF Edit, CallStates
<1>3. CASE View(w)
  BY <1>3, OneCall DEF View, CallStates
<1>4. CASE Raise(w)
  BY <1>4, OneCall DEF Raise, CallStates
<1>5. CASE CallAgain(w)
  BY <1>5, OneCall DEF CallAgain, CallStates
<1> QED
  BY <1>1, <1>2, <1>3, <1>4, <1>5, CreateKnown DEF Ensure
-----------------------------------------------------------------------------
(* The review sessions.                                                    *)

(* A session that is over keeps nothing of its evidence.                   *)
LEMMA OverKnown ==
  ASSUME NEW pc \in SessionStates \ Judged, pc # "REVIEW_EXECUTION_FAILED"
  PROVE  LET s == [NoReview EXCEPT !.pc = pc]
         IN  s \in Sessions /\ SessionKnown(s)
BY AccountAssumption
DEF NoReview, Sessions, Numbers, NoPull, Parts, SessionKnown, ChecksRead, ReviewKnown,
    HeadKnown, Judged

LEMMA FailedKnown ==
  LET s == [NoReview EXCEPT !.pc = "REVIEW_EXECUTION_FAILED", !.formed = FALSE]
  IN  s \in Sessions /\ SessionKnown(s)
BY AccountAssumption
DEF NoReview, Sessions, SessionStates, Numbers, NoPull, Parts, SessionKnown, ChecksRead,
    ReviewKnown, HeadKnown, Judged

(* Whatever is prepared of what a session has gathered.                    *)
LEMMA PreparedKnown ==
  ASSUME NEW s \in Sessions, SessionKnown(s), s.pc = "gather",
         NEW matches \in BOOLEAN, NEW reviewer \in Accounts
  PROVE  LET t == Prepared(s, matches, reviewer)
         IN  t \in Sessions /\ SessionKnown(t)
<1> PICK t : t = Prepared(s, matches, reviewer)
  OBVIOUS
<1>1. CASE ~ContextValid(s, matches, reviewer)
  <2>1. t = [NoReview EXCEPT !.pc = "REVIEW_CONTEXT_INVALID"]
    BY <1>1 DEF Prepared
  <2> QED
    BY <2>1, OverKnown DEF SessionStates, Judged
<1>2. CASE ContextValid(s, matches, reviewer) /\ InfraFailed(s)
  <2>1. t = [NoReview EXCEPT !.pc = "REVIEW_INFRA_FAILURE"]
    BY <1>2 DEF Prepared
  <2> QED
    BY <2>1, OverKnown DEF SessionStates, Judged
<1>3. CASE ContextValid(s, matches, reviewer) /\ ~InfraFailed(s)
  <2>1. t = [s EXCEPT !.pc = "READY", !.reviewer = reviewer]
    BY <1>3 DEF Prepared
  <2>2. t \in Sessions
    BY <2>1 DEF Sessions, SessionStates
  <2>3. /\ t.pc = "READY" /\ t.reviewer = reviewer
        /\ t.source = s.source /\ t.number = s.number /\ t.read = s.read
        /\ t.checks = s.checks /\ t.decision = s.decision /\ t.moved = s.moved
    BY <2>1 DEF Sessions
  <2>4. ChecksRead(t)
    BY <2>3 DEF SessionKnown, ChecksRead
  <2>5. ReviewKnown(t)
    BY <1>3, <2>3 DEF SessionKnown, ReviewKnown, ContextValid, InfraFailed
  <2>6. HeadKnown(t)
    BY <1>3, <2>3 DEF SessionKnown, HeadKnown, ContextValid
  <2> QED
    BY <2>2, <2>4, <2>5, <2>6 DEF SessionKnown
<1> QED
  BY <1>1, <1>2, <1>3

LEMMA ReadKnown ==
  ASSUME PullInv, NEW r \in Reviewers, NEW n \in Numbers, NEW part \in Parts,
         Read(r, n, part)
  PROVE  PullInv'
<1> USE DEF PullInv
<1> PICK s : s = session[r]
  OBVIOUS
<1> PICK c : c = pulls[n].commit
  OBVIOUS
<1> PICK t : t = [s EXCEPT !.number = n, !.read[part] = c,
                           !.checks = IF part = "checks" THEN ReadChecks(c) ELSE @]
  OBVIOUS
<1>1. /\ session' = [session EXCEPT ![r] = t] /\ UNCHANGED <<githubVars, call>>
      /\ s.pc = "gather" /\ s.source = "github" /\ s.number \in {NoPull, n}
      /\ s.read[part] = NoCommit /\ n \in Existing
  BY DEF Read, PullTypeOK
<1>2. s \in Sessions /\ SessionKnown(s) /\ c \in Commits \cup {NoCommit}
  BY DEF PullTypeOK
<1> PICK f : f = [k \in Checks |-> IF buckets[c][k] = "pass" THEN "PASS" ELSE "FAIL"]
  OBVIOUS
<1>0. ReadChecks(c) = {[required |-> TRUE, conclusion |-> f[k]] : k \in Checks}
  BY DEF ReadChecks
<1>3. ReadChecks(c) \subseteq CheckResult
  <2>1. \A k \in Checks : f[k] \in {"PASS", "FAIL", "INFRA_FAILURE"}
    OBVIOUS
  <2>2. \A k \in Checks : [required |-> TRUE, conclusion |-> f[k]] \in CheckResult
    BY <2>1 DEF CheckResult
  <2> QED
    BY <1>0, <2>2, Zenon
<1>4. /\ t.pc = "gather" /\ t.source = "github" /\ t.number = n /\ t.moved = s.moved
      /\ t.read = [s.read EXCEPT ![part] = c] /\ t.decision = s.decision
      /\ t.checks = IF part = "checks" THEN ReadChecks(c) ELSE s.checks
  BY <1>1, <1>2 DEF Sessions
<1>5. t \in Sessions
  BY <1>2, <1>3 DEF Sessions
<1>6. ChecksRead(t)
  <2>1. CASE part # "checks"
    BY <1>1, <1>2, <1>4, <2>1 DEF SessionKnown, ChecksRead, Sessions
  <2>2. CASE part = "checks"
    <3>1. \A k \in t.checks : k.required
      BY <1>0, <1>4, <2>2
    <3>2. ASSUME \A k \in t.checks : k.conclusion = "PASS"
          PROVE  t.read["checks"] \in green
      <4>1. \A k \in Checks : buckets[c][k] = "pass"
        <5>1. ASSUME NEW k \in Checks
              PROVE  f[k] = "PASS"
          <6>1. [required |-> TRUE, conclusion |-> f[k]] \in t.checks
            <7>1. t.checks = ReadChecks(c)
              BY <1>4, <2>2
            <7>2. t.checks = {[required |-> TRUE, conclusion |-> f[j]] : j \in Checks}
              BY <1>0, <7>1, Zenon
            <7> QED
              BY <7>2, Zenon
          <6> QED
            BY <3>2, <6>1
        <5> QED
          BY <5>1
      <4>2. c \in Commits
        BY <1>1 DEF HeadsKnown
      <4> QED
        BY <1>2, <1>4, <2>2, <4>1, <4>2 DEF GreenKnown, Sessions
    <3> QED
      BY <3>1, <3>2 DEF ChecksRead
  <2> QED
    BY <2>1, <2>2
<1>7. ReviewKnown(t)
  BY <1>1, <1>2, <1>4 DEF SessionKnown, ReviewKnown, Judged
<1>8. HeadKnown(t)
  <2>1. ASSUME ~t.moved, NEW p \in Parts, t.read[p] # NoCommit
        PROVE  t.read[p] = pulls[n].commit
    <3>1. CASE p = part
      BY <1>2, <1>4, <3>1 DEF Sessions
    <3>2. CASE p # part
      <4>1. s.read[p] = t.read[p] /\ s.number = n
        BY <1>1, <1>2, <1>4, <2>1, <3>2 DEF Sessions, SessionKnown, HeadKnown
      <4>2. n # NoPull
        BY PullsAssumption DEF Numbers, NoPull
      <4> QED
        BY <1>1, <1>2, <1>4, <2>1, <4>1, <4>2 DEF SessionKnown, HeadKnown
    <3> QED
      BY <3>1, <3>2
  <2>2. n # NoPull
    BY PullsAssumption DEF Numbers, NoPull
  <2> QED
    BY <1>1, <1>4, <2>1, <2>2 DEF HeadKnown, Judged
<1> QED
  BY <1>1, <1>5, <1>6, <1>7, <1>8, OneSession DEF SessionKnown

LEMMA PrepareKnown ==
  ASSUME PullInv, NEW r \in Reviewers, NEW matches \in BOOLEAN, NEW reviewer \in Accounts,
         Prepare(r, matches, reviewer)
  PROVE  PullInv'
<1> PICK s : s = Prepared(session[r], matches, reviewer)
  OBVIOUS
<1>1. session[r] \in Sessions /\ SessionKnown(session[r])
  BY DEF PullInv, PullTypeOK
<1>2. session' = [session EXCEPT ![r] = s] /\ UNCHANGED <<githubVars, call>>
  BY DEF Prepare, PullInv, PullTypeOK
<1>3. s \in Sessions /\ SessionKnown(s)
  BY <1>1, PreparedKnown DEF Prepare
<1> QED
  BY <1>2, <1>3, OneSession

LEMMA PreparePackageKnown ==
  ASSUME PullInv, NEW r \in Reviewers, NEW n \in Numbers, NEW c \in Commits,
         NEW checks \in Packages, NEW matches \in BOOLEAN, NEW reviewer \in Accounts,
         PreparePackage(r, n, c, checks, matches, reviewer)
  PROVE  PullInv'
<1> PICK package :
      package = [NoReview EXCEPT !.source = "package", !.number = n, !.checks = checks,
                                 !.read = [part \in Parts |-> c]]
  OBVIOUS
<1> PICK s : s = Prepared(package, matches, reviewer)
  OBVIOUS
<1>1. package \in Sessions /\ SessionKnown(package) /\ package.pc = "gather"
  <2>1. checks \subseteq CheckResult
    BY CheckAssumption
  <2>2. n # NoPull
    BY PullsAssumption DEF Numbers, NoPull
  <2> QED
    BY <2>1, <2>2, AccountAssumption
    DEF NoReview, Sessions, SessionStates, Numbers, NoPull, Parts, SessionKnown, ChecksRead,
        ReviewKnown, HeadKnown, Judged
<1>2. session' = [session EXCEPT ![r] = s] /\ UNCHANGED <<githubVars, call>>
  BY DEF PreparePackage
<1>3. s \in Sessions /\ SessionKnown(s)
  BY <1>1, PreparedKnown
<1> QED
  BY <1>2, <1>3, OneSession

(* What review decides is what validate_for_posting accepts.               *)
LEMMA DecisionPostable ==
  ASSUME NEW s \in Sessions, ReviewKnown(s), s.pc = "READY", NEW unsatisfied \in BOOLEAN
  PROVE  Postable(s, Decision(s, unsatisfied), unsatisfied)
<1> SUFFICES ASSUME Decision(s, unsatisfied) = "APPROVE"
             PROVE  ~unsatisfied /\ \A k \in s.checks : k.required => k.conclusion = "PASS"
  BY DEF Postable
<1>1. ~unsatisfied /\ \A k \in s.checks : ~(k.required /\ k.conclusion = "FAIL")
  BY DEF Decision
<1>2. \A k \in s.checks : k.conclusion \in {"PASS", "FAIL"}
  BY DEF ReviewKnown, Judged, InfraFailed, Sessions, CheckResult
<1> QED
  BY <1>1, <1>2

LEMMA ReviewStepKnown ==
  ASSUME PullInv, NEW r \in Reviewers, NEW formed \in BOOLEAN, NEW unsatisfied \in BOOLEAN,
         Review(r, formed, unsatisfied)
  PROVE  PullInv'
<1> PICK s : s = session[r]
  OBVIOUS
<1>1. s \in Sessions /\ SessionKnown(s) /\ s.pc = "READY"
  BY DEF PullInv, PullTypeOK, Review
<1>2. Postable(s, Decision(s, unsatisfied), unsatisfied)
  BY <1>1, DecisionPostable DEF SessionKnown
<1>3. CASE formed
  <2> PICK t : t = [s EXCEPT !.pc = "REVIEW_COMPLETE", !.decision = Decision(s, unsatisfied)]
    OBVIOUS
  <2>1. session' = [session EXCEPT ![r] = t] /\ UNCHANGED <<githubVars, call>>
    BY <1>2, <1>3 DEF Review
  <2>2. Decision(s, unsatisfied) \in {"APPROVE", "REQUEST_CHANGES"}
    BY DEF Decision
  <2>3. /\ t.pc = "REVIEW_COMPLETE" /\ t.decision = Decision(s, unsatisfied)
        /\ t.source = s.source /\ t.number = s.number /\ t.read = s.read
        /\ t.checks = s.checks /\ t.reviewer = s.reviewer /\ t.moved = s.moved
    BY <1>1 DEF Sessions
  <2>4. t \in Sessions
    BY <1>1, <2>2 DEF Sessions, SessionStates
  <2>5. ChecksRead(t) /\ HeadKnown(t)
    BY <1>1, <2>3 DEF SessionKnown, ChecksRead, HeadKnown, Judged
  <2>6. ReviewKnown(t)
    BY <1>1, <1>2, <2>3 DEF SessionKnown, ReviewKnown, Judged, InfraFailed, Postable
  <2> QED
    BY <2>1, <2>4, <2>5, <2>6, OneSession DEF SessionKnown
<1>4. CASE ~formed
  <2>1. session' = [session EXCEPT ![r] =
                      [NoReview EXCEPT !.pc = "REVIEW_EXECUTION_FAILED", !.formed = FALSE]]
        /\ UNCHANGED <<githubVars, call>>
    BY <1>4 DEF Review
  <2> QED
    BY <2>1, FailedKnown, OneSession
<1> QED
  BY <1>3, <1>4

LEMMA ConfirmKnown ==
  ASSUME PullInv, NEW r \in Reviewers, NEW login \in Accounts, Confirm(r, login)
  PROVE  PullInv'
<1> PICK s : s = session[r]
  OBVIOUS
<1>1. s \in Sessions /\ SessionKnown(s) /\ s.pc = "REVIEW_COMPLETE"
  BY DEF PullInv, PullTypeOK, Confirm
<1>2. CASE login = s.reviewer
  <2> PICK t : t = [s EXCEPT !.pc = "confirmed"]
    OBVIOUS
  <2>1. session' = [session EXCEPT ![r] = t] /\ UNCHANGED <<githubVars, call>>
    BY <1>2 DEF Confirm
  <2>2. /\ t.pc = "confirmed" /\ t.decision = s.decision
        /\ t.source = s.source /\ t.number = s.number /\ t.read = s.read
        /\ t.checks = s.checks /\ t.reviewer = s.reviewer /\ t.moved = s.moved
    BY <1>1 DEF Sessions
  <2>3. t \in Sessions
    BY <1>1 DEF Sessions, SessionStates
  <2>4. SessionKnown(t)
    BY <1>1, <2>2
    DEF SessionKnown, ChecksRead, ReviewKnown, HeadKnown, Judged, InfraFailed
  <2> QED
    BY <2>1, <2>3, <2>4, OneSession
<1>3. CASE login # s.reviewer
  <2>1. session' = [session EXCEPT ![r] = [NoReview EXCEPT !.pc = "refused"]]
        /\ UNCHANGED <<githubVars, call>>
    BY <1>3 DEF Confirm
  <2> QED
    BY <2>1, OverKnown, OneSession DEF SessionStates, Judged
<1> QED
  BY <1>2, <1>3

LEMMA PostKnown ==
  ASSUME PullInv, NEW r \in Reviewers, Post(r)
  PROVE  PullInv'
<1> PICK s : s = session[r]
  OBVIOUS
<1> PICK t : t = [s EXCEPT !.pc = "posted", !.lands = pulls[s.number].commit]
  OBVIOUS
<1>1. s \in Sessions /\ SessionKnown(s) /\ s.pc = "confirmed" /\ s.number \in Existing
  BY DEF PullInv, PullTypeOK, Post
<1>2. session' = [session EXCEPT ![r] = t] /\ UNCHANGED <<githubVars, call>>
  BY DEF Post
<1>3. /\ t.pc = "posted" /\ t.decision = s.decision /\ t.lands = pulls[s.number].commit
      /\ t.source = s.source /\ t.number = s.number /\ t.read = s.read
      /\ t.checks = s.checks /\ t.reviewer = s.reviewer /\ t.moved = s.moved
  BY <1>1 DEF Sessions
<1>4. t \in Sessions
  BY <1>1 DEF PullInv, PullTypeOK, Existing, Sessions, SessionStates
<1>5. SessionKnown(t)
  BY <1>1, <1>3
  DEF SessionKnown, ChecksRead, ReviewKnown, HeadKnown, Judged, InfraFailed
<1> QED
  BY <1>2, <1>4, <1>5, OneSession

LEMMA AbandonKnown ==
  ASSUME PullInv, NEW r \in Reviewers, Abandon(r)
  PROVE  PullInv'
BY OverKnown, OneSession DEF Abandon, SessionStates, Judged

LEMMA StutterKnown ==
  ASSUME PullInv, UNCHANGED pullVars
  PROVE  PullInv'
<1>1. UNCHANGED <<head, pulls, buckets, green, call, session>>
  BY DEF pullVars, githubVars
<1> QED
  BY <1>1
  DEF PullInv, PullTypeOK, OnePullRequest, CreationsKnown, GreenKnown, HeadsKnown, Existing,
      Open, SessionKnown, ChecksRead, ReviewKnown, HeadKnown, InfraFailed
-----------------------------------------------------------------------------
(* PullInv is an invariant of GitHub, the workers of src/worker/github.py  *)
(* and the reviewers of src/reviewer/, whoever pushes, closes and merges.  *)
THEOREM PullInvariant == PullSpec => []PullInv
<1>1. PullInit => PullInv
  BY InitKnown
<1>2. ASSUME PullInv, [PullNext]_pullVars
      PROVE  PullInv'
  <2>1. CASE GitHub
    BY <1>2, <2>1, PushKnown, ReportKnown, CloseKnown DEF GitHub
  <2>2. ASSUME NEW w \in Workers, Ensure(w)
        PROVE  PullInv'
    BY <1>2, <2>2, EnsureKnown
  <2>3. ASSUME NEW r \in Reviewers, Gather(r)
        PROVE  PullInv'
    BY <1>2, <2>3, ReadKnown, PrepareKnown, PreparePackageKnown DEF Gather
  <2>4. ASSUME NEW r \in Reviewers, Judge(r)
        PROVE  PullInv'
    BY <1>2, <2>4, ReviewStepKnown, ConfirmKnown, PostKnown, AbandonKnown DEF Judge
  <2>5. CASE UNCHANGED pullVars
    BY <1>2, <2>5, StutterKnown
  <2> QED
    BY <1>2, <2>1, <2>2, <2>3, <2>4, <2>5 DEF PullNext
<1> QED
  BY <1>1, <1>2, PTL DEF PullSpec

(* A ticket branch never has a second pull request (src/worker/github.py): *)
(* whatever calls fail, race or are repeated, when people do not close or  *)
(* merge in the moment before a creation.                                  *)
THEOREM OnePullRequestAlways ==
  ASSUME QuietPeople
  PROVE  PullSpec => []OnePullRequest
<1>1. PullInv => OnePullRequest
  BY DEF PullInv
<1> QED
  BY <1>1, PullInvariant, PTL

(* A posted approval rests on evidence that was true and is attached to    *)
(* what was read, unless the branch moved (src/reviewer/github.py).        *)
THEOREM ApprovalEvidence == PullSpec => []ApprovalHasEvidence
<1>1. ASSUME PullInv
      PROVE  ApprovalHasEvidence
  <2> SUFFICES ASSUME NEW r \in Reviewers, session[r].pc = "posted",
                      session[r].decision = "APPROVE"
               PROVE  /\ session[r].reviewer # Author
                      /\ session[r].source = "github" =>
                           /\ session[r].read["checks"] \in green
                           /\ ~session[r].moved =>
                                \A part \in Parts : session[r].read[part] = session[r].lands
    BY DEF ApprovalHasEvidence
  <2> PICK s : s = session[r]
    OBVIOUS
  <2>1. SessionKnown(s)
    BY <1>1 DEF PullInv
  <2>2. s.reviewer # Author /\ s.checks # {}
    BY <2>1 DEF SessionKnown, ReviewKnown, Judged
  <2>3. ASSUME s.source = "github"
        PROVE  s.read["checks"] \in green
    BY <2>1, <2>2, <2>3 DEF SessionKnown, ReviewKnown, ChecksRead
  <2>4. ASSUME s.source = "github", ~s.moved, NEW part \in Parts
        PROVE  s.read[part] = s.lands
    BY <2>1, <2>4 DEF SessionKnown, HeadKnown, Judged
  <2> QED
    BY <2>2, <2>3, <2>4
<1> QED
  BY <1>1, PullInvariant, PTL

(* prepare, review and validate_for_posting (src/reviewer/workflow.py)     *)
(* never disagree about a review in form.                                  *)
THEOREM DecisionsAlwaysAgree == PullSpec => []DecisionsAgree
<1>1. PullInv => DecisionsAgree
  BY DEF PullInv, SessionKnown, ReviewKnown, DecisionsAgree
<1> QED
  BY <1>1, PullInvariant, PTL
==============================================================================
