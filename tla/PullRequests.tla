---------------------------- MODULE PullRequests ----------------------------
(***************************************************************************)
(* The pull request of one ticket branch, from the workers that open it    *)
(* (src/worker/github.py) to the reviewers that judge it                   *)
(* (src/reviewer/github.py, workflow.py and cli.py).                       *)
(*                                                                         *)
(* Every call of `gh` is a step of its own: the branch may be pushed to,   *)
(* checks may finish and people may close or merge between two of them,    *)
(* and any call may fail.  A commit stands for its content; the state of   *)
(* GitHub is what `gh` shows of it.                                        *)
(***************************************************************************)
EXTENDS Naturals, FiniteSets

CONSTANTS
  Workers,       \* calls of ensure_pull_request for the branch
  Reviewers,     \* review sessions
  Commits,       \* commits the branch may be at
  FirstCommit,   \* the one it is at first
  NoCommit,
  Checks,        \* required checks of a commit
  Buckets,       \* what `gh pr checks` says of a check
  Packages,      \* the checks of a package
  Accounts,      \* GitHub accounts
  Author,        \* the account of the implementation worker
  MaxPulls,      \* bound: pull requests of the branch
  QuietPeople    \* nobody closes or merges while a call is about to create

ASSUME CommitAssumption == FirstCommit \in Commits /\ NoCommit \notin Commits
(* A check as the reviewer sees it.                                        *)
CheckResult == [required : BOOLEAN, conclusion : {"PASS", "FAIL", "INFRA_FAILURE"}]

ASSUME CheckAssumption ==
  /\ Checks # {} /\ "pass" \in Buckets
  /\ Packages \subseteq SUBSET CheckResult
ASSUME AccountAssumption == Author \in Accounts
ASSUME PullsAssumption == MaxPulls \in Nat \ {0} /\ QuietPeople \in BOOLEAN

VARIABLES
  head,      \* commit of the branch
  pulls,     \* pull requests of the branch: state and head commit
  buckets,   \* bucket of each check of each commit
  green,     \* history: commits whose checks have all passed at some time
  call,      \* what each call of ensure_pull_request does next
  session    \* the review sessions

githubVars == <<head, pulls, buckets, green>>
pullVars == <<githubVars, call, session>>

Numbers == 1..MaxPulls
NoPull == 0
Parts == {"pull", "diff", "checks"}

Existing == {n \in Numbers : pulls[n].state # "NONE"}
Open == {n \in Numbers : pulls[n].state = "OPEN"}
----------------------------------------------------------------------------
(* GitHub, the people and the continuous integration.                      *)

Push(c) ==
  /\ head' = c
  /\ pulls' = [n \in Numbers |->
                 IF n \in Open THEN [pulls[n] EXCEPT !.commit = c] ELSE pulls[n]]
  /\ session' = [r \in Reviewers |-> [session[r] EXCEPT
                   !.moved = @ \/ (session[r].number # NoPull /\ session[r].pc # "posted"
                                      /\ c # head)]]
  /\ UNCHANGED <<buckets, green, call>>

Report(c, k, b) ==
  /\ buckets' = [buckets EXCEPT ![c][k] = b]
  /\ green' = green \cup {d \in {c} : \A j \in Checks : buckets'[d][j] = "pass"}
  /\ UNCHANGED <<head, pulls, call, session>>

Close(n, state) ==
  /\ n \in Open
  /\ QuietPeople => \A w \in Workers : call[w] # "create"
  /\ pulls' = [pulls EXCEPT ![n].state = state]
  /\ UNCHANGED <<head, buckets, green, call, session>>
----------------------------------------------------------------------------
(* GitHubCli.ensure_pull_request of src/worker/github.py.                  *)

(* Mutant: the list holds open pull requests only.                         *)
ListOpenOnly(w) ==
  /\ call[w] = "list"
  /\ call' = [call EXCEPT ![w] = IF Open = {} THEN "create" ELSE "edit"]
  /\ UNCHANGED <<githubVars, session>>

List(w) ==
  /\ call[w] = "list"
  /\ \/ Existing = {} /\ call' = [call EXCEPT ![w] = "create"]
     \/ Cardinality(Existing) = 1 /\ Existing = Open /\ call' = [call EXCEPT ![w] = "edit"]
     \/ Existing # {} /\ Existing # Open /\ call' = [call EXCEPT ![w] = "refused"]
     \/ Cardinality(Existing) > 1 /\ call' = [call EXCEPT ![w] = "refused"]
  /\ UNCHANGED <<githubVars, session>>

Edit(w) ==
  /\ call[w] = "edit"
  /\ call' = [call EXCEPT ![w] = "done"]
  /\ UNCHANGED <<githubVars, session>>

(* GitHub has at most one open pull request per branch and base.           *)
Create(w) ==
  /\ call[w] = "create"
  /\ \/ \E n \in Numbers \ Existing :
          /\ Open = {}
          /\ \A m \in 1..(n - 1) : m \in Existing
          /\ pulls' = [pulls EXCEPT ![n] = [state |-> "OPEN", commit |-> head]]
          /\ call' = [call EXCEPT ![w] = "view"]
     \/ /\ Open # {}
        /\ call' = [call EXCEPT ![w] = "raised"]
        /\ UNCHANGED pulls
  /\ UNCHANGED <<head, buckets, green, session>>

View(w) ==
  /\ call[w] = "view"
  /\ call' = [call EXCEPT ![w] = "done"]
  /\ UNCHANGED <<githubVars, session>>

(* Any call of gh may fail; a creation whose answer is lost is one that    *)
(* fails in "view".                                                        *)
Raise(w) ==
  /\ call[w] \in {"list", "edit", "create", "view"}
  /\ call' = [call EXCEPT ![w] = "raised"]
  /\ UNCHANGED <<githubVars, session>>

(* The worker of a later attempt calls again.                              *)
CallAgain(w) ==
  /\ call[w] \in {"raised", "done", "refused"}
  /\ call' = [call EXCEPT ![w] = "list"]
  /\ UNCHANGED <<githubVars, session>>
----------------------------------------------------------------------------
(* Review sessions.  A session gathers evidence, from GitHub or from a     *)
(* package, prepares a context, evaluates findings and posts the review.   *)
(* moved is history: the branch moved between its first call and the       *)
(* posting of its review.                                                  *)

NoReview ==
  [pc |-> "gather", source |-> "github", number |-> NoPull,
   read |-> [part \in Parts |-> NoCommit], checks |-> {},
   reviewer |-> Author, formed |-> TRUE, decision |-> "NONE", lands |-> NoCommit,
   moved |-> FALSE]

(* The result of `gh pr checks`, every check counted as required.          *)
ReadChecks(c) ==
  {[required |-> TRUE, conclusion |-> IF buckets[c][k] = "pass" THEN "PASS" ELSE "FAIL"] :
     k \in Checks}

(* pull_request, pull_request_diff and checks of src/reviewer/github.py:   *)
(* three calls, each answered for the head of its moment.                  *)
Read(r, n, part) ==
  LET c == pulls[n].commit IN
  /\ session[r].pc = "gather" /\ session[r].source = "github"
  /\ session[r].number \in {NoPull, n}
  /\ session[r].read[part] = NoCommit
  /\ n \in Existing
  /\ session' = [session EXCEPT
       ![r].number = n,
       ![r].read[part] = c,
       ![r].checks = IF part = "checks" THEN ReadChecks(c) ELSE @]
  /\ UNCHANGED <<githubVars, call>>

(* The evidence is complete and consistent: parts read, two identities,    *)
(* and an attempt that matches: review-ready, valid, of the ticket's       *)
(* branch, naming the head commit and the number of the pull request.      *)
(* The attempt is part of the input, so that it may match or not.          *)
ContextValid(s, matches, reviewer) ==
  /\ s.number # NoPull
  /\ NoCommit \notin {s.read[part] : part \in Parts}
  /\ s.checks # {}
  /\ matches
  /\ reviewer # Author

InfraFailed(s) == \E k \in s.checks : k.conclusion = "INFRA_FAILURE"

(* What prepare returns: the state of a session that is over keeps nothing *)
(* of its evidence.                                                        *)

(* Mutant: a check that could not run is left to the review.               *)
PreparedAnyway(s, matches, reviewer) ==
  IF ContextValid(s, matches, reviewer)
  THEN [s EXCEPT !.pc = "READY", !.reviewer = reviewer]
  ELSE [NoReview EXCEPT !.pc = "REVIEW_CONTEXT_INVALID"]

Prepared(s, matches, reviewer) ==
  CASE ~ContextValid(s, matches, reviewer) -> [NoReview EXCEPT !.pc = "REVIEW_CONTEXT_INVALID"]
    [] ContextValid(s, matches, reviewer) /\ InfraFailed(s) ->
         [NoReview EXCEPT !.pc = "REVIEW_INFRA_FAILURE"]
    [] OTHER -> [s EXCEPT !.pc = "READY", !.reviewer = reviewer]

(* ReviewerWorkflow.prepare of evidence read from GitHub.                  *)
Prepare(r, matches, reviewer) ==
  /\ session[r].pc = "gather"
  /\ session' = [session EXCEPT ![r] = Prepared(@, matches, reviewer)]
  /\ UNCHANGED <<githubVars, call>>

(* The command line: prepare of a package, whatever its JSON says of the   *)
(* pull request and its checks.                                            *)
PreparePackage(r, n, c, checks, matches, reviewer) ==
  LET package == [NoReview EXCEPT !.source = "package", !.number = n, !.checks = checks,
                                  !.read = [part \in Parts |-> c]]
  IN
  /\ session[r] = NoReview
  /\ session' = [session EXCEPT ![r] = Prepared(package, matches, reviewer)]
  /\ UNCHANGED <<githubVars, call>>

Decision(s, unsatisfied) ==
  IF unsatisfied \/ \E k \in s.checks : k.required /\ k.conclusion = "FAIL"
  THEN "REQUEST_CHANGES" ELSE "APPROVE"

(* validate_for_posting, of what a result and its context may disagree in. *)
Postable(s, decision, unsatisfied) ==
  decision = "APPROVE" =>
    /\ ~unsatisfied
    /\ \A k \in s.checks : k.required => k.conclusion = "PASS"

(* ReviewerWorkflow.review: the reviewer's findings are well formed or     *)
(* not, and leave a criterion unsatisfied or not.                          *)
Review(r, formed, unsatisfied) ==
  LET s == session[r]
      decision == Decision(s, unsatisfied)
  IN
  /\ s.pc = "READY"
  /\ session' = [session EXCEPT ![r] =
       IF formed /\ Postable(s, decision, unsatisfied)
       THEN [s EXCEPT !.pc = "REVIEW_COMPLETE", !.decision = decision]
       ELSE [NoReview EXCEPT !.pc = "REVIEW_EXECUTION_FAILED", !.formed = formed]]
  /\ UNCHANGED <<githubVars, call>>

(* Mutant: whoever is logged in may post.                                  *)
ConfirmNobody(r, login) ==
  /\ session[r].pc = "REVIEW_COMPLETE"
  /\ session' = [session EXCEPT ![r].pc = "confirmed", ![r].reviewer = login]
  /\ UNCHANGED <<githubVars, call>>

(* submit_review validates the result against the context once more, both  *)
(* unchanged since Review, and compares the account that gh is logged in   *)
(* with.  From here reviewer is the account that posts.                    *)
Confirm(r, login) ==
  /\ session[r].pc = "REVIEW_COMPLETE"
  /\ session' = [session EXCEPT ![r] =
       IF login = session[r].reviewer
       THEN [session[r] EXCEPT !.pc = "confirmed"]
       ELSE [NoReview EXCEPT !.pc = "refused"]]
  /\ UNCHANGED <<githubVars, call>>

(* A review is attached to the head that the pull request has when it      *)
(* arrives.                                                                *)
Post(r) ==
  /\ session[r].pc = "confirmed"
  /\ session[r].number \in Existing
  /\ session' = [session EXCEPT
       ![r].pc = "posted", ![r].lands = pulls[session[r].number].commit]
  /\ UNCHANGED <<githubVars, call>>

(* A call of gh fails.                                                     *)
Abandon(r) ==
  /\ session[r].pc \in {"gather", "REVIEW_COMPLETE", "confirmed"}
  /\ session' = [session EXCEPT ![r] = [NoReview EXCEPT !.pc = "raised"]]
  /\ UNCHANGED <<githubVars, call>>
----------------------------------------------------------------------------
PullInit ==
  /\ head = FirstCommit
  /\ pulls = [n \in Numbers |-> [state |-> "NONE", commit |-> NoCommit]]
  /\ buckets \in {[c \in Commits |-> [k \in Checks |-> b]] : b \in Buckets \ {"pass"}}
  /\ green = {}
  /\ call = [w \in Workers |-> "list"]
  /\ session = [r \in Reviewers |-> NoReview]

GitHub ==
  \/ \E c \in Commits : Push(c)
  \/ \E c \in Commits, k \in Checks, b \in Buckets : Report(c, k, b)
  \/ \E n \in Numbers, state \in {"CLOSED", "MERGED"} : Close(n, state)

Ensure(w) ==
  List(w) \/ Edit(w) \/ Create(w) \/ View(w) \/ Raise(w) \/ CallAgain(w)

Gather(r) ==
  \/ \E n \in Numbers, part \in Parts : Read(r, n, part)
  \/ \E matches \in BOOLEAN, reviewer \in Accounts : Prepare(r, matches, reviewer)
  \/ \E n \in Numbers, c \in Commits, checks \in Packages,
        matches \in BOOLEAN, reviewer \in Accounts :
       PreparePackage(r, n, c, checks, matches, reviewer)

Judge(r) ==
  \/ \E formed, unsatisfied \in BOOLEAN : Review(r, formed, unsatisfied)
  \/ \E login \in Accounts : Confirm(r, login)
  \/ Post(r)
  \/ Abandon(r)

PullNext ==
  \/ GitHub
  \/ \E w \in Workers : Ensure(w)
  \/ \E r \in Reviewers : Gather(r) \/ Judge(r)

PullSpec == PullInit /\ [][PullNext]_pullVars
----------------------------------------------------------------------------
PullStates == {"NONE", "OPEN", "CLOSED", "MERGED"}
CallStates == {"list", "edit", "create", "view", "done", "refused", "raised"}
SessionStates ==
  {"gather", "READY", "REVIEW_CONTEXT_INVALID", "REVIEW_INFRA_FAILURE", "REVIEW_COMPLETE",
   "REVIEW_EXECUTION_FAILED", "confirmed", "refused", "posted", "raised"}

Sessions ==
  [pc : SessionStates, source : {"github", "package"}, number : Numbers \cup {NoPull},
   read : [Parts -> Commits \cup {NoCommit}], checks : SUBSET CheckResult,
   reviewer : Accounts, formed : BOOLEAN,
   decision : {"NONE", "APPROVE", "REQUEST_CHANGES"}, lands : Commits \cup {NoCommit},
   moved : BOOLEAN]

(* The variables have these types.                                         *)
PullTypeOK ==
  /\ head \in Commits
  /\ pulls \in [Numbers -> [state : PullStates, commit : Commits \cup {NoCommit}]]
  /\ buckets \in [Commits -> [Checks -> Buckets]]
  /\ green \in SUBSET Commits
  /\ call \in [Workers -> CallStates]
  /\ session \in [Reviewers -> Sessions]

(* A ticket branch has one pull request for ever, whoever calls and        *)
(* whatever fails, closes or merges it (src/worker/github.py:1).  Holds    *)
(* when nobody closes a pull request in the moment between a list that     *)
(* found none and the creation.                                            *)
OnePullRequest == \A m, n \in Existing : m = n

(* An approval that was posted comes from somebody else than the author;   *)
(* one whose evidence was read from GitHub had seen every check pass, of a *)
(* commit whose checks really had all passed, and unless the branch moved  *)
(* meanwhile it has read what it is attached to (src/reviewer/github.py).  *)
ApprovalHasEvidence ==
  \A r \in Reviewers :
    LET s == session[r] IN
    s.pc = "posted" /\ s.decision = "APPROVE" =>
      /\ s.reviewer # Author
      /\ s.source = "github" =>
           /\ s.read["checks"] \in green
           /\ ~s.moved => \A part \in Parts : s.read[part] = s.lands

(* prepare, review and validate_for_posting each judge the checks in their *)
(* own way; they agree: what was prepared and judged in form never fails   *)
(* in the last of them (src/reviewer/workflow.py:210-213).                 *)
DecisionsAgree ==
  \A r \in Reviewers :
    session[r].pc = "REVIEW_EXECUTION_FAILED" => ~session[r].formed
----------------------------------------------------------------------------
(* An inductive strengthening of the three invariants above.               *)

(* A call that is about to create has seen no pull request; one that has   *)
(* appeared since is open.                                                 *)
CreationsKnown == \A w \in Workers : call[w] = "create" => Existing \subseteq Open

GreenKnown == \A c \in Commits : (\A k \in Checks : buckets[c][k] = "pass") => c \in green

(* The evidence of a session from GitHub: required checks, all of which    *)
(* pass only if those of the commit they were read of have passed.         *)
ChecksRead(s) ==
  s.source = "github" /\ s.checks # {} =>
    /\ \A k \in s.checks : k.required
    /\ (\A k \in s.checks : k.conclusion = "PASS") => s.read["checks"] \in green

Judged == {"READY", "REVIEW_COMPLETE", "confirmed", "posted"}

ReviewKnown(s) ==
  /\ s.pc \in Judged => s.reviewer # Author /\ s.checks # {} /\ ~InfraFailed(s)
  /\ s.pc = "gather" => s.decision = "NONE"
  /\ s.decision = "APPROVE" => \A k \in s.checks : k.required => k.conclusion = "PASS"
  /\ s.pc = "REVIEW_EXECUTION_FAILED" => ~s.formed

(* What the session has read is the head, unless the branch has moved.     *)
HeadKnown(s) ==
  /\ s.source = "github" /\ s.number # NoPull => s.number \in Existing
  /\ s.number = NoPull => \A part \in Parts : s.read[part] = NoCommit
  /\ s.pc \in Judged => s.number # NoPull /\ \A part \in Parts : s.read[part] # NoCommit
  /\ s.source = "github" /\ ~s.moved =>
       \A part \in Parts : s.read[part] # NoCommit =>
         s.read[part] = IF s.pc = "posted" THEN s.lands ELSE pulls[s.number].commit

HeadsKnown ==
  /\ \A n \in Open : pulls[n].commit = head
  /\ \A n \in Existing : pulls[n].commit \in Commits

SessionKnown(s) == ChecksRead(s) /\ ReviewKnown(s) /\ HeadKnown(s)

(* Everything the preservation of the invariants rests on, typed.          *)
PullInv ==
  /\ PullTypeOK
  /\ QuietPeople => OnePullRequest /\ CreationsKnown
  /\ GreenKnown
  /\ HeadsKnown
  /\ \A r \in Reviewers : SessionKnown(session[r])
==============================================================================
