------------------------ MODULE ConsoleSessionProofs ------------------------
(***************************************************************************)
(* What signing in to the console promises for any people, tabs and number *)
(* of functions running at once.                                           *)
(***************************************************************************)
EXTENDS ConsoleSession, TLAPS

\* What a job knows is true of the token, t, unless it has been told otherwise.
JobOK(q, t) ==
    /\ q \in Job
    /\ q.pc # "idle" => q.tab \in Tabs
    /\ q.pc = "verify" => q.who \in Wallets
    /\ q.pc = "digest" => q.who \in Googlers
    /\ q.pc \in {"me", "keygen", "record"} => q.switched \/ q.who = t

JobsOK == \A j \in Jobs : JobOK(job[j], token)

SessionInv == TypeOK /\ JobsOK /\ OneOwnerPerWallet /\ CertificateIdentityKept

----------------------------------------------------------------------------
(* The pieces every action is built from.                                  *)

LEMMA PeopleFacts ==
  /\ Wallets \subseteq People /\ Googlers \subseteq People
  /\ Nobody \notin People
  /\ \A p \in Googlers : p \notin Wallets
  BY PeopleAssumption DEF People

LEMMA IdleOK == \A t : JobOK(Idle, t) /\ Idle.pc = "idle"
  BY DEF Idle, Job, JobOK

\* A job that goes on keeps what it knows.
LEMMA GotoOK ==
  ASSUME TypeOK, NEW j \in Jobs,
         NEW step \in {"verify", "certify", "keygen", "record", "digest"}, NEW who \in People \cup {Nobody}
  PROVE  /\ Goto(j, step, who) \in [Jobs -> Job]
         /\ Goto(j, step, who)[j].pc = step /\ Goto(j, step, who)[j].who = who
         /\ Goto(j, step, who)[j].tab = job[j].tab
         /\ Goto(j, step, who)[j].switched = job[j].switched
         /\ \A k \in Jobs \ {j} : Goto(j, step, who)[k] = job[k]
<1> DEFINE q == [job[j] EXCEPT !.pc = step, !.who = who]
<1>1. job[j] \in Job
  BY DEF TypeOK
<1>2. q \in Job /\ q.pc = step /\ q.who = who /\ q.tab = job[j].tab /\ q.switched = job[j].switched
  BY <1>1 DEF Job
<1>3. Goto(j, step, who) = [job EXCEPT ![j] = q]
  BY <1>1 DEF Goto, Job, TypeOK
<1> HIDE DEF q
<1>4. Goto(j, step, who) \in [Jobs -> Job] /\ Goto(j, step, who)[j] = q
      /\ \A k \in Jobs \ {j} : Goto(j, step, who)[k] = job[k]
  BY <1>2, <1>3 DEF TypeOK
<1> QED
  BY <1>2, <1>4 DEF q

LEMMA StartOK ==
  ASSUME TypeOK, JobsOK, NEW j \in Jobs, NEW t \in Tabs, NEW step \in {"me", "sign", "certify"},
         NEW who \in People \cup {Nobody}, NEW next \in {"end", "refresh", "callback"},
         step = "me" => who = token
  PROVE  /\ Start(j, t, step, who, next) \in [Jobs -> Job]
         /\ \A k \in Jobs : JobOK(Start(j, t, step, who, next)[k], token)
         /\ Start(j, t, step, who, next)[j].pc = step
<1> DEFINE q == [pc |-> step, tab |-> t, who |-> who, next |-> next, switched |-> FALSE]
<1>1. JobOK(q, token) /\ q.pc = step
  BY DEF JobOK, Job
<1>2. Start(j, t, step, who, next) = [job EXCEPT ![j] = q]
  BY DEF Start
<1> HIDE DEF q
<1> QED
  BY <1>1, <1>2 DEF TypeOK, JobsOK, JobOK

LEMMA EndOK ==
  ASSUME TypeOK, JobsOK, NEW j \in Jobs
  PROVE  /\ End(j) \in [Jobs -> Job] /\ End(j)[j].pc = "idle"
         /\ \A k \in Jobs : JobOK(End(j)[k], token)
  BY IdleOK DEF End, TypeOK, JobsOK, JobOK

LEMMA AfterMeOK ==
  ASSUME TypeOK, JobsOK, NEW j \in Jobs, job[j].pc = "me"
  PROVE  /\ AfterMe(j) \in [Jobs -> Job] /\ AfterMe(j)[j].pc \in {"idle", "callback"}
         /\ \A k \in Jobs : JobOK(AfterMe(j)[k], token)
<1>1. CASE job[j].next = "callback"
  <2> DEFINE q == [job[j] EXCEPT !.pc = "callback", !.next = "end"]
  <2>1. job[j] \in Job
    BY DEF TypeOK
  <2>2. JobOK(q, token) /\ q \in Job /\ q.pc = "callback"
    BY <2>1 DEF JobsOK, JobOK, Job
  <2>3. AfterMe(j) = [job EXCEPT ![j] = q]
    BY <1>1, <2>1 DEF AfterMe, Job, TypeOK
  <2> HIDE DEF q
  <2> QED
    BY <2>2, <2>3 DEF TypeOK, JobsOK
<1>2. CASE job[j].next # "callback"
  BY <1>2, EndOK DEF AfterMe
<1> QED
  BY <1>1, <1>2

\* Every job that has begun is told that the token changes hands.
LEMMA StoreTokenOK ==
  ASSUME NEW v, NEW jobs \in [Jobs -> Job],
         \A k \in Jobs : JobOK(jobs[k], token) \/ JobOK(jobs[k], v),
         StoreToken(v, jobs)
  PROVE  /\ token' = v /\ job' \in [Jobs -> Job]
         /\ \A k \in Jobs : JobOK(job'[k], v) /\ job'[k].pc = jobs[k].pc
<1>1. token' = v /\ job' = [k \in Jobs |-> IF jobs[k].pc # "idle" /\ v # token
                                           THEN [jobs[k] EXCEPT !.switched = TRUE] ELSE jobs[k]]
  BY DEF StoreToken
<1>2. ASSUME NEW k \in Jobs PROVE job'[k] \in Job /\ JobOK(job'[k], v) /\ job'[k].pc = jobs[k].pc
  <2>1. PICK q \in Job : q = jobs[k] /\ (JobOK(q, token) \/ JobOK(q, v))
    OBVIOUS
  <2>2. CASE q.pc # "idle" /\ v # token
    <3>1. job'[k] = [q EXCEPT !.switched = TRUE]
      BY <1>1, <2>1, <2>2
    <3>2. [q EXCEPT !.switched = TRUE] \in Job /\ JobOK([q EXCEPT !.switched = TRUE], v)
          /\ [q EXCEPT !.switched = TRUE].pc = q.pc
      BY <2>1 DEF Job, JobOK
    <3> QED
      BY <2>1, <3>1, <3>2
  <2>3. CASE ~(q.pc # "idle" /\ v # token)
    <3>1. job'[k] = q
      BY <1>1, <2>1, <2>3
    <3>2. JobOK(q, v)
      BY <2>1, <2>3 DEF JobOK
    <3> QED
      BY <2>1, <3>1, <3>2
  <2> QED
    BY <2>2, <2>3
<1> QED
  BY <1>1, <1>2

LEMMA ApplyOK ==
  ASSUME TypeOK, NEW t \in Tabs, NEW p \in People, tab' = Apply(t, p)
  PROVE  tab' \in [Tabs -> Tab] /\ \A u \in Tabs : tab'[u].status = "in" <=> tab'[u].user # Nobody
  BY PeopleFacts DEF TypeOK, Apply, Tab

LEMMA OutOK ==
  ASSUME TypeOK, NEW t \in Tabs, NEW out \in {SignedOut, [SignedOut EXCEPT !.status = "loading"]},
         tab' = [tab EXCEPT ![t] = out]
  PROVE  tab' \in [Tabs -> Tab] /\ \A u \in Tabs : tab'[u].status = "in" <=> tab'[u].user # Nobody
<1>1. out \in Tab /\ out.user = Nobody /\ out.status # "in"
  BY DEF SignedOut, Tab
<1> QED
  BY <1>1 DEF TypeOK

\* A session kept for an identity that is the key's own, or for a key that is no
\* certificate's.
LEMMA StoredOK ==
  ASSUME TypeOK, CertificateIdentityKept, NEW t \in Tabs, NEW key \in People \cup {Nobody},
         NEW identity \in People \cup {Nobody}, key \in Wallets => identity = key,
         signing' = Stored(t, key, identity)
  PROVE  signing' \in [Tabs -> SigningSession] /\ CertificateIdentityKept'
<1> DEFINE q == [key |-> key, identity |-> IF identity # Nobody THEN identity
                                           ELSE signing[t].identity]
<1>1. q \in SigningSession
  BY DEF TypeOK, SigningSession
<1>2. q.key \in Wallets => q.identity = q.key
  BY PeopleFacts
<1>3. signing' = [signing EXCEPT ![t] = q]
  BY DEF Stored
<1> HIDE DEF q
<1> QED
  BY <1>1, <1>2, <1>3 DEF TypeOK, CertificateIdentityKept

----------------------------------------------------------------------------
(* The actions.                                                            *)

LEMMA InitInv == Init => SessionInv
  BY IdleOK, PeopleFacts
  DEF Init, SessionInv, TypeOK, JobsOK, JobOK, OneOwnerPerWallet, CertificateIdentityKept, Tab,
      SignedOut, SigningSession, NoSession

\* Steps that change only which functions run.
LEMMA JobsOnly ==
  ASSUME SessionInv, UNCHANGED <<wallet, token, tab, signing>>,
         job' \in [Jobs -> Job], \A k \in Jobs : JobOK(job'[k], token)
  PROVE  SessionInv'
  BY DEF SessionInv, TypeOK, JobsOK, OneOwnerPerWallet, CertificateIdentityKept

\* A step of job j, of which nothing more has to be known than where it goes on.
LEMMA GotoInv ==
  ASSUME SessionInv, NEW j \in Jobs, job[j].pc # "idle",
         NEW step \in {"verify", "certify", "digest"}, NEW who \in People \cup {Nobody},
         step = "verify" => who \in Wallets, step = "digest" => who \in Googlers
  PROVE  /\ Goto(j, step, who) \in [Jobs -> Job]
         /\ \A k \in Jobs : JobOK(Goto(j, step, who)[k], token)
<1>1. /\ Goto(j, step, who) \in [Jobs -> Job]
      /\ Goto(j, step, who)[j].pc = step /\ Goto(j, step, who)[j].who = who
      /\ Goto(j, step, who)[j].tab = job[j].tab
      /\ \A k \in Jobs \ {j} : Goto(j, step, who)[k] = job[k]
  BY GotoOK DEF SessionInv
<1>2. JobOK(Goto(j, step, who)[j], token)
  BY <1>1 DEF SessionInv, JobsOK, JobOK
<1> QED
  BY <1>1, <1>2 DEF SessionInv, JobsOK

LEMMA LoadInv ==
  ASSUME SessionInv, NEW t \in Tabs, NEW j \in Jobs, NEW next \in {"end", "callback"},
         Load(t, j, next)
  PROVE  SessionInv'
<1> USE DEF SessionInv
<1> DEFINE q == [pc |-> "me", tab |-> t, who |-> token, next |-> next, switched |-> FALSE]
<1>1. Unload(t) \in [Jobs -> Job] /\ \A k \in Jobs : JobOK(Unload(t)[k], token)
  BY IdleOK DEF Unload, TypeOK, JobsOK, JobOK
<1>2. JobOK(q, token)
  BY DEF JobOK, Job, TypeOK
<1>3. job' = [Unload(t) EXCEPT ![j] = q]
  BY DEF Load
<1> HIDE DEF q
<1>4. job' \in [Jobs -> Job] /\ \A k \in Jobs : JobOK(job'[k], token)
  BY <1>1, <1>2, <1>3 DEF JobOK
<1>5. PICK out \in {SignedOut, [SignedOut EXCEPT !.status = "loading"]} :
         out = [SignedOut EXCEPT !.status = "loading"]
  OBVIOUS
<1>6. tab' \in [Tabs -> Tab] /\ \A u \in Tabs : tab'[u].status = "in" <=> tab'[u].user # Nobody
  BY <1>5, OutOK DEF Load
<1> QED
  BY <1>4, <1>6 DEF Load, TypeOK, JobsOK, OneOwnerPerWallet, CertificateIdentityKept

LEMMA RefreshInv ==
  ASSUME SessionInv, NEW t \in Tabs, NEW j \in Jobs, Refresh(t, j) PROVE SessionInv'
<1>1. PICK who \in People \cup {Nobody} : who = token
  BY DEF SessionInv, TypeOK
<1> QED
  BY <1>1, StartOK, JobsOnly DEF SessionInv, Refresh

LEMMA SignInWithWalletInv ==
  ASSUME SessionInv, NEW t \in Tabs, NEW j \in Jobs, SignInWithWallet(t, j) PROVE SessionInv'
  BY StartOK, JobsOnly DEF SessionInv, SignInWithWallet

LEMMA RestoreSigningInv ==
  ASSUME SessionInv, NEW t \in Tabs, NEW j \in Jobs, RestoreSigning(t, j) PROVE SessionInv'
  BY StartOK, JobsOnly DEF SessionInv, RestoreSigning

LEMMA SignMessageInv ==
  ASSUME SessionInv, NEW j \in Jobs, NEW p \in Wallets, SignMessage(j, p) PROVE SessionInv'
  BY GotoInv, JobsOnly, PeopleFacts DEF SignMessage

LEMMA ProveInv ==
  ASSUME SessionInv, NEW j \in Jobs, NEW p \in Googlers, Prove(j, p) PROVE SessionInv'
  BY GotoInv, JobsOnly, PeopleFacts DEF Prove

LEMMA WelcomeInv ==
  ASSUME SessionInv, NEW j \in Jobs, Welcome(j) PROVE SessionInv'
<1> USE DEF SessionInv
<1>1. job[j].tab \in Tabs /\ job[j].who \in People
  BY DEF Welcome, JobsOK, JobOK, Job
<1>2. PICK t \in Tabs, p \in People : t = job[j].tab /\ p = job[j].who
  BY <1>1
<1>3. tab' \in [Tabs -> Tab] /\ \A u \in Tabs : tab'[u].status = "in" <=> tab'[u].user # Nobody
  BY <1>2, ApplyOK DEF Welcome
<1>4. job' \in [Jobs -> Job] /\ \A k \in Jobs : JobOK(job'[k], token)
  BY AfterMeOK DEF Welcome
<1> QED
  BY <1>3, <1>4 DEF Welcome, TypeOK, JobsOK, OneOwnerPerWallet, CertificateIdentityKept

LEMMA RefuseInv ==
  ASSUME SessionInv, NEW j \in Jobs, Refuse(j) PROVE SessionInv'
<1> USE DEF SessionInv
<1>1. /\ AfterMe(j) \in [Jobs -> Job]
      /\ \A k \in Jobs : JobOK(AfterMe(j)[k], token)
  BY AfterMeOK DEF Refuse
<1>2. PICK jobs \in [Jobs -> Job] : jobs = AfterMe(j)
  BY <1>1
<1>3. token' = Nobody /\ job' \in [Jobs -> Job] /\ \A k \in Jobs : JobOK(job'[k], Nobody)
  BY <1>1, <1>2, StoreTokenOK DEF Refuse
<1>4. PICK t \in Tabs : t = job[j].tab
  BY DEF Refuse, JobsOK, JobOK
<1>5. tab' \in [Tabs -> Tab] /\ \A u \in Tabs : tab'[u].status = "in" <=> tab'[u].user # Nobody
  BY <1>4, OutOK DEF Refuse
<1> QED
  BY <1>3, <1>5 DEF Refuse, TypeOK, JobsOK, OneOwnerPerWallet, CertificateIdentityKept

LEMMA FailInv ==
  ASSUME SessionInv, NEW j \in Jobs, Fail(j) PROVE SessionInv'
<1> USE DEF SessionInv
<1>1. job' \in [Jobs -> Job] /\ \A k \in Jobs : JobOK(job'[k], token)
  BY EndOK DEF Fail
<1>2. PICK t \in Tabs : t = job[j].tab
  BY DEF Fail, JobsOK, JobOK
<1>3. tab' = tab \/ tab' = [tab EXCEPT ![t] = SignedOut]
  BY <1>2 DEF Fail
<1>4. tab' \in [Tabs -> Tab] /\ \A u \in Tabs : tab'[u].status = "in" <=> tab'[u].user # Nobody
  BY <1>3, OutOK DEF TypeOK
<1> QED
  BY <1>1, <1>4 DEF Fail, TypeOK, JobsOK, OneOwnerPerWallet, CertificateIdentityKept

\* The token goes, while the jobs stay where they are.
LEMMA TokenGone ==
  ASSUME SessionInv, StoreToken(Nobody, job)
  PROVE  token' = Nobody /\ job' \in [Jobs -> Job] /\ \A k \in Jobs : JobOK(job'[k], Nobody)
<1>1. PICK jobs \in [Jobs -> Job] : jobs = job
  BY DEF SessionInv, TypeOK
<1>2. \A k \in Jobs : JobOK(jobs[k], token)
  BY <1>1 DEF SessionInv, JobsOK
<1>3. StoreToken(Nobody, jobs)
  BY <1>1
<1> QED
  BY <1>2, <1>3, StoreTokenOK

LEMMA ExpireTokenInv == ASSUME SessionInv, ExpireToken PROVE SessionInv'
  BY TokenGone DEF ExpireToken, SessionInv, TypeOK, JobsOK, OneOwnerPerWallet, CertificateIdentityKept

\* A tab without a signing session.
LEMMA NoSessionOK ==
  ASSUME SessionInv, NEW t \in Tabs, signing' = [signing EXCEPT ![t] = NoSession]
  PROVE  signing' \in [Tabs -> SigningSession] /\ CertificateIdentityKept'
  BY PeopleFacts DEF SessionInv, TypeOK, CertificateIdentityKept, SigningSession, NoSession, People

LEMMA DropSigningInv ==
  ASSUME SessionInv, NEW t \in Tabs, DropSigning(t) PROVE SessionInv'
  BY NoSessionOK DEF DropSigning, SessionInv, TypeOK, JobsOK, OneOwnerPerWallet

LEMMA SignOutInv ==
  ASSUME SessionInv, NEW t \in Tabs, SignOut(t) PROVE SessionInv'
<1>1. token' = Nobody /\ job' \in [Jobs -> Job] /\ \A k \in Jobs : JobOK(job'[k], Nobody)
  BY TokenGone DEF SignOut
<1>2. tab' \in [Tabs -> Tab] /\ \A u \in Tabs : tab'[u].status = "in" <=> tab'[u].user # Nobody
  BY OutOK DEF SessionInv, SignOut
<1>3. signing' \in [Tabs -> SigningSession] /\ CertificateIdentityKept'
  BY NoSessionOK DEF SignOut
<1> QED
  BY <1>1, <1>2, <1>3 DEF SignOut, SessionInv, TypeOK, JobsOK, OneOwnerPerWallet

LEMMA CertifyInv ==
  ASSUME SessionInv, NEW j \in Jobs, Certify(j) PROVE SessionInv'
<1> USE DEF SessionInv
<1>1. PICK who \in People \cup {Nobody} : who = token
  BY DEF TypeOK
<1>2. PICK jobs \in [Jobs -> Job] :
         /\ jobs = Goto(j, "keygen", who)
         /\ jobs[j].pc = "keygen" /\ jobs[j].who = who /\ jobs[j].tab = job[j].tab
         /\ \A k \in Jobs \ {j} : jobs[k] = job[k]
  BY GotoOK
<1>3. job' = [jobs EXCEPT ![j] = [jobs[j] EXCEPT !.switched = FALSE]]
  BY <1>1, <1>2 DEF Certify
<1>4. PICK q \in Job : q = jobs[j]
  BY <1>2
<1>5. [q EXCEPT !.switched = FALSE] \in Job /\ JobOK([q EXCEPT !.switched = FALSE], token)
  BY <1>1, <1>2, <1>4 DEF Certify, Job, JobOK, JobsOK
<1>6. job' \in [Jobs -> Job] /\ \A k \in Jobs : JobOK(job'[k], token)
  BY <1>2, <1>3, <1>4, <1>5 DEF JobsOK
<1> QED
  BY <1>6, JobsOnly DEF Certify

LEMMA KeygenInv ==
  ASSUME SessionInv, NEW j \in Jobs, Keygen(j) PROVE SessionInv'
<1> USE DEF SessionInv
<1>1. PICK who \in People \cup {Nobody}, t \in Tabs :
         /\ who = job[j].who /\ t = job[j].tab
         /\ job[j].switched \/ who = token
  BY DEF Keygen, TypeOK, JobsOK, JobOK, Job
<1>2. /\ job' \in [Jobs -> Job]
      /\ job'[j].pc = "record" /\ job'[j].who = who /\ job'[j].tab = job[j].tab
      /\ job'[j].switched = job[j].switched
      /\ \A k \in Jobs \ {j} : job'[k] = job[k]
  BY <1>1, GotoOK DEF Keygen
<1>3. JobOK(job'[j], token)
  BY <1>1, <1>2 DEF JobOK
<1>4. \A k \in Jobs : JobOK(job'[k], token)
  BY <1>2, <1>3 DEF JobsOK
<1>5. signing' \in [Tabs -> SigningSession] /\ CertificateIdentityKept'
  BY <1>1, StoredOK DEF Keygen
<1> QED
  BY <1>2, <1>4, <1>5 DEF Keygen, TypeOK, JobsOK, OneOwnerPerWallet

LEMMA RecordSignetKeyInv ==
  ASSUME SessionInv, NEW j \in Jobs, RecordSignetKey(j) PROVE SessionInv'
<1> USE DEF SessionInv
<1>1. PICK who \in People \cup {Nobody}, t \in Tabs, p \in People :
         who = job[j].who /\ t = job[j].tab /\ p = token
  BY DEF RecordSignetKey, TypeOK, JobsOK, JobOK, Job
<1>2. job' = Start(j, t, "me", p, "end") \/ job' = End(j)
  BY <1>1 DEF RecordSignetKey
<1>3. job' \in [Jobs -> Job] /\ \A k \in Jobs : JobOK(job'[k], token)
  BY <1>1, <1>2, StartOK, EndOK
<1>4. /\ wallet' = [wallet EXCEPT ![p] = who]
      /\ \A o \in People \ {p} : wallet[o] # who
  BY <1>1 DEF RecordSignetKey
<1>5. wallet' \in [People -> People \cup {Nobody}] /\ OneOwnerPerWallet'
  BY <1>4 DEF TypeOK, OneOwnerPerWallet
<1> QED
  BY <1>3, <1>5 DEF RecordSignetKey, TypeOK, JobsOK, CertificateIdentityKept

\* Somebody has signed in: the job goes on as theirs, and the token is theirs.
LEMMA SignedIn ==
  ASSUME SessionInv, NEW j \in Jobs, job[j].pc \in {"verify", "digest"},
         NEW step \in {"certify", "record"}, NEW who \in People \cup {Nobody},
         step = "record" => who = job[j].who,
         StoreToken(job[j].who, Goto(j, step, who)), tab' = Apply(job[j].tab, job[j].who)
  PROVE  /\ token' = job[j].who /\ token' \in People
         /\ job' \in [Jobs -> Job] /\ \A k \in Jobs : JobOK(job'[k], token')
         /\ tab' \in [Tabs -> Tab]
         /\ \A u \in Tabs : tab'[u].status = "in" <=> tab'[u].user # Nobody
<1> USE DEF SessionInv
<1>1. PICK p \in People, t \in Tabs : p = job[j].who /\ t = job[j].tab
  BY PeopleFacts DEF JobsOK, JobOK
<1>2. PICK jobs : jobs = Goto(j, step, who)
  OBVIOUS
<1>3. /\ jobs \in [Jobs -> Job]
      /\ jobs[j].pc = step /\ jobs[j].who = who /\ jobs[j].tab = t
      /\ \A k \in Jobs \ {j} : jobs[k] = job[k]
  BY <1>1, <1>2, GotoOK
<1>4. JobOK(jobs[j], p)
  BY <1>1, <1>3 DEF JobOK
<1>5. \A k \in Jobs : JobOK(jobs[k], token) \/ JobOK(jobs[k], p)
  BY <1>3, <1>4 DEF JobsOK
<1>6. token' = p /\ job' \in [Jobs -> Job] /\ \A k \in Jobs : JobOK(job'[k], p)
  BY <1>1, <1>2, <1>3, <1>5, StoreTokenOK
<1>7. tab' \in [Tabs -> Tab] /\ \A u \in Tabs : tab'[u].status = "in" <=> tab'[u].user # Nobody
  BY <1>1, ApplyOK
<1> QED
  BY <1>1, <1>6, <1>7

LEMMA VerifyWalletInv ==
  ASSUME SessionInv, NEW j \in Jobs, VerifyWallet(j) PROVE SessionInv'
<1>1. /\ token' \in People
      /\ job' \in [Jobs -> Job] /\ \A k \in Jobs : JobOK(job'[k], token')
      /\ tab' \in [Tabs -> Tab]
      /\ \A u \in Tabs : tab'[u].status = "in" <=> tab'[u].user # Nobody
  BY SignedIn DEF VerifyWallet
<1> QED
  BY <1>1 DEF VerifyWallet, SessionInv, TypeOK, JobsOK, OneOwnerPerWallet, CertificateIdentityKept

LEMMA VerifySignetInv ==
  ASSUME SessionInv, NEW j \in Jobs, VerifySignet(j) PROVE SessionInv'
<1> USE DEF SessionInv
<1>1. PICK who \in People \cup {Nobody}, t \in Tabs :
         who = job[j].who /\ t = job[j].tab /\ who \in Googlers
  BY PeopleFacts DEF VerifySignet, JobsOK, JobOK
<1>2. /\ token' \in People
      /\ job' \in [Jobs -> Job] /\ \A k \in Jobs : JobOK(job'[k], token')
      /\ tab' \in [Tabs -> Tab]
      /\ \A u \in Tabs : tab'[u].status = "in" <=> tab'[u].user # Nobody
  BY <1>1, SignedIn DEF VerifySignet
<1>3. signing' = Stored(t, who, Nobody)
  BY <1>1 DEF VerifySignet
<1>4. who \notin Wallets /\ Nobody \in People \cup {Nobody}
  BY <1>1, PeopleFacts
<1>5. signing' \in [Tabs -> SigningSession] /\ CertificateIdentityKept'
  BY <1>1, <1>3, <1>4, StoredOK
<1> QED
  BY <1>2, <1>5 DEF VerifySignet, TypeOK, JobsOK, OneOwnerPerWallet

LEMMA StutterInv == ASSUME SessionInv, UNCHANGED vars PROVE SessionInv'
  BY DEF SessionInv, TypeOK, JobsOK, OneOwnerPerWallet, CertificateIdentityKept, vars

LEMMA NextInv == ASSUME SessionInv, [Next]_vars PROVE SessionInv'
<1>1. ASSUME NEW t \in Tabs, Click(t) PROVE SessionInv'
  BY <1>1, LoadInv, RefreshInv, SignInWithWalletInv, RestoreSigningInv, SignOutInv, DropSigningInv
  DEF Click, Reload, SignInWithSignet
<1>2. ASSUME NEW j \in Jobs, Provision(j) PROVE SessionInv'
  BY <1>2, CertifyInv, KeygenInv, RecordSignetKeyInv DEF Provision
<1>3. ASSUME NEW j \in Jobs, SignIn(j) PROVE SessionInv'
  BY <1>3, VerifyWalletInv, VerifySignetInv, SignMessageInv, ProveInv DEF SignIn
<1> QED
  BY <1>1, <1>2, <1>3, WelcomeInv, RefuseInv, FailInv, ExpireTokenInv, StutterInv DEF Next

THEOREM Invariance == Spec => []SessionInv
  BY InitInv, NextInv, PTL DEF Spec

----------------------------------------------------------------------------
(* The invariants.                                                         *)

\* The browser's and the database's state keep their types, and a tab is signed in
\* exactly while it shows a user (SessionProvider).
THEOREM TypeCorrect == Spec => []TypeOK
  BY Invariance, PTL DEF SessionInv

\* No two developers have the same smart wallet, whoever's row a key is recorded on
\* (recordSignetKey).
THEOREM OneOwner == Spec => []OneOwnerPerWallet
  BY Invariance, PTL DEF SessionInv

\* A session opened with a certificate is signed for under its own identity
\* (storeSigningSession).
THEOREM IdentityKept == Spec => []CertificateIdentityKept
  BY Invariance, PTL DEF SessionInv

----------------------------------------------------------------------------
(* The action properties.                                                  *)

\* Who writes what.
LEMMA Writers ==
  ASSUME [Next]_vars
  PROVE  /\ wallet' = wallet \/ \E j \in Jobs : RecordSignetKey(j)
         /\ \/ tab' = tab
            \/ \E j \in Jobs : Welcome(j) \/ Refuse(j) \/ Fail(j) \/ VerifyWallet(j) \/ VerifySignet(j)
            \/ \E t \in Tabs : SignOut(t) \/ \E j \in Jobs : Load(t, j, "end") \/ Load(t, j, "callback")
         /\ \/ token' = token \/ ExpireToken
            \/ \E j \in Jobs : Refuse(j) \/ VerifyWallet(j) \/ VerifySignet(j)
            \/ \E t \in Tabs : SignOut(t)
<1>1. CASE UNCHANGED vars
  BY <1>1 DEF vars
<1>2. ASSUME NEW t \in Tabs, Click(t)
      PROVE  /\ wallet' = wallet
             /\ \/ tab' = tab \/ SignOut(t)
                \/ \E j \in Jobs : Load(t, j, "end") \/ Load(t, j, "callback")
             /\ (token' = token \/ SignOut(t))
  BY <1>2 DEF Click, Reload, Load, Refresh, SignInWithWallet, SignInWithSignet, RestoreSigning,
              SignOut, DropSigning
<1>3. ASSUME NEW j \in Jobs, Provision(j)
      PROVE  tab' = tab /\ token' = token /\ (wallet' = wallet \/ RecordSignetKey(j))
  BY <1>3 DEF Provision, Certify, Keygen, RecordSignetKey
<1>4. ASSUME NEW j \in Jobs, SignIn(j)
      PROVE  /\ wallet' = wallet
             /\ (tab' = tab /\ token' = token) \/ VerifyWallet(j) \/ VerifySignet(j)
  BY <1>4 DEF SignIn, VerifyWallet, VerifySignet, SignMessage, Prove
<1>5. ASSUME NEW j \in Jobs, Welcome(j) \/ Refuse(j) \/ Fail(j)
      PROVE  wallet' = wallet /\ (token' = token \/ Refuse(j))
  BY <1>5 DEF Welcome, Refuse, Fail
<1>6. ASSUME ExpireToken PROVE wallet' = wallet /\ tab' = tab
  BY <1>6 DEF ExpireToken
<1> QED
  BY <1>1, <1>2, <1>3, <1>4, <1>5, <1>6 DEF Next

\* A wallet lands on a row that is not its holder's only when the browser changed
\* hands during the provisioning (provisionSignetKey).
THEOREM OwnWallet == Spec => RecordedWalletIsOwn
<1>1. ASSUME SessionInv, [Next]_vars
      PROVE  [\A p \in People :
                wallet'[p] # wallet[p]
                  => \/ wallet'[p] = p
                     \/ \E j \in Jobs : job[j].pc = "record" /\ job[j].switched
                                         /\ job'[j].pc # "record"]_vars
  <2> SUFFICES ASSUME NEW p \in People, wallet'[p] # wallet[p], wallet'[p] # p
               PROVE  \E j \in Jobs : job[j].pc = "record" /\ job[j].switched
                                       /\ job'[j].pc # "record"
    OBVIOUS
  <2>1. PICK j \in Jobs : RecordSignetKey(j)
    BY <1>1, Writers
  <2>2. p = token /\ wallet'[p] = job[j].who
    BY <1>1, <2>1 DEF RecordSignetKey, SessionInv, TypeOK
  <2>3. job[j].switched
    BY <1>1, <2>1, <2>2 DEF RecordSignetKey, SessionInv, JobsOK, JobOK
  <2>4. job'[j].pc # "record"
    <3>1. PICK who \in People \cup {Nobody}, t \in Tabs : who = token /\ t = job[j].tab
      BY <1>1, <2>1 DEF RecordSignetKey, SessionInv, TypeOK, JobsOK, JobOK
    <3>2. job' = Start(j, t, "me", who, "end") \/ job' = End(j)
      BY <2>1, <3>1 DEF RecordSignetKey
    <3> QED
      BY <1>1, <3>1, <3>2, StartOK, EndOK DEF SessionInv
  <2> QED
    BY <2>1, <2>3, <2>4 DEF RecordSignetKey
<1> QED
  BY <1>1, Invariance, PTL DEF Spec, RecordedWalletIsOwn

\* A token that is still good is kept, but for a sign-out, its expiry or a refusal
\* that was meant for an earlier one (refresh).
THEOREM TokenKept == Spec => TokenKeptWhileGood
<1>1. ASSUME SessionInv, [Next]_vars
      PROVE  [(token # Nobody /\ token' = Nobody)
                => \/ ExpireToken
                   \/ \E t \in Tabs : SignOut(t)
                   \/ \E j \in Jobs : job[j].pc = "me" /\ job[j].switched /\ job'[j].pc # "me"]_vars
  <2> SUFFICES ASSUME token # Nobody, token' = Nobody, ~ExpireToken, ~\E t \in Tabs : SignOut(t)
               PROVE  \E j \in Jobs : job[j].pc = "me" /\ job[j].switched /\ job'[j].pc # "me"
    OBVIOUS
  <2>1. PICK j \in Jobs : Refuse(j) \/ VerifyWallet(j) \/ VerifySignet(j)
    BY <1>1, Writers
  <2>2. ~(VerifyWallet(j) \/ VerifySignet(j))
    BY <1>1, PeopleFacts DEF VerifyWallet, VerifySignet, StoreToken, SessionInv, JobsOK, JobOK
  <2>3. Refuse(j)
    BY <2>1, <2>2
  <2>4. job[j].pc = "me" /\ job[j].switched
    BY <1>1, <2>3 DEF Refuse, SessionInv, JobsOK, JobOK
  <2>5. job'[j].pc # "me"
    <3>1. PICK jobs \in [Jobs -> Job] :
            /\ jobs = AfterMe(j) /\ jobs[j].pc \in {"idle", "callback"}
            /\ \A k \in Jobs : JobOK(jobs[k], token)
      BY <1>1, <2>4, AfterMeOK DEF SessionInv
    <3> QED
      BY <2>3, <3>1, StoreTokenOK DEF Refuse
  <2> QED
    BY <2>4, <2>5
<1> QED
  BY <1>1, Invariance, PTL DEF Spec, TokenKeptWhileGood

\* A tab comes to show somebody else than the browser's token names only when an
\* answer was late (apply).
THEOREM ShowsSignedIn == Spec => ShowsWhoIsSignedIn
<1>1. ASSUME SessionInv, [Next]_vars
      PROVE  [\A t \in Tabs :
                (tab'[t].user # tab[t].user /\ tab'[t].user # Nobody)
                  => \/ token' = tab'[t].user
                     \/ \E j \in Jobs : job[j].pc = "me" /\ job[j].switched
                                         /\ job[j].tab = t /\ job'[j].pc # "me"]_vars
  <2> SUFFICES ASSUME NEW t \in Tabs, tab'[t].user # tab[t].user, tab'[t].user # Nobody,
                      token' # tab'[t].user
               PROVE  \E j \in Jobs : job[j].pc = "me" /\ job[j].switched
                                       /\ job[j].tab = t /\ job'[j].pc # "me"
    OBVIOUS
  <2>1. ASSUME NEW u \in Tabs, SignOut(u) \/ \E j \in Jobs : Load(u, j, "end") \/ Load(u, j, "callback")
        PROVE  FALSE
    BY <1>1, <2>1 DEF SignOut, Load, SessionInv, TypeOK, SignedOut
  <2>2. PICK j \in Jobs : Welcome(j) \/ Refuse(j) \/ Fail(j) \/ VerifyWallet(j) \/ VerifySignet(j)
    BY <1>1, <2>1, Writers
  <2>3. ~Refuse(j) /\ ~Fail(j)
    BY <1>1 DEF Refuse, Fail, SessionInv, TypeOK, SignedOut
  <2>4. ~VerifyWallet(j) /\ ~VerifySignet(j)
    BY <1>1 DEF VerifyWallet, VerifySignet, Apply, StoreToken, SessionInv, TypeOK
  <2>5. Welcome(j)
    BY <2>2, <2>3, <2>4
  <2>6. job[j].tab = t /\ tab'[t].user = job[j].who
    BY <1>1, <2>5 DEF Welcome, Apply, SessionInv, TypeOK
  <2>7. job[j].pc = "me" /\ job[j].switched
    BY <1>1, <2>5, <2>6 DEF Welcome, SessionInv, JobsOK, JobOK
  <2>8. job'[j].pc # "me"
    BY <1>1, <2>5, <2>7, AfterMeOK DEF Welcome, SessionInv
  <2> QED
    BY <2>6, <2>7, <2>8
<1> QED
  BY <1>1, Invariance, PTL DEF Spec, ShowsWhoIsSignedIn
=============================================================================
