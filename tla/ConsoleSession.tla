--------------------------- MODULE ConsoleSession ---------------------------
(***************************************************************************)
(* Signing in to the console (web/providers/SessionProvider.tsx, the login *)
(* and callback pages, web/lib/provision.ts, signet.ts, session-key.ts).   *)
(*                                                                         *)
(* One browser.  Its tabs share the session token in localStorage; each has*)
(* its own React state and its own signing session in sessionStorage.  The *)
(* asynchronous functions of the pages are jobs: whatever they awaited,    *)
(* they go on in the tab they began in, with the token as it is by then.   *)
(*                                                                         *)
(* The console runs on another origin than the API, so the cookie is never *)
(* sent and the token is the whole credential (lib/api.ts).                *)
(***************************************************************************)
CONSTANTS Wallets,   \* people who sign in with an Ethereum wallet
          Googlers,  \* people who sign in with Signet
          Tabs,
          Jobs,      \* asynchronous functions running at once, a bound
          Nobody,
          NoTab

ASSUME PeopleAssumption == Wallets \cap Googlers = {} /\ Nobody \notin Wallets \cup Googlers
ASSUME TabAssumption == NoTab \notin Tabs

People == Wallets \cup Googlers

VARIABLES
    wallet,   \* users.smart_account_address, as the person whose key controls it
    token,    \* localStorage: whom the session token names
    tab,      \* the SessionProvider of each tab
    signing,  \* sessionStorage of each tab: the signing session
    job

vars == <<wallet, token, tab, signing, job>>

Tab == [status : {"out", "loading", "in"}, user : People \cup {Nobody},
        wallet : People \cup {Nobody}]     \* user.smart_account_address when it was fetched

\* The nodes know a session by its key's namespace: a certificate's is its
\* identity, an OAuth proof's is iss:sub and leaves the identity unset.
SigningSession == [key : People \cup {Nobody}, identity : People \cup {Nobody}]

Job == [pc : {"idle", "me", "sign", "verify", "certify", "keygen", "record", "callback", "digest"},
        tab : Tabs \cup {NoTab}, who : People \cup {Nobody},
        next : {"end", "refresh", "callback"},  \* what the page does after this call
        switched : BOOLEAN]                     \* history: the token changed hands meanwhile

SignedOut == [status |-> "out", user |-> Nobody, wallet |-> Nobody]
NoSession == [key |-> Nobody, identity |-> Nobody]
Idle == [pc |-> "idle", tab |-> NoTab, who |-> Nobody, next |-> "end", switched |-> FALSE]

TypeOK ==
    /\ wallet \in [People -> People \cup {Nobody}]
    /\ token \in People \cup {Nobody}
    /\ tab \in [Tabs -> Tab]
    /\ \A t \in Tabs : tab[t].status = "in" <=> tab[t].user # Nobody
    /\ signing \in [Tabs -> SigningSession]
    /\ job \in [Jobs -> Job]

Init ==
    /\ wallet = [p \in People |-> Nobody]
    /\ token = Nobody
    /\ tab = [t \in Tabs |-> SignedOut]
    /\ signing = [t \in Tabs |-> NoSession]
    /\ job = [j \in Jobs |-> Idle]

----------------------------------------------------------------------------
(* The pieces                                                              *)

\* The key stored alone.
StoredBare(t, key, identity) == [signing EXCEPT ![t].key = key]

\* storeSigningSession, from callers that all know the node: a session without
\* an identity leaves the last one's in place.
Stored(t, key, identity) ==
    [signing EXCEPT ![t] = [key |-> key,
                            identity |-> IF identity # Nobody THEN identity ELSE @.identity]]

\* apply: the answer of /v1/me or of a verification, as the database was then.
Apply(t, p) == [tab EXCEPT ![t] = [status |-> "in", user |-> p, wallet |-> wallet[p]]]

\* storeToken, noted by every job that has begun.
StoreToken(v, jobs) ==
    /\ token' = v
    /\ job' = [j \in Jobs |-> IF jobs[j].pc # "idle" /\ v # token
                              THEN [jobs[j] EXCEPT !.switched = TRUE] ELSE jobs[j]]

End(j) == [job EXCEPT ![j] = Idle]
Goto(j, step, who) == [job EXCEPT ![j].pc = step, ![j].who = who]
Start(j, t, step, who, next) ==
    [job EXCEPT ![j] = [pc |-> step, tab |-> t, who |-> who, next |-> next, switched |-> FALSE]]

\* Leaving the page ends its functions; what they sent may have been served.
Unload(t) == [j \in Jobs |-> IF job[j].tab = t THEN Idle ELSE job[j]]

----------------------------------------------------------------------------
(* Loading a page, and refreshing the session                              *)

\* The effect of SessionProvider calls refresh; an expired token is as none.
Load(t, j, next) ==
    /\ Unload(t)[j].pc = "idle"
    /\ job' = [Unload(t) EXCEPT ![j] = [pc |-> "me", tab |-> t, who |-> token,
                                        next |-> next, switched |-> FALSE]]
    /\ tab' = [tab EXCEPT ![t] = [SignedOut EXCEPT !.status = "loading"]]
    /\ UNCHANGED <<wallet, token, signing>>

Reload(t, j) == Load(t, j, "end")

\* Pages call refresh after what they change: an organization, a profile, a key.
Refresh(t, j) ==
    /\ job[j].pc = "idle" /\ tab[t].status = "in"
    /\ job' = Start(j, t, "me", token, "end")
    /\ UNCHANGED <<wallet, token, tab, signing>>

AfterMe(j) ==
    IF job[j].next = "callback" THEN [job EXCEPT ![j].pc = "callback", ![j].next = "end"]
    ELSE End(j)

Welcome(j) ==
    /\ job[j].pc = "me" /\ job[j].who # Nobody
    /\ tab' = Apply(job[j].tab, job[j].who)
    /\ job' = AfterMe(j)
    /\ UNCHANGED <<wallet, token, signing>>

\* Any failure read as a refusal of the credential.
RefuseAnyFailure(j) ==
    /\ job[j].pc = "me"
    /\ StoreToken(Nobody, AfterMe(j))
    /\ tab' = [tab EXCEPT ![job[j].tab] = SignedOut]
    /\ UNCHANGED <<wallet, signing>>

\* The user stays on screen.
RefuseStatusOnly(j) ==
    /\ job[j].pc = "me" /\ job[j].who = Nobody
    /\ StoreToken(Nobody, AfterMe(j))
    /\ tab' = [tab EXCEPT ![job[j].tab].status = "out"]
    /\ UNCHANGED <<wallet, signing>>

\* 401: the token goes, whichever it is by now; the signing session stays.
Refuse(j) ==
    /\ job[j].pc = "me" /\ job[j].who = Nobody
    /\ StoreToken(Nobody, AfterMe(j))
    /\ tab' = [tab EXCEPT ![job[j].tab] = SignedOut]
    /\ UNCHANGED <<wallet, signing>>

\* A request fails for another reason: only the first refresh shows it.
Fail(j) ==
    /\ job[j].pc # "idle"
    /\ tab' = IF job[j].pc = "me" /\ tab[job[j].tab].status = "loading"
              THEN [tab EXCEPT ![job[j].tab] = SignedOut] ELSE tab
    /\ job' = End(j)
    /\ UNCHANGED <<wallet, token, signing>>

\* The platform session outlives its 12 hours.
ExpireToken ==
    /\ token # Nobody
    /\ StoreToken(Nobody, job)
    /\ UNCHANGED <<wallet, tab, signing>>

\* loadSigningSession finds the session about to expire, or a node answers 401
\* to a signing request: the session is removed with its identity.
DropSigning(t) ==
    /\ signing[t] # NoSession
    /\ signing' = [signing EXCEPT ![t] = NoSession]
    /\ UNCHANGED <<wallet, token, tab, job>>

\* signOut clears the shared token and this tab's signing session, whether or
\* not the call to the API succeeded.  Nothing running is told.
SignOut(t) ==
    /\ tab[t].status = "in"
    /\ StoreToken(Nobody, job)
    /\ tab' = [tab EXCEPT ![t] = SignedOut]
    /\ signing' = [signing EXCEPT ![t] = NoSession]
    /\ UNCHANGED wallet

----------------------------------------------------------------------------
(* Signing in with a wallet, and provisioning its key                      *)

\* busy disables both buttons while the page is still there.
OnLoginPage(t) ==
    /\ tab[t].status = "out"
    /\ \A j \in Jobs : job[j].tab = t => job[j].pc \notin {"sign", "verify"}

SignInWithWallet(t, j) ==
    /\ job[j].pc = "idle" /\ OnLoginPage(t)
    /\ job' = Start(j, t, "sign", Nobody, "end")
    /\ UNCHANGED <<wallet, token, tab, signing>>

SignMessage(j, p) ==
    /\ job[j].pc = "sign"
    /\ job' = Goto(j, "verify", p)
    /\ UNCHANGED <<wallet, token, tab, signing>>

\* The account is opened, and the login page gives way to the console.
VerifyWallet(j) ==
    /\ job[j].pc = "verify"
    /\ StoreToken(job[j].who, Goto(j, "certify", Nobody))
    /\ tab' = Apply(job[j].tab, job[j].who)
    /\ UNCHANGED <<wallet, signing>>

\* SigningSessionNotice offers this to a wallet user without a session.
RestoreSigning(t, j) ==
    /\ job[j].pc = "idle"
    /\ tab[t].status = "in" /\ tab[t].user \in Wallets
    /\ signing[t] = NoSession \/ tab[t].wallet = Nobody
    /\ job' = Start(j, t, "certify", Nobody, "refresh")
    /\ UNCHANGED <<wallet, token, tab, signing>>

\* The platform certifies whoever the token names.
Certify(j) ==
    /\ job[j].pc = "certify" /\ token # Nobody
    /\ job' = [Goto(j, "keygen", token) EXCEPT ![j].switched = FALSE]
    /\ UNCHANGED <<wallet, token, tab, signing>>

\* The nodes accept the certificate and return the identity's key, old or new.
Keygen(j) ==
    /\ job[j].pc = "keygen"
    /\ signing' = Stored(job[j].tab, job[j].who, job[j].who)
    /\ job' = Goto(j, "record", job[j].who)
    /\ UNCHANGED <<wallet, token, tab>>

\* The row written without the unique index on the wallet's address.
RecordUnindexed(j) ==
    /\ job[j].pc = "record" /\ token # Nobody
    /\ wallet' = [wallet EXCEPT ![token] = job[j].who]
    /\ job' = IF job[j].next = "refresh" THEN Start(j, job[j].tab, "me", token, "end") ELSE End(j)
    /\ UNCHANGED <<token, tab, signing>>

\* The platform derives the wallet from the key and writes it to the row of
\* whoever the token names by now, unless it is another's.
RecordSignetKey(j) ==
    /\ job[j].pc = "record" /\ token # Nobody
    /\ \A p \in People \ {token} : wallet[p] # job[j].who
    /\ wallet' = [wallet EXCEPT ![token] = job[j].who]
    /\ job' = IF job[j].next = "refresh" THEN Start(j, job[j].tab, "me", token, "end") ELSE End(j)
    /\ UNCHANGED <<token, tab, signing>>

----------------------------------------------------------------------------
(* Signing in with Signet                                                  *)

\* The browser leaves for the provider and comes back to the callback page,
\* which waits for the session to load.
SignInWithSignet(t, j) == OnLoginPage(t) /\ Load(t, j, "callback")

\* Proof, session and key, all from the credential: the token plays no part.
Prove(j, p) ==
    /\ job[j].pc = "callback"
    /\ job' = Goto(j, "digest", p)
    /\ UNCHANGED <<wallet, token, tab, signing>>

\* The key is recorded before the session is kept.
VerifyUnstored(j) ==
    /\ job[j].pc = "digest"
    /\ signing' = Stored(job[j].tab, job[j].who, Nobody)
    /\ tab' = Apply(job[j].tab, job[j].who)
    /\ job' = Goto(j, "record", job[j].who)
    /\ UNCHANGED <<wallet, token>>

\* The group signs the challenge with p's key and the platform opens p's account.
VerifySignet(j) ==
    /\ job[j].pc = "digest"
    /\ signing' = Stored(job[j].tab, job[j].who, Nobody)
    /\ StoreToken(job[j].who, Goto(j, "record", job[j].who))
    /\ tab' = Apply(job[j].tab, job[j].who)
    /\ UNCHANGED wallet

----------------------------------------------------------------------------

Provision(j) == Certify(j) \/ Keygen(j) \/ RecordSignetKey(j)

SignIn(j) ==
    \/ VerifyWallet(j) \/ VerifySignet(j)
    \/ \E p \in Wallets : SignMessage(j, p)
    \/ \E p \in Googlers : Prove(j, p)

Click(t) ==
    \/ \E j \in Jobs : \/ Reload(t, j) \/ Refresh(t, j) \/ SignInWithWallet(t, j)
                       \/ SignInWithSignet(t, j) \/ RestoreSigning(t, j)
    \/ SignOut(t) \/ DropSigning(t)

Next ==
    \/ \E t \in Tabs : Click(t)
    \/ \E j \in Jobs : Welcome(j) \/ Refuse(j) \/ Fail(j) \/ Provision(j) \/ SignIn(j)
    \/ ExpireToken

Spec == Init /\ [][Next]_vars

----------------------------------------------------------------------------
(* Properties                                                              *)

\* Two developers never point at the same wallet, although a key may be recorded
\* on the row of whoever signed in last (RecordSignetKey).
OneOwnerPerWallet ==
    \A p, q \in People : wallet[p] = wallet[q] /\ wallet[p] # Nobody => p = q

\* A session opened with a certificate carries its own identity, whatever the
\* tab held before (storeSigningSession).  A session opened with an OAuth proof
\* may carry another's: the reverse does not hold.
CertificateIdentityKept ==
    \A t \in Tabs : signing[t].key \in Wallets => signing[t].identity = signing[t].key

\* A wallet is recorded on the row of somebody who does not hold its key only
\* when the browser changed hands while the key was being provisioned.
RecordedWalletIsOwn ==
    [][\A p \in People :
          wallet'[p] # wallet[p]
             => \/ wallet'[p] = p
                \/ \E j \in Jobs : job[j].pc = "record" /\ job[j].switched
                                    /\ job'[j].pc # "record"]_vars

\* A tab comes to show somebody whom the browser's token does not name only when
\* an answer is late: the token changed hands while it was awaited.
ShowsWhoIsSignedIn ==
    [][\A t \in Tabs :
          (tab'[t].user # tab[t].user /\ tab'[t].user # Nobody)
             => \/ token' = tab'[t].user
                \/ \E j \in Jobs : job[j].pc = "me" /\ job[j].switched
                                    /\ job[j].tab = t /\ job'[j].pc # "me"]_vars

\* A token that is still good goes only by signing out, or by a refusal meant for
\* an earlier one; no other failure signs the browser out.
TokenKeptWhileGood ==
    [][(token # Nobody /\ token' = Nobody)
          => \/ ExpireToken
             \/ \E t \in Tabs : SignOut(t)
             \/ \E j \in Jobs : job[j].pc = "me" /\ job[j].switched /\ job'[j].pc # "me"]_vars
=============================================================================
