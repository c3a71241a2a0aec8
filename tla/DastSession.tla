----------------------------- MODULE DastSession -----------------------------
(***************************************************************************)
(* The one-time DAST session broker.  A workflow job calls it with an OIDC *)
(* token of GitHub and a request; the broker verifies the token against    *)
(* GitHub's keys, which it caches, claims the issuance of the request's    *)
(* key in the database, reads the deployment of the request's head, gets a *)
(* credential, completes the issuance and answers.  Calls interleave,      *)
(* requests to the database and to the target fail or lose their answer,   *)
(* leases lapse and the process restarts.                                  *)
(***************************************************************************)
EXTENDS Naturals, Sequences, FiniteSets, FiniteSetsExt

CONSTANTS
    None,
    Calls,          \* calls of the broker; a call's name stands for its random lease id
    Requests,       \* what a call may ask for
    Jobs,           \* workflow jobs: the claims of the tokens they are given
    Profiles,       \* profile id -> its configuration, None where there is none
    Deployments,    \* what a promotion may deploy: [env, head, origin]
    LeaseTime, CacheTime, FetchTimeout, TokenLife, Margin, StaticLifetime,
    MaxTime, MaxKeys, MaxDeployments    \* bounds

ASSUME DastAssumption ==
    /\ None \notin Calls /\ None \notin Requests /\ None \notin Jobs
    /\ {LeaseTime, CacheTime, FetchTimeout, TokenLife, Margin, StaticLifetime,
        MaxTime, MaxKeys, MaxDeployments} \subseteq Nat
    /\ MaxKeys >= 1 /\ FetchTimeout < CacheTime

VARIABLES
    now,
    published,  \* the signing keys that GitHub publishes
    retiredAt,  \* when each key was withdrawn, None before
    minted,     \* the token of each job: its key and its time, None before
    cache,      \* the broker's copy of the keys
    deployed,   \* accepted deployment evidence, oldest first
    rows,       \* dast_session_issuances
    step,       \* where each call is
    asked,      \* the request and the job of each call
    local       \* what each call holds on to between two steps

vars == <<now, published, retiredAt, minted, cache, deployed, rows, step, asked, local>>
github == <<published, retiredAt, minted>>
world  == <<now, github, deployed>>

Steps == {"idle", "verify", "fetch", "refetch", "claim", "read", "credential",
          "complete", "respond", "release", "answered", "refused"}
Ended == {"answered", "refused"}

\* The fields that make two requests the same issuance.
issuanceKey(r) == [repo |-> r.repo, run |-> r.run, attempt |-> r.attempt, head |-> r.head,
                   scan |-> r.scan, profile |-> r.profile]
IssuanceKeys == {issuanceKey(r) : r \in Requests}
KeyOf(c) == issuanceKey(asked[c].request)

Row == [status : {"leased", "issued"}, lease : Calls, expiresAt : Nat]
ASSUME NoRowAssumption == None \notin Row

EmptyCache == [expiresAt |-> 0, keys |-> {}]

\* What a call holds: the time of its claim, the start and the answer of its request for
\* the keys, and the deployment it found.
Local(issuedAt, current, reply, digest) ==
    [issuedAt |-> issuedAt, current |-> current, reply |-> reply, digest |-> digest]
Nothing == Local(0, 0, None, 0)
Locals == [issuedAt : Nat, current : Nat, digest : Nat,
           reply : (SUBSET (1 .. MaxKeys)) \cup {None}]

Init ==
    /\ now = 0
    /\ published = {1} /\ retiredAt = [k \in 1 .. MaxKeys |-> None]
    /\ minted = [j \in Jobs |-> None]
    /\ cache = EmptyCache
    /\ deployed = <<>>
    /\ rows = [k \in IssuanceKeys |-> None]
    /\ step = [c \in Calls |-> "idle"]
    /\ asked = [c \in Calls |-> None]
    /\ local = [c \in Calls |-> Nothing]

Goto(c, s) == step' = [step EXCEPT ![c] = s]
Keep(c, v) == local' = [local EXCEPT ![c] = v]
Fails(c, s) == Goto(c, s) /\ Keep(c, Nothing)

-----------------------------------------------------------------------------
(* A call arrives, and its token is verified.                              *)

\* The profile is of the request's repository, origin and assertion path.
ProfileAllows(r) == /\ Profiles[r.profile] # None
                    /\ Profiles[r.profile].repo = r.repo
                    /\ Profiles[r.profile].origin = r.origin

\* The token of a job that has one accompanies the request; the repository is active
\* or not when it is looked up.
issue(c, r, j, active) ==
    /\ step[c] = "idle" /\ minted[j] # None
    /\ asked' = [asked EXCEPT ![c] = [request |-> r, job |-> j]]
    /\ Goto(c, IF ProfileAllows(r) /\ active THEN "verify" ELSE "refused")
    /\ UNCHANGED <<world, cache, rows, local>>

TokenOf(c) == minted[asked[c].job]

\* The token is neither expired nor of the future.
TimelyToken(c) == /\ TokenOf(c).iat + TokenLife > now
                  /\ TokenOf(c).iat <= now

\* The job is the DAST job of the trusted workflow in the run, the attempt and the
\* commit that the request names, and its event suits the scan.
IdentityWithoutAttempt(r, j) ==
    /\ j.trusted
    /\ j.repo = r.repo /\ j.run = r.run /\ j.head = r.head
    /\ j.event \in (IF r.scan = "authenticated-full" THEN {"schedule"}
                    ELSE {"schedule", "workflow_dispatch"})
validateOidcIdentity(r, j) ==
    /\ j.trusted
    /\ j.repo = r.repo /\ j.run = r.run /\ j.attempt = r.attempt /\ j.head = r.head
    /\ j.event \in (IF r.scan = "authenticated-full" THEN {"schedule"}
                    ELSE {"schedule", "workflow_dispatch"})

\* The signature is good; the claim is prepared with the time of now.
Verified(c) ==
    IF TimelyToken(c) /\ validateOidcIdentity(asked[c].request, asked[c].job)
    THEN Goto(c, "claim") /\ Keep(c, Local(now, 0, None, 0))
    ELSE Fails(c, "refused")

\* A request for GitHub's keys starts; its time is taken before it is sent.
StartFetch(c, s) == Goto(c, s) /\ Keep(c, Local(0, now, None, 0))

\* Keys from the cache while it is fresh; a key that is not among them is asked for.
loadJwks(c) ==
    /\ step[c] = "verify"
    /\ IF cache.expiresAt > now
       THEN IF TokenOf(c).kid \in cache.keys THEN Verified(c) ELSE StartFetch(c, "refetch")
       ELSE StartFetch(c, "fetch")
    /\ UNCHANGED <<world, cache, rows, asked>>

\* GitHub serves the keys it publishes at that moment.
keysServed(c) ==
    /\ step[c] \in {"fetch", "refetch"} /\ local[c].reply = None
    /\ Keep(c, Local(0, local[c].current, published, 0))
    /\ UNCHANGED <<world, cache, rows, step, asked>>

\* The answer arrives in time and replaces the cache.
CachedUntilAfterReply(c) == now + CacheTime
CachedUntil(c) == local[c].current + CacheTime
keysLoaded(c) ==
    /\ step[c] \in {"fetch", "refetch"} /\ local[c].reply # None
    /\ now <= local[c].current + FetchTimeout
    /\ cache' = [expiresAt |-> CachedUntil(c), keys |-> local[c].reply]
    /\ IF TokenOf(c).kid \in local[c].reply THEN Verified(c)
       ELSE IF step[c] = "fetch" THEN StartFetch(c, "refetch") ELSE Fails(c, "refused")
    /\ UNCHANGED <<world, rows, asked>>

keysUnavailable(c) ==
    /\ step[c] \in {"fetch", "refetch"}
    /\ Fails(c, "refused")
    /\ UNCHANGED <<world, cache, rows, asked>>

-----------------------------------------------------------------------------
(* The issuance is claimed, completed or released in the database.         *)

\* A new row, or a lapsed lease taken over.
Claimable(k, leasedAt) ==
    IF rows[k] = None THEN TRUE
    ELSE rows[k].status = "leased" /\ rows[k].expiresAt <= leasedAt

claimDastSessionIssuance(c, acknowledged) ==
    /\ step[c] = "claim"
    /\ IF Claimable(KeyOf(c), local[c].issuedAt)
       THEN /\ rows' = [rows EXCEPT ![KeyOf(c)] =
                          [status |-> "leased", lease |-> c,
                           expiresAt |-> local[c].issuedAt + LeaseTime]]
            /\ IF acknowledged THEN Goto(c, "read") /\ UNCHANGED local ELSE Fails(c, "refused")
       ELSE Fails(c, "refused") /\ UNCHANGED rows
    /\ UNCHANGED <<world, cache, asked>>

\* The newest evidence of the environment at this head, 0 if there is none.
Newest(env, heads) ==
    Max({0} \cup {i \in DOMAIN deployed : deployed[i].env = env /\ deployed[i].head \in heads})

getSuccessfulDeploymentEvidence(c) ==
    /\ step[c] = "read"
    /\ LET r == asked[c].request
           i == Newest(Profiles[r.profile].env, {r.head})
       IN  IF i \in DOMAIN deployed /\ deployed[i].origin = Profiles[r.profile].origin
           THEN /\ Goto(c, "credential")
                /\ Keep(c, Local(local[c].issuedAt, 0, None, i))
           ELSE Fails(c, "release")
    /\ UNCHANGED <<world, cache, rows, asked>>

\* When the credential may expire: as the target says, within the approved range from
\* the arrival of its answer, or as configured for a static one, from the claim.
Expiries(profile, issuedAt) ==
    IF profile.mode = "exchange"
    THEN {t \in now .. now + profile.ttl : t > now + Margin}
    ELSE {t \in {profile.expiresAt} : t > issuedAt + Margin /\ t <= issuedAt + StaticLifetime}

exchangeCredential(c) ==
    /\ step[c] = "credential"
    /\ Expiries(Profiles[asked[c].request.profile], local[c].issuedAt) # {}
    /\ Goto(c, "complete")
    /\ Keep(c, Local(0, 0, None, local[c].digest))
    /\ UNCHANGED <<world, cache, rows, asked>>

\* The deployment cannot be read, the target is unavailable or refuses, or its answer
\* or the static credential is not acceptable.
credentialFails(c) ==
    /\ step[c] \in {"read", "credential"}
    /\ Fails(c, "release")
    /\ UNCHANGED <<world, cache, rows, asked>>

HeldBy(c) == IF rows[KeyOf(c)] = None THEN FALSE ELSE rows[KeyOf(c)].lease = c
LeasedBy(c) ==
    IF rows[KeyOf(c)] = None THEN FALSE
    ELSE rows[KeyOf(c)].status = "leased" /\ rows[KeyOf(c)].lease = c

completeDastSessionIssuance(c, acknowledged) ==
    /\ step[c] = "complete"
    /\ IF LeasedBy(c)
       THEN /\ rows' = [rows EXCEPT ![KeyOf(c)].status = "issued", ![KeyOf(c)].lease = c]
            /\ IF acknowledged THEN Goto(c, "respond") /\ UNCHANGED local
               ELSE Fails(c, "release")
       ELSE /\ Fails(c, "release")
            /\ UNCHANGED rows
    /\ UNCHANGED <<world, cache, asked>>

respond(c) ==
    /\ step[c] = "respond"
    /\ Goto(c, "answered")
    /\ UNCHANGED <<world, cache, rows, asked, local>>

\* After a failure the call's own lease is deleted; a failure to do so is ignored.
releaseDastSessionIssuance(c, reached) ==
    /\ step[c] = "release"
    /\ rows' = IF reached /\ LeasedBy(c) THEN [rows EXCEPT ![KeyOf(c)] = None] ELSE rows
    /\ Fails(c, "refused")
    /\ UNCHANGED <<world, cache, asked>>

\* The process restarts: it forgets its calls and its cache.
restart ==
    /\ \E c \in Calls : step[c] \notin {"idle"} \cup Ended
    /\ cache' = EmptyCache
    /\ step' = [c \in Calls |-> IF step[c] \in {"idle"} \cup Ended THEN step[c] ELSE "refused"]
    /\ local' = [c \in Calls |-> IF step[c] = "answered" THEN local[c] ELSE Nothing]
    /\ UNCHANGED <<world, rows, asked>>

-----------------------------------------------------------------------------
(* The world around the broker.                                            *)

NewestKey(k) == k \in published /\ \A l \in published : l <= k

\* GitHub gives a job a token signed with its newest key.
mintToken(j, k) ==
    /\ minted[j] = None /\ NewestKey(k)
    /\ minted' = [minted EXCEPT ![j] = [kid |-> k, iat |-> now]]
    /\ UNCHANGED <<now, published, retiredAt, cache, deployed, rows, step, asked, local>>

\* GitHub publishes a new key, and later withdraws the old one.
rotateKey(k) ==
    /\ \A l \in published : l < k
    /\ published' = published \cup {k}
    /\ UNCHANGED <<now, retiredAt, minted, cache, deployed, rows, step, asked, local>>

withdrawKey(k) ==
    /\ k \in published /\ ~NewestKey(k)
    /\ published' = published \ {k}
    /\ retiredAt' = [retiredAt EXCEPT ![k] = now]
    /\ UNCHANGED <<now, minted, cache, deployed, rows, step, asked, local>>

\* A promotion of the default branch is confirmed and its evidence accepted.
recordDeployment(d) ==
    /\ Len(deployed) < MaxDeployments
    /\ deployed' = Append(deployed, d)
    /\ UNCHANGED <<now, github, cache, rows, step, asked, local>>

Tick == /\ now < MaxTime
        /\ now' = now + 1
        /\ UNCHANGED <<github, cache, deployed, rows, step, asked, local>>

CallStep(c) ==
    \/ \E r \in Requests, j \in Jobs, active \in BOOLEAN : issue(c, r, j, active)
    \/ loadJwks(c) \/ keysServed(c) \/ keysLoaded(c) \/ keysUnavailable(c)
    \/ \E ok \in BOOLEAN : \/ claimDastSessionIssuance(c, ok)
                           \/ completeDastSessionIssuance(c, ok)
                           \/ releaseDastSessionIssuance(c, ok)
    \/ getSuccessfulDeploymentEvidence(c) \/ exchangeCredential(c) \/ credentialFails(c)
    \/ respond(c)

Next == \/ \E c \in Calls : CallStep(c)
        \/ restart \/ Tick
        \/ \E k \in 1 .. MaxKeys : \/ rotateKey(k) \/ withdrawKey(k)
                                   \/ \E j \in Jobs : mintToken(j, k)
        \/ \E d \in Deployments : recordDeployment(d)

Spec == Init /\ [][Next]_vars

-----------------------------------------------------------------------------
(* Properties.                                                             *)

\* The types of the state.
TypeOK ==
    /\ now \in Nat
    /\ published \in SUBSET (1 .. MaxKeys)
    /\ retiredAt \in [1 .. MaxKeys -> Nat \cup {None}]
    /\ minted \in [Jobs -> [kid : 1 .. MaxKeys, iat : Nat] \cup {None}]
    /\ cache \in [expiresAt : Nat, keys : SUBSET (1 .. MaxKeys)]
    /\ deployed \in Seq(Deployments)
    /\ rows \in [IssuanceKeys -> Row \cup {None}]
    /\ step \in [Calls -> Steps]
    /\ asked \in [Calls -> [request : Requests, job : Jobs] \cup {None}]
    /\ local \in [Calls -> Locals]

\* The broker implements the one-time promise: a key is granted by the commit of a
\* completion, never again whatever lapses, is released, retried or restarted, and only
\* the call whose lease that commit named is answered.
Granted == [k \in IssuanceKeys |->
              IF rows[k] = None THEN None
              ELSE IF rows[k].status = "issued" THEN rows[k].lease ELSE None]
Answered == {c \in Calls : step[c] = "answered"}
Promise == INSTANCE OneSession WITH granted <- Granted, answered <- Answered
ImplementsOneSession == Promise!Spec

\* One job of a workflow run never gets two sessions of the same profile and scan: the
\* issuance is keyed by what the request says, and the token ties that to the job.
OneSessionPerJob ==
    \A c, d \in Answered :
        (/\ asked[c].job = asked[d].job
         /\ asked[c].request.profile = asked[d].request.profile
         /\ asked[c].request.scan = asked[d].request.scan) => c = d

\* A token is only accepted if its key was still published within the last CacheTime,
\* although answers for the keys may arrive late and overwrite newer ones.
RetiredKeyIsRefused ==
    [][\A c \in Calls :
         (step[c] # "claim" /\ step'[c] = "claim") =>
            \/ retiredAt[TokenOf(c).kid] = None
            \/ now < retiredAt[TokenOf(c).kid] + CacheTime]_vars

\* docs/dast.md: the evidence proves that the head is active in the environment.
SessionIsOfTheLiveDeployment ==
    [][\A c \in Calls :
         (step[c] = "read" /\ step'[c] = "credential") =>
            local'[c].digest = Newest(Profiles[asked[c].request.profile].env,
                                      {d.head : d \in Deployments})]_vars
=============================================================================
