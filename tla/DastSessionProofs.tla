-------------------------- MODULE DastSessionProofs --------------------------
(***************************************************************************)
(* Proofs about the DAST session broker: for any calls, requests, jobs and *)
(* bounds it implements the one-time promise, gives one job one session,   *)
(* and refuses keys that were withdrawn a cache period ago.                *)
(***************************************************************************)
EXTENDS DastSession, TLAPS

-----------------------------------------------------------------------------
(* The inductive invariant.                                                *)

\* A call that has started has a request and a job.
AskedOK == \A c \in Calls : step[c] # "idle" => asked[c] \in [request : Requests, job : Jobs]

\* A call whose completion was acknowledged was granted its key, for good.
Fence == \A c \in Calls : step[c] \in {"respond", "answered"} => Granted[KeyOf(c)] = c

\* A call past the verification has a token of the job its request names.
Identified == \A c \in Calls :
    step[c] \in {"claim", "read", "credential", "complete", "respond", "answered"} =>
        validateOidcIdentity(asked[c].request, asked[c].job)

\* A withdrawn key is not published, and is older than some published key.
RetiredIsOld == \A k \in 1 .. MaxKeys :
    retiredAt[k] # None => k \notin published /\ \E l \in published : k < l

\* The keys in the cache were published until a cache period before it expires, and so
\* were those of an answer that is under way.
CacheHonest ==
    /\ cache.expiresAt <= now + CacheTime
    /\ \A k \in cache.keys : retiredAt[k] = None \/ cache.expiresAt <= retiredAt[k] + CacheTime
ReplyHonest == \A c \in Calls :
    step[c] \in {"fetch", "refetch"} =>
        /\ local[c].current <= now
        /\ local[c].reply # None =>
             /\ local[c].reply \in SUBSET (1 .. MaxKeys)
             /\ \A k \in local[c].reply : retiredAt[k] = None \/ local[c].current <= retiredAt[k]

KeysOK == RetiredIsOld /\ CacheHonest /\ ReplyHonest
IInv == TypeOK /\ AskedOK /\ Fence /\ Identified /\ KeysOK

LEMMA LocalType ==
    ASSUME NEW a \in Nat, NEW b \in Nat, NEW r \in (SUBSET (1 .. MaxKeys)) \cup {None}, NEW d \in Nat
    PROVE  Local(a, b, r, d) \in Locals
BY DEF Local, Locals

LEMMA LocalFields ==
    ASSUME NEW a, NEW b, NEW r, NEW d
    PROVE  /\ Local(a, b, r, d).issuedAt = a /\ Local(a, b, r, d).current = b
           /\ Local(a, b, r, d).reply = r /\ Local(a, b, r, d).digest = d
BY DEF Local

LEMMA NothingType == Nothing \in Locals
BY LocalType DEF Nothing

LEMMA KeyOfType ==
    ASSUME TypeOK, AskedOK, NEW c \in Calls, step[c] # "idle"
    PROVE  /\ KeyOf(c) \in IssuanceKeys
           /\ asked[c].request \in Requests /\ asked[c].job \in Jobs
BY DEF TypeOK, AskedOK, KeyOf, IssuanceKeys

-----------------------------------------------------------------------------
(* Types.                                                                  *)

LEMMA GotoKeep ==
    ASSUME TypeOK, NEW c \in Calls, NEW s \in Steps, NEW v \in Locals, Goto(c, s), Keep(c, v)
    PROVE  step' \in [Calls -> Steps] /\ local' \in [Calls -> Locals]
BY DEF TypeOK, Goto, Keep

LEMMA FailsType ==
    ASSUME TypeOK, NEW c \in Calls, NEW s \in Steps, Fails(c, s)
    PROVE  step' \in [Calls -> Steps] /\ local' \in [Calls -> Locals]
BY NothingType, GotoKeep DEF Fails

LEMMA VerifiedType ==
    ASSUME TypeOK, NEW c \in Calls, Verified(c)
    PROVE  step' \in [Calls -> Steps] /\ local' \in [Calls -> Locals]
<1>1. CASE Goto(c, "claim") /\ Keep(c, Local(now, 0, None, 0))
  <2>1. Local(now, 0, None, 0) \in Locals BY LocalType DEF TypeOK
  <2> QED BY <1>1, <2>1, GotoKeep DEF Steps
<1>2. CASE Fails(c, "refused") BY <1>2, FailsType DEF Steps
<1> QED BY <1>1, <1>2 DEF Verified

LEMMA StartFetchType ==
    ASSUME TypeOK, NEW c \in Calls, NEW s \in Steps, StartFetch(c, s)
    PROVE  step' \in [Calls -> Steps] /\ local' \in [Calls -> Locals]
<1>1. Local(0, now, None, 0) \in Locals BY LocalType DEF TypeOK
<1> QED BY <1>1, GotoKeep DEF StartFetch

\* Actions of a call that leave the database alone.
LEMMA CallType ==
    ASSUME IInv, NEW c \in Calls,
           \/ \E r \in Requests, j \in Jobs, active \in BOOLEAN : issue(c, r, j, active)
           \/ loadJwks(c) \/ keysServed(c) \/ keysUnavailable(c)
           \/ getSuccessfulDeploymentEvidence(c) \/ exchangeCredential(c) \/ credentialFails(c)
           \/ respond(c)
    PROVE  TypeOK'
<1> USE DEF IInv
<1>1. ASSUME NEW r \in Requests, NEW j \in Jobs, NEW active \in BOOLEAN, issue(c, r, j, active)
      PROVE  TypeOK'
  BY <1>1 DEF TypeOK, issue, Goto, Steps, world, github
<1>2. CASE loadJwks(c)
  <2>1. step' \in [Calls -> Steps] /\ local' \in [Calls -> Locals]
    BY <1>2, VerifiedType, StartFetchType DEF loadJwks, Steps
  <2> QED BY <1>2, <2>1 DEF TypeOK, loadJwks, world, github
<1>3. CASE keysServed(c)
  <2>1. Local(0, local[c].current, published, 0) \in Locals
    BY LocalType DEF TypeOK, Locals
  <2> QED BY <1>3, <2>1 DEF TypeOK, keysServed, Keep, world, github
<1>4. CASE keysUnavailable(c)
  <2>1. step' \in [Calls -> Steps] /\ local' \in [Calls -> Locals]
    BY <1>4, FailsType DEF keysUnavailable, Steps
  <2> QED BY <1>4, <2>1 DEF TypeOK, keysUnavailable, world, github
<1>5. CASE getSuccessfulDeploymentEvidence(c)
  <2>1. step' \in [Calls -> Steps] /\ local' \in [Calls -> Locals]
    <3> DEFINE i == Newest(Profiles[asked[c].request.profile].env, {asked[c].request.head})
               l == Local(local[c].issuedAt, 0, None, i)
    <3>1. CASE i \in DOMAIN deployed /\ Goto(c, "credential") /\ Keep(c, l)
      <4>1. i \in Nat BY <3>1 DEF TypeOK
      <4>2. l \in Locals BY <4>1, LocalType DEF TypeOK, Locals
      <4> HIDE DEF l, i
      <4> QED BY <3>1, <4>2, GotoKeep DEF Steps
    <3>2. CASE Fails(c, "release") BY <3>2, FailsType DEF Steps
    <3>3. (i \in DOMAIN deployed /\ Goto(c, "credential") /\ Keep(c, l)) \/ Fails(c, "release")
      BY <1>5 DEF getSuccessfulDeploymentEvidence
    <3> QED BY <3>1, <3>2, <3>3
  <2> QED BY <1>5, <2>1 DEF TypeOK, getSuccessfulDeploymentEvidence, world, github
<1>6. CASE exchangeCredential(c)
  <2>1. Local(0, 0, None, local[c].digest) \in Locals BY LocalType DEF TypeOK, Locals
  <2>2. step' \in [Calls -> Steps] /\ local' \in [Calls -> Locals]
    BY <1>6, <2>1, GotoKeep DEF exchangeCredential, Steps
  <2> QED BY <1>6, <2>2 DEF TypeOK, exchangeCredential, world, github
<1>7. CASE credentialFails(c)
  <2>1. step' \in [Calls -> Steps] /\ local' \in [Calls -> Locals]
    BY <1>7, FailsType DEF credentialFails, Steps
  <2> QED BY <1>7, <2>1 DEF TypeOK, credentialFails, world, github
<1>8. CASE respond(c) BY <1>8 DEF TypeOK, respond, Goto, Steps, world, github
<1> QED BY <1>1, <1>2, <1>3, <1>4, <1>5, <1>6, <1>7, <1>8

LEMMA KeysLoadedType ==
    ASSUME IInv, NEW c \in Calls, keysLoaded(c)
    PROVE  TypeOK'
<1> USE DEF IInv
<1>1. step' \in [Calls -> Steps] /\ local' \in [Calls -> Locals]
  BY VerifiedType, StartFetchType, FailsType DEF keysLoaded, Steps
<1>2. cache' \in [expiresAt : Nat, keys : SUBSET (1 .. MaxKeys)]
  <2>1. step[c] \in {"fetch", "refetch"} /\ local[c].reply # None BY DEF keysLoaded
  <2>2. local[c].reply \in SUBSET (1 .. MaxKeys) BY <2>1 DEF KeysOK, ReplyHonest
  <2>3. CachedUntil(c) \in Nat BY DastAssumption DEF CachedUntil, TypeOK, Locals
  <2> QED BY <2>2, <2>3 DEF keysLoaded
<1> QED BY <1>1, <1>2 DEF TypeOK, keysLoaded, world, github

\* The statements of the database keep it a table of rows.
LEMMA DatabaseType ==
    ASSUME IInv, NEW c \in Calls, NEW ok \in BOOLEAN,
           \/ claimDastSessionIssuance(c, ok) \/ completeDastSessionIssuance(c, ok)
           \/ releaseDastSessionIssuance(c, ok)
    PROVE  TypeOK'
<1> USE DEF IInv
<1>k. KeyOf(c) \in IssuanceKeys
  BY KeyOfType DEF claimDastSessionIssuance, completeDastSessionIssuance, releaseDastSessionIssuance
<1> DEFINE k == KeyOf(c)
<1>1. CASE claimDastSessionIssuance(c, ok)
  <2> DEFINE row == [status |-> "leased", lease |-> c, expiresAt |-> local[c].issuedAt + LeaseTime]
  <2>1. row \in Row BY DastAssumption DEF Row, TypeOK, Locals
  <2>2. rows' = [rows EXCEPT ![k] = row] \/ rows' = rows BY <1>1 DEF claimDastSessionIssuance
  <2> HIDE DEF row, k
  <2>3. rows' \in [IssuanceKeys -> Row \cup {None}] BY <2>1, <2>2 DEF TypeOK
  <2>4. step' \in [Calls -> Steps] /\ local' \in [Calls -> Locals]
    <3>1. CASE Goto(c, "read") /\ UNCHANGED local BY <3>1 DEF Goto, Steps, TypeOK
    <3>2. CASE Fails(c, "refused") BY <3>2, FailsType DEF Steps
    <3> QED BY <1>1, <3>1, <3>2 DEF claimDastSessionIssuance
  <2> QED BY <1>1, <2>3, <2>4 DEF TypeOK, claimDastSessionIssuance, world, github
<1>2. CASE completeDastSessionIssuance(c, ok)
  <2> DEFINE row == [status |-> "issued", lease |-> c, expiresAt |-> rows[k].expiresAt]
  <2>1. rows' \in [IssuanceKeys -> Row \cup {None}]
    <3>1. CASE LeasedBy(c)
      <4>1. rows[k] \in Row BY <3>1, <1>k DEF LeasedBy, TypeOK
      <4>2. row \in Row BY <4>1 DEF Row
      <4>3. rows' = [rows EXCEPT ![k] = row]
        BY <1>2, <3>1, <4>1, <1>k DEF completeDastSessionIssuance, TypeOK, Row
      <4> HIDE DEF row, k
      <4> QED BY <4>2, <4>3 DEF TypeOK
    <3>2. CASE ~LeasedBy(c) BY <1>2, <3>2 DEF completeDastSessionIssuance, TypeOK
    <3> QED BY <3>1, <3>2
  <2>2. step' \in [Calls -> Steps] /\ local' \in [Calls -> Locals]
    <3>1. CASE Goto(c, "respond") /\ UNCHANGED local BY <3>1 DEF Goto, Steps, TypeOK
    <3>2. CASE Fails(c, "release") BY <3>2, FailsType DEF Steps
    <3> QED BY <1>2, <3>1, <3>2 DEF completeDastSessionIssuance
  <2> QED BY <1>2, <2>1, <2>2 DEF TypeOK, completeDastSessionIssuance, world, github
<1>3. CASE releaseDastSessionIssuance(c, ok)
  <2>1. rows' \in [IssuanceKeys -> Row \cup {None}]
    BY <1>3, <1>k DEF releaseDastSessionIssuance, TypeOK
  <2>2. step' \in [Calls -> Steps] /\ local' \in [Calls -> Locals]
    BY <1>3, FailsType DEF releaseDastSessionIssuance, Steps
  <2> QED BY <1>3, <2>1, <2>2 DEF TypeOK, releaseDastSessionIssuance, world, github
<1> QED BY <1>1, <1>2, <1>3

\* Steps of the world, and the restart.
WorldStep == \/ Tick
             \/ \E k \in 1 .. MaxKeys : \/ rotateKey(k) \/ withdrawKey(k)
                                       \/ \E j \in Jobs : mintToken(j, k)
             \/ \E d \in Deployments : recordDeployment(d)

LEMMA WorldType ==
    ASSUME TypeOK, WorldStep \/ restart
    PROVE  TypeOK'
<1>1. CASE Tick BY <1>1 DEF TypeOK, Tick, github
<1>2. ASSUME NEW k \in 1 .. MaxKeys, rotateKey(k) PROVE TypeOK'
  BY <1>2 DEF TypeOK, rotateKey
<1>3. ASSUME NEW k \in 1 .. MaxKeys, withdrawKey(k) PROVE TypeOK'
  BY <1>3 DEF TypeOK, withdrawKey
<1>4. ASSUME NEW k \in 1 .. MaxKeys, NEW j \in Jobs, mintToken(j, k) PROVE TypeOK'
  BY <1>4 DEF TypeOK, mintToken
<1>5. ASSUME NEW d \in Deployments, recordDeployment(d) PROVE TypeOK'
  BY <1>5 DEF TypeOK, recordDeployment, github
<1>6. CASE restart
  <2>1. step' \in [Calls -> Steps] BY <1>6 DEF TypeOK, restart, Steps
  <2>2. local' \in [Calls -> Locals] BY <1>6, NothingType DEF TypeOK, restart
  <2> QED BY <1>6, <2>1, <2>2 DEF TypeOK, restart, EmptyCache, world, github
<1> QED BY <1>1, <1>2, <1>3, <1>4, <1>5, <1>6 DEF WorldStep

LEMMA StepSplit == Next => WorldStep \/ restart \/ \E c \in Calls : CallStep(c)
BY DEF Next, WorldStep

-----------------------------------------------------------------------------
(* What a step of one call leaves alone.                                   *)

LEMMA CallFrame ==
    ASSUME TypeOK, NEW c \in Calls, CallStep(c)
    PROVE  /\ UNCHANGED world
           /\ \A d \in Calls \ {c} : /\ step'[d] = step[d] /\ asked'[d] = asked[d]
                                      /\ local'[d] = local[d]
           /\ step[c] # "idle" => UNCHANGED asked
           /\ step'[c] # "idle"
<1> USE DEF TypeOK, Goto, Keep, Fails
<1>1. ASSUME NEW r \in Requests, NEW j \in Jobs, NEW active \in BOOLEAN, issue(c, r, j, active)
      PROVE  /\ UNCHANGED <<world, local>> /\ step[c] = "idle" /\ step'[c] # "idle"
             /\ \A d \in Calls \ {c} : step'[d] = step[d] /\ asked'[d] = asked[d]
  BY <1>1 DEF issue
<1>2. CASE loadJwks(c) BY <1>2 DEF loadJwks, Verified, StartFetch
<1>3. CASE keysServed(c) BY <1>3 DEF keysServed
<1>4. CASE keysLoaded(c) BY <1>4 DEF keysLoaded, Verified, StartFetch
<1>5. CASE keysUnavailable(c) BY <1>5 DEF keysUnavailable
<1>6. ASSUME NEW ok \in BOOLEAN, claimDastSessionIssuance(c, ok)
      PROVE  /\ UNCHANGED <<world, asked>> /\ step'[c] # "idle"
             /\ \A d \in Calls \ {c} : step'[d] = step[d] /\ local'[d] = local[d]
  BY <1>6 DEF claimDastSessionIssuance
<1>7. ASSUME NEW ok \in BOOLEAN, completeDastSessionIssuance(c, ok)
      PROVE  /\ UNCHANGED <<world, asked>> /\ step'[c] # "idle"
             /\ \A d \in Calls \ {c} : step'[d] = step[d] /\ local'[d] = local[d]
  BY <1>7 DEF completeDastSessionIssuance
<1>8. ASSUME NEW ok \in BOOLEAN, releaseDastSessionIssuance(c, ok)
      PROVE  /\ UNCHANGED <<world, asked>> /\ step'[c] # "idle"
             /\ \A d \in Calls \ {c} : step'[d] = step[d] /\ local'[d] = local[d]
  BY <1>8 DEF releaseDastSessionIssuance
<1>9. CASE getSuccessfulDeploymentEvidence(c) BY <1>9 DEF getSuccessfulDeploymentEvidence
<1>10. CASE exchangeCredential(c) BY <1>10 DEF exchangeCredential
<1>11. CASE credentialFails(c) BY <1>11 DEF credentialFails
<1>12. CASE respond(c) BY <1>12 DEF respond
<1> HIDE DEF TypeOK, Goto, Keep, Fails
<1> QED BY <1>1, <1>2, <1>3, <1>4, <1>5, <1>6, <1>7, <1>8, <1>9, <1>10, <1>11, <1>12 DEF CallStep

LEMMA TypeStep ==
    ASSUME IInv, [Next]_vars
    PROVE  TypeOK'
<1>1. CASE UNCHANGED vars BY <1>1 DEF vars, TypeOK, IInv
<1>2. ASSUME NEW c \in Calls, CallStep(c) PROVE TypeOK'
  BY <1>2, CallType, KeysLoadedType, DatabaseType DEF CallStep
<1>3. CASE WorldStep \/ restart BY <1>3, WorldType DEF IInv
<1> QED BY <1>1, <1>2, <1>3, StepSplit

LEMMA AskedStep ==
    ASSUME IInv, [Next]_vars, TypeOK'
    PROVE  AskedOK'
<1> USE DEF IInv
<1>1. CASE UNCHANGED vars BY <1>1 DEF vars, AskedOK
<1>2. ASSUME NEW c \in Calls, CallStep(c) PROVE AskedOK'
  <2>1. ASSUME NEW d \in Calls, step'[d] # "idle" PROVE asked'[d] \in [request : Requests, job : Jobs]
    <3>1. CASE d # c BY <1>2, <2>1, <3>1, CallFrame DEF AskedOK
    <3>2. CASE d = c /\ step[c] # "idle" BY <1>2, <3>2, CallFrame DEF AskedOK
    <3>3. CASE d = c /\ step[c] = "idle"
      <4>1. PICK r \in Requests, j \in Jobs, active \in BOOLEAN : issue(c, r, j, active)
        BY <1>2, <3>3 DEF CallStep, loadJwks, keysServed, keysLoaded, keysUnavailable,
            claimDastSessionIssuance, completeDastSessionIssuance, releaseDastSessionIssuance,
            getSuccessfulDeploymentEvidence, exchangeCredential, credentialFails, respond
      <4> QED BY <3>3, <4>1 DEF issue, TypeOK
    <3> QED BY <3>1, <3>2, <3>3
  <2> QED BY <2>1 DEF AskedOK
<1>3. CASE WorldStep
  BY <1>3 DEF WorldStep, AskedOK, Tick, rotateKey, withdrawKey, mintToken, recordDeployment
<1>4. CASE restart BY <1>4 DEF AskedOK, restart, TypeOK
<1> QED BY <1>1, <1>2, <1>3, <1>4, StepSplit

-----------------------------------------------------------------------------
(* Grants: only the commit of a completion makes one, and none is undone.  *)

GrantOf(row) == IF row = None THEN None ELSE IF row.status = "issued" THEN row.lease ELSE None

LEMMA GrantedIs == Granted = [k \in IssuanceKeys |-> GrantOf(rows[k])]
BY DEF Granted, GrantOf

LEMMA GrantedUpdate ==
    ASSUME TypeOK, NEW k \in IssuanceKeys, NEW row, rows' = [rows EXCEPT ![k] = row]
    PROVE  Granted' = [Granted EXCEPT ![k] = GrantOf(row)]
<1>1. Granted' = [l \in IssuanceKeys |-> GrantOf(rows'[l])] BY DEF Granted, GrantOf
<1>2. \A l \in IssuanceKeys : rows'[l] = IF l = k THEN row ELSE rows[l] BY DEF TypeOK
<1>3. \A l \in IssuanceKeys : GrantOf(rows'[l]) = IF l = k THEN GrantOf(row) ELSE GrantOf(rows[l])
  BY <1>2
<1> HIDE DEF GrantOf
<1> QED BY <1>1, <1>3, GrantedIs

LEMMA GrantedKept ==
    ASSUME TypeOK, NEW k \in IssuanceKeys, NEW row, rows' = [rows EXCEPT ![k] = row],
           GrantOf(row) = GrantOf(rows[k])
    PROVE  Granted' = Granted
<1>1. Granted' = [Granted EXCEPT ![k] = GrantOf(row)] BY GrantedUpdate
<1> HIDE DEF GrantOf
<1>2. Granted[k] = GrantOf(row) BY GrantedIs
<1> QED BY <1>1, <1>2, GrantedIs

LEMMA ClaimGrantsNothing ==
    ASSUME IInv, NEW c \in Calls, NEW ok \in BOOLEAN, claimDastSessionIssuance(c, ok)
    PROVE  Granted' = Granted
<1> DEFINE k   == KeyOf(c)
           row == [status |-> "leased", lease |-> c, expiresAt |-> local[c].issuedAt + LeaseTime]
<1>1. k \in IssuanceKeys BY KeyOfType DEF IInv, claimDastSessionIssuance
<1>2. GrantOf(row) = None BY DEF GrantOf
<1>3. CASE Claimable(k, local[c].issuedAt)
  <2>1. rows' = [rows EXCEPT ![k] = row] BY <1>3 DEF claimDastSessionIssuance
  <2>2. GrantOf(rows[k]) = None BY <1>3 DEF Claimable, GrantOf
  <2> HIDE DEF row, k
  <2> QED BY <1>1, <1>2, <2>1, <2>2, GrantedKept DEF IInv
<1>4. CASE ~Claimable(k, local[c].issuedAt)
  <2>1. rows' = rows BY <1>4 DEF claimDastSessionIssuance
  <2> QED BY <2>1 DEF Granted
<1> QED BY <1>3, <1>4

LEMMA ReleaseGrantsNothing ==
    ASSUME IInv, NEW c \in Calls, NEW ok \in BOOLEAN, releaseDastSessionIssuance(c, ok)
    PROVE  Granted' = Granted
<1> DEFINE k == KeyOf(c)
<1>1. k \in IssuanceKeys BY KeyOfType DEF IInv, releaseDastSessionIssuance
<1>2. CASE ok /\ LeasedBy(c)
  <2>1. rows' = [rows EXCEPT ![k] = None] BY <1>2 DEF releaseDastSessionIssuance
  <2>2. GrantOf(rows[k]) = None /\ GrantOf(None) = None BY <1>2 DEF LeasedBy, GrantOf
  <2> HIDE DEF k
  <2> QED BY <1>1, <2>1, <2>2, GrantedKept DEF IInv
<1>3. CASE ~(ok /\ LeasedBy(c))
  <2>1. rows' = rows BY <1>3 DEF releaseDastSessionIssuance
  <2> QED BY <2>1 DEF Granted
<1> QED BY <1>2, <1>3

LEMMA CompleteGrants ==
    ASSUME IInv, NEW c \in Calls, NEW ok \in BOOLEAN, completeDastSessionIssuance(c, ok)
    PROVE  \/ Granted' = Granted /\ step'[c] = "release"
           \/ /\ Granted[KeyOf(c)] = None /\ Granted' = [Granted EXCEPT ![KeyOf(c)] = c]
              /\ step'[c] \in {"respond", "release"}
<1> DEFINE k   == KeyOf(c)
           row == [status |-> "issued", lease |-> c, expiresAt |-> rows[k].expiresAt]
<1>1. k \in IssuanceKeys BY KeyOfType DEF IInv, completeDastSessionIssuance
<1>2. CASE LeasedBy(c)
  <2>1. rows[k] \in Row /\ GrantOf(rows[k]) = None
    BY <1>1, <1>2 DEF LeasedBy, GrantOf, IInv, TypeOK
  <2>2. row \in Row /\ row.status = "issued" /\ row.lease = c BY <2>1 DEF Row
  <2>3. rows' = [rows EXCEPT ![k] = row]
    BY <1>2, <1>1, <2>1 DEF completeDastSessionIssuance, IInv, TypeOK, Row
  <2> HIDE DEF row, k
  <2>4. GrantOf(row) = c BY <2>2, NoRowAssumption DEF GrantOf
  <2>5. Granted' = [Granted EXCEPT ![k] = c] BY <1>1, <2>3, <2>4, GrantedUpdate DEF IInv
  <2>6. Granted[k] = None
    <3> HIDE DEF GrantOf
    <3> QED BY <1>1, <2>1, GrantedIs
  <2>7. step'[c] \in {"respond", "release"}
    BY <1>2 DEF completeDastSessionIssuance, Goto, Keep, Fails, IInv, TypeOK
  <2> QED BY <2>5, <2>6, <2>7 DEF k
<1>3. CASE ~LeasedBy(c)
  <2>1. rows' = rows /\ step'[c] = "release"
    BY <1>3 DEF completeDastSessionIssuance, Goto, Keep, Fails, IInv, TypeOK
  <2> QED BY <2>1 DEF Granted
<1> QED BY <1>2, <1>3

\* A step of a call either makes no grant, or grants the call its key; the answer comes
\* only after the acknowledged completion.
LEMMA GrantStep ==
    ASSUME IInv, NEW c \in Calls, CallStep(c)
    PROVE  \/ /\ Granted' = Granted /\ step'[c] # "respond"
              /\ step'[c] = "answered" => step[c] = "respond"
           \/ /\ step[c] = "complete" /\ Granted[KeyOf(c)] = None
              /\ Granted' = [Granted EXCEPT ![KeyOf(c)] = c]
              /\ step'[c] \in {"respond", "release"}
<1> USE DEF IInv
<1>1. ASSUME rows' = rows PROVE Granted' = Granted BY <1>1 DEF Granted
<1>2. ASSUME NEW r \in Requests, NEW j \in Jobs, NEW active \in BOOLEAN, issue(c, r, j, active)
      PROVE  rows' = rows /\ step'[c] \notin {"respond", "answered"}
  BY <1>2 DEF issue, Goto, TypeOK
<1>3. CASE loadJwks(c) \/ keysLoaded(c)
  BY <1>1, <1>3 DEF loadJwks, keysLoaded, Verified, StartFetch, Goto, Keep, Fails, TypeOK
<1>4. CASE keysServed(c) BY <1>1, <1>4 DEF keysServed, TypeOK
<1>5. CASE keysUnavailable(c) BY <1>1, <1>5 DEF keysUnavailable, Goto, Keep, Fails, TypeOK
<1>6. ASSUME NEW ok \in BOOLEAN, claimDastSessionIssuance(c, ok)
      PROVE  Granted' = Granted /\ step'[c] \notin {"respond", "answered"}
  <2>1. step'[c] \notin {"respond", "answered"}
    BY <1>6 DEF claimDastSessionIssuance, Goto, Keep, Fails, TypeOK
  <2> QED BY <1>6, <2>1, ClaimGrantsNothing
<1>7. ASSUME NEW ok \in BOOLEAN, releaseDastSessionIssuance(c, ok)
      PROVE  Granted' = Granted /\ step'[c] \notin {"respond", "answered"}
  <2>1. step'[c] \notin {"respond", "answered"}
    BY <1>7 DEF releaseDastSessionIssuance, Goto, Keep, Fails, TypeOK
  <2> QED BY <1>7, <2>1, ReleaseGrantsNothing
<1>8. ASSUME NEW ok \in BOOLEAN, completeDastSessionIssuance(c, ok)
      PROVE  /\ step[c] = "complete" /\ step'[c] \in {"respond", "release"}
             /\ \/ Granted' = Granted /\ step'[c] = "release"
                \/ Granted[KeyOf(c)] = None /\ Granted' = [Granted EXCEPT ![KeyOf(c)] = c]
  <2>1. step[c] = "complete" BY <1>8 DEF completeDastSessionIssuance
  <2> QED BY <1>8, <2>1, CompleteGrants
<1>9. CASE getSuccessfulDeploymentEvidence(c)
  BY <1>1, <1>9 DEF getSuccessfulDeploymentEvidence, Goto, Keep, Fails, TypeOK
<1>10. CASE exchangeCredential(c) \/ credentialFails(c)
  BY <1>1, <1>10 DEF exchangeCredential, credentialFails, Goto, Keep, Fails, TypeOK
<1>11. CASE respond(c) BY <1>1, <1>11 DEF respond, Goto, TypeOK
<1> HIDE DEF IInv
<1> QED BY <1>1, <1>2, <1>3, <1>4, <1>5, <1>6, <1>7, <1>8, <1>9, <1>10, <1>11 DEF CallStep

LEMMA FenceStep ==
    ASSUME IInv, [Next]_vars, TypeOK'
    PROVE  Fence'
<1> USE DEF IInv
<1>1. CASE UNCHANGED vars BY <1>1 DEF vars, Fence, Granted, KeyOf
<1>2. ASSUME NEW c \in Calls, CallStep(c) PROVE Fence'
  <2>1. ASSUME NEW d \in Calls, step'[d] \in {"respond", "answered"}
        PROVE  Granted'[KeyOf(d)'] = d
    <3>1. CASE d # c
      <4>1. step[d] = step'[d] /\ asked'[d] = asked[d] BY <1>2, <3>1, CallFrame
      <4>2. KeyOf(d)' = KeyOf(d) BY <4>1 DEF KeyOf
      <4>3. Granted[KeyOf(d)] = d /\ d # None BY <2>1, <4>1, DastAssumption DEF Fence
      <4>4. KeyOf(d) \in IssuanceKeys BY <2>1, <4>1, KeyOfType
      <4>5. Granted'[KeyOf(d)] = d
        <5>1. CASE Granted' = Granted BY <4>3, <5>1
        <5>2. CASE Granted[KeyOf(c)] = None /\ Granted' = [Granted EXCEPT ![KeyOf(c)] = c]
          BY <4>3, <4>4, <5>2, GrantedIs
        <5> QED BY <1>2, <5>1, <5>2, GrantStep
      <4> QED BY <4>2, <4>5
    <3>2. CASE d = c
      <4>1. step[c] # "idle" BY <1>2, <2>1, <3>2, GrantStep
      <4>2. KeyOf(c)' = KeyOf(c) BY <1>2, <4>1, CallFrame DEF KeyOf
      <4>3. KeyOf(c) \in IssuanceKeys BY <4>1, KeyOfType
      <4>4. CASE Granted' = Granted /\ step[c] = "respond" BY <3>2, <4>2, <4>4 DEF Fence
      <4>5. CASE Granted' = [Granted EXCEPT ![KeyOf(c)] = c] BY <3>2, <4>2, <4>3, <4>5, GrantedIs
      <4> QED BY <1>2, <2>1, <3>2, <4>4, <4>5, GrantStep
    <3> QED BY <3>1, <3>2
  <2> QED BY <2>1 DEF Fence
<1>3. CASE WorldStep
  <2>1. UNCHANGED <<rows, step, asked>>
    BY <1>3 DEF WorldStep, Tick, rotateKey, withdrawKey, mintToken, recordDeployment
  <2> QED BY <2>1 DEF Fence, Granted, KeyOf
<1>4. CASE restart
  <2>1. UNCHANGED <<rows, asked>> /\ Granted' = Granted BY <1>4 DEF restart, Granted
  <2>2. \A d \in Calls : step'[d] \in {"respond", "answered"} => step[d] = "answered"
    BY <1>4 DEF restart, Ended
  <2>3. \A d \in Calls : KeyOf(d)' = KeyOf(d) BY <2>1 DEF KeyOf
  <2> QED BY <2>1, <2>2, <2>3 DEF Fence
<1> QED BY <1>1, <1>2, <1>3, <1>4, StepSplit

-----------------------------------------------------------------------------
(* Identity.                                                               *)

Accepted == {"claim", "read", "credential", "complete", "respond", "answered"}

LEMMA EntersAccepted ==
    ASSUME IInv, NEW c \in Calls, CallStep(c), step'[c] \in Accepted, step[c] \notin Accepted
    PROVE  /\ loadJwks(c) \/ keysLoaded(c)
           /\ step'[c] = "claim" /\ validateOidcIdentity(asked[c].request, asked[c].job)
<1> USE DEF IInv, TypeOK, Accepted, Goto, Keep, Fails
<1>1. CASE loadJwks(c) BY <1>1 DEF loadJwks, Verified, StartFetch
<1>2. CASE keysLoaded(c) BY <1>2 DEF keysLoaded, Verified, StartFetch
<1>3. CASE \E r \in Requests, j \in Jobs, active \in BOOLEAN : issue(c, r, j, active)
  BY <1>3 DEF issue
<1>4. CASE keysServed(c) \/ keysUnavailable(c) BY <1>4 DEF keysServed, keysUnavailable
<1>5. CASE \E ok \in BOOLEAN : \/ claimDastSessionIssuance(c, ok)
                               \/ completeDastSessionIssuance(c, ok)
                               \/ releaseDastSessionIssuance(c, ok)
  BY <1>5 DEF claimDastSessionIssuance, completeDastSessionIssuance, releaseDastSessionIssuance
<1>6. CASE \/ getSuccessfulDeploymentEvidence(c) \/ exchangeCredential(c)
           \/ credentialFails(c) \/ respond(c)
  BY <1>6 DEF getSuccessfulDeploymentEvidence, exchangeCredential, credentialFails, respond
<1> HIDE DEF IInv, TypeOK, Accepted, Goto, Keep, Fails
<1> QED BY <1>1, <1>2, <1>3, <1>4, <1>5, <1>6 DEF CallStep

LEMMA IdentifiedStep ==
    ASSUME IInv, [Next]_vars, TypeOK'
    PROVE  Identified'
<1> USE DEF IInv
<1>1. CASE UNCHANGED vars BY <1>1 DEF vars, Identified, validateOidcIdentity
<1>2. ASSUME NEW c \in Calls, CallStep(c) PROVE Identified'
  <2>1. ASSUME NEW d \in Calls, step'[d] \in Accepted
        PROVE  validateOidcIdentity(asked'[d].request, asked'[d].job)
    <3>1. CASE d # c BY <1>2, <2>1, <3>1, CallFrame DEF Identified, Accepted
    <3>2. CASE d = c
      <4>1. step[c] # "idle"
        <5>1. CASE step[c] \in Accepted BY <5>1 DEF Accepted
        <5>2. CASE step[c] \notin Accepted
          BY <1>2, <2>1, <3>2, <5>2, EntersAccepted DEF loadJwks, keysLoaded
        <5> QED BY <5>1, <5>2
      <4>2. asked'[c] = asked[c] BY <1>2, <4>1, CallFrame
      <4>3. validateOidcIdentity(asked[c].request, asked[c].job)
        <5>1. CASE step[c] \in Accepted BY <5>1 DEF Accepted, Identified
        <5>2. CASE step[c] \notin Accepted BY <1>2, <2>1, <3>2, <5>2, EntersAccepted
        <5> QED BY <5>1, <5>2
      <4> QED BY <3>2, <4>2, <4>3
    <3> QED BY <3>1, <3>2
  <2> QED BY <2>1 DEF Identified, Accepted, validateOidcIdentity
<1>3. CASE WorldStep
  <2>1. UNCHANGED <<step, asked>>
    BY <1>3 DEF WorldStep, Tick, rotateKey, withdrawKey, mintToken, recordDeployment
  <2> QED BY <2>1 DEF Identified, validateOidcIdentity
<1>4. CASE restart
  <2>1. \A d \in Calls : step'[d] \in Accepted => step[d] \in Accepted
    BY <1>4 DEF restart, Ended, Accepted
  <2>2. UNCHANGED asked BY <1>4 DEF restart
  <2> QED BY <2>1, <2>2 DEF Identified, Accepted, validateOidcIdentity
<1> QED BY <1>1, <1>2, <1>3, <1>4, StepSplit

-----------------------------------------------------------------------------
(* Keys.                                                                   *)

LEMMA RetiredStep ==
    ASSUME IInv, [Next]_vars
    PROVE  RetiredIsOld'
<1> USE DEF IInv, KeysOK
<1>1. CASE UNCHANGED <<published, retiredAt>> BY <1>1 DEF RetiredIsOld
<1>2. ASSUME NEW k \in 1 .. MaxKeys, rotateKey(k) PROVE RetiredIsOld'
  <2>1. \A l \in published : l \in Nat /\ l < k BY <1>2 DEF rotateKey, TypeOK
  <2>2. published' = published \cup {k} /\ retiredAt' = retiredAt BY <1>2 DEF rotateKey
  <2>3. ASSUME NEW m \in 1 .. MaxKeys, retiredAt[m] # None
        PROVE  m \notin published' /\ \E l \in published' : m < l
    <3>1. PICK l \in published : m < l BY <2>3 DEF RetiredIsOld
    <3>2. m \notin published /\ m # k BY <2>1, <2>3, <3>1 DEF RetiredIsOld
    <3> QED BY <2>2, <3>1, <3>2
  <2> QED BY <2>2, <2>3 DEF RetiredIsOld
<1>3. ASSUME NEW k \in 1 .. MaxKeys, withdrawKey(k) PROVE RetiredIsOld'
  <2>1. \A l \in published : l \in Nat BY DEF TypeOK
  <2>2. PICK n \in published : k < n
    BY <1>3, <2>1 DEF withdrawKey, NewestKey
  <2>3. /\ published' = published \ {k} /\ n \in published'
        /\ \A m \in 1 .. MaxKeys : m # k => retiredAt'[m] = retiredAt[m]
    BY <1>3, <2>1, <2>2 DEF withdrawKey, TypeOK
  <2>4. ASSUME NEW m \in 1 .. MaxKeys, retiredAt'[m] # None
        PROVE  m \notin published' /\ \E l \in published' : m < l
    <3>1. CASE m = k BY <2>2, <2>3, <3>1
    <3>2. CASE m # k
      <4>1. PICK l \in published : m < l BY <2>3, <2>4, <3>2 DEF RetiredIsOld
      <4>2. m \notin published BY <2>3, <2>4, <3>2 DEF RetiredIsOld
      <4>3. CASE l = k BY <2>1, <2>2, <2>3, <4>1, <4>2, <4>3
      <4>4. CASE l # k BY <2>3, <4>1, <4>2, <4>4
      <4> QED BY <4>3, <4>4
    <3> QED BY <3>1, <3>2
  <2> QED BY <2>4 DEF RetiredIsOld
<1>4. UNCHANGED <<published, retiredAt>> \/ \E k \in 1 .. MaxKeys : rotateKey(k) \/ withdrawKey(k)
  <2>1. CASE UNCHANGED vars BY <2>1 DEF vars
  <2>2. ASSUME NEW c \in Calls, CallStep(c) PROVE UNCHANGED <<published, retiredAt>>
    BY <2>2, CallFrame DEF world, github
  <2>3. CASE restart BY <2>3 DEF restart, world, github
  <2>4. CASE WorldStep BY <2>4 DEF WorldStep, Tick, mintToken, recordDeployment, github
  <2> QED BY <2>1, <2>2, <2>3, <2>4, StepSplit
<1> QED BY <1>1, <1>2, <1>3, <1>4

\* How a step changes what the keys' invariants speak of.
LEMMA KeysFrame ==
    ASSUME IInv, [Next]_vars
    PROVE  /\ now' \in Nat /\ now <= now'
           /\ \A k \in 1 .. MaxKeys : retiredAt'[k] = retiredAt[k] \/ retiredAt'[k] = now
           /\ \/ cache' = cache \/ cache' = EmptyCache
              \/ \E c \in Calls : keysLoaded(c)
<1> USE DEF IInv
<1>1. CASE UNCHANGED vars BY <1>1 DEF vars, TypeOK
<1>2. ASSUME NEW c \in Calls, CallStep(c)
      PROVE  /\ UNCHANGED <<now, retiredAt>>
             /\ cache' = cache \/ keysLoaded(c)
  <2>1. UNCHANGED <<now, retiredAt>> BY <1>2, CallFrame DEF world, github
  <2>2. cache' = cache \/ keysLoaded(c)
    BY <1>2 DEF CallStep, issue, loadJwks, keysServed, keysUnavailable,
        claimDastSessionIssuance, completeDastSessionIssuance, releaseDastSessionIssuance,
        getSuccessfulDeploymentEvidence, exchangeCredential, credentialFails, respond
  <2> QED BY <2>1, <2>2
<1>3. CASE restart BY <1>3 DEF restart, world, github, TypeOK
<1>4. CASE WorldStep
  <2>1. /\ cache' = cache
        /\ now' = now \/ now' = now + 1
    BY <1>4 DEF WorldStep, Tick, rotateKey, withdrawKey, mintToken, recordDeployment, github
  <2>2. ASSUME NEW k \in 1 .. MaxKeys, withdrawKey(k)
        PROVE  \A l \in 1 .. MaxKeys : retiredAt'[l] = retiredAt[l] \/ retiredAt'[l] = now
    BY <2>2 DEF withdrawKey, TypeOK
  <2>3. \/ retiredAt' = retiredAt
        \/ \E k \in 1 .. MaxKeys : withdrawKey(k)
    BY <1>4 DEF WorldStep, Tick, rotateKey, mintToken, recordDeployment, github
  <2>4. now \in Nat BY DEF TypeOK
  <2>5. now' \in Nat /\ now <= now' BY <2>1, <2>4
  <2> QED BY <2>1, <2>2, <2>3, <2>5
<1>5. now \in Nat BY DEF TypeOK
<1> QED BY <1>1, <1>2, <1>3, <1>4, <1>5, StepSplit

LEMMA CacheStep ==
    ASSUME IInv, [Next]_vars
    PROVE  CacheHonest'
<1> USE DEF IInv, KeysOK
<1>n. now \in Nat /\ now' \in Nat /\ now <= now' /\ CacheTime \in Nat
  BY KeysFrame, DastAssumption DEF TypeOK
<1>1. CASE cache' = cache
  <2>1. cache.expiresAt \in Nat /\ cache.keys \in SUBSET (1 .. MaxKeys) BY DEF TypeOK
  <2>2. cache.expiresAt <= now' + CacheTime BY <1>n, <2>1 DEF CacheHonest
  <2>3. ASSUME NEW k \in cache.keys
        PROVE  retiredAt'[k] = None \/ cache.expiresAt <= retiredAt'[k] + CacheTime
    <3>1. retiredAt'[k] = retiredAt[k] \/ retiredAt'[k] = now BY <2>1, KeysFrame
    <3>2. CASE retiredAt'[k] = retiredAt[k] BY <3>2 DEF CacheHonest
    <3>3. CASE retiredAt'[k] = now BY <3>3 DEF CacheHonest
    <3> QED BY <3>1, <3>2, <3>3
  <2> QED BY <1>1, <2>2, <2>3 DEF CacheHonest
<1>2. CASE cache' = EmptyCache
  <2>1. cache'.expiresAt = 0 /\ cache'.keys = {} BY <1>2 DEF EmptyCache
  <2>2. \A m, n \in Nat : 0 <= m + n OBVIOUS
  <2>3. 0 <= now' + CacheTime BY <1>n, <2>2
  <2>4. cache'.expiresAt <= now' + CacheTime BY <2>1, <2>3
  <2> QED BY <2>1, <2>4 DEF CacheHonest
<1>3. ASSUME NEW c \in Calls, keysLoaded(c) PROVE CacheHonest'
  <2>1. /\ step[c] \in {"fetch", "refetch"} /\ local[c].reply # None
        /\ UNCHANGED <<now, retiredAt>>
        /\ cache'.expiresAt = local[c].current + CacheTime /\ cache'.keys = local[c].reply
    BY <1>3 DEF keysLoaded, CachedUntil, world, github
  <2>2. local[c].current \in Nat BY DEF TypeOK, Locals
  <2>3. /\ local[c].current <= now
        /\ \A k \in local[c].reply : /\ k \in 1 .. MaxKeys
                                     /\ retiredAt[k] = None \/ local[c].current <= retiredAt[k]
    BY <2>1 DEF ReplyHonest
  <2>4. \A k \in 1 .. MaxKeys : retiredAt[k] = None \/ retiredAt[k] \in Nat BY DEF TypeOK
  <2>5. cache'.expiresAt <= now' + CacheTime BY <1>n, <2>1, <2>2, <2>3
  <2>6. \A k \in cache'.keys : retiredAt'[k] = None \/ cache'.expiresAt <= retiredAt'[k] + CacheTime
    BY <1>n, <2>1, <2>2, <2>3, <2>4
  <2> QED BY <2>5, <2>6 DEF CacheHonest
<1> QED BY <1>1, <1>2, <1>3, KeysFrame

\* A call that is fetching started now, got its answer now, or was fetching before.
LEMMA FetchingStep ==
    ASSUME IInv, [Next]_vars, NEW d \in Calls, step'[d] \in {"fetch", "refetch"}
    PROVE  \/ local'[d].current = now /\ local'[d].reply = None
           \/ /\ step[d] \in {"fetch", "refetch"} /\ local'[d].current = local[d].current
              /\ local'[d].reply = local[d].reply \/ local'[d].reply = published
<1> USE DEF IInv
<1>1. CASE UNCHANGED vars BY <1>1 DEF vars
<1>2. ASSUME NEW c \in Calls, CallStep(c), c # d PROVE step[d] = step'[d] /\ local'[d] = local[d]
  BY <1>2, CallFrame
<1>3. ASSUME StartFetch(d, "fetch") \/ StartFetch(d, "refetch")
      PROVE  local'[d].current = now /\ local'[d].reply = None
  BY <1>3, LocalFields DEF StartFetch, Keep, TypeOK
<1>4. CASE CallStep(d)
  <2> USE DEF Goto, Keep, Fails, TypeOK
  <2>1. CASE loadJwks(d) BY <1>3, <2>1 DEF loadJwks, Verified
  <2>2. CASE keysLoaded(d) BY <1>3, <2>2 DEF keysLoaded, Verified
  <2>3. CASE keysServed(d) BY <2>3, LocalFields DEF keysServed
  <2>4. CASE \E r \in Requests, j \in Jobs, active \in BOOLEAN : issue(d, r, j, active)
    BY <2>4 DEF issue
  <2>5. CASE keysUnavailable(d) BY <2>5 DEF keysUnavailable
  <2>6. CASE \E ok \in BOOLEAN : \/ claimDastSessionIssuance(d, ok)
                                 \/ completeDastSessionIssuance(d, ok)
                                 \/ releaseDastSessionIssuance(d, ok)
    BY <2>6 DEF claimDastSessionIssuance, completeDastSessionIssuance, releaseDastSessionIssuance
  <2>7. CASE \/ getSuccessfulDeploymentEvidence(d) \/ exchangeCredential(d)
             \/ credentialFails(d) \/ respond(d)
    BY <2>7 DEF getSuccessfulDeploymentEvidence, exchangeCredential, credentialFails, respond
  <2> HIDE DEF Goto, Keep, Fails, TypeOK
  <2> QED BY <1>4, <2>1, <2>2, <2>3, <2>4, <2>5, <2>6, <2>7 DEF CallStep
<1>5. CASE restart BY <1>5 DEF restart, Ended
<1>6. CASE WorldStep
  BY <1>6 DEF WorldStep, Tick, rotateKey, withdrawKey, mintToken, recordDeployment
<1> QED BY <1>1, <1>2, <1>4, <1>5, <1>6, StepSplit

LEMMA ReplyStep ==
    ASSUME IInv, [Next]_vars
    PROVE  ReplyHonest'
<1> USE DEF IInv, KeysOK
<1>n. now \in Nat /\ now' \in Nat /\ now <= now' BY KeysFrame DEF TypeOK
<1>1. ASSUME NEW d \in Calls, step'[d] \in {"fetch", "refetch"}
      PROVE  /\ local'[d].current <= now'
             /\ local'[d].reply # None =>
                  /\ local'[d].reply \in SUBSET (1 .. MaxKeys)
                  /\ \A k \in local'[d].reply :
                        retiredAt'[k] = None \/ local'[d].current <= retiredAt'[k]
  <2>1. CASE local'[d].current = now /\ local'[d].reply = None BY <1>n, <2>1
  <2>2. CASE /\ step[d] \in {"fetch", "refetch"} /\ local'[d].current = local[d].current
             /\ local'[d].reply = local[d].reply \/ local'[d].reply = published
    <3>1. local[d].current \in Nat /\ local[d].current <= now BY <2>2 DEF TypeOK, Locals, ReplyHonest
    <3>2. local'[d].current <= now' BY <1>n, <2>2, <3>1
    <3>3. ASSUME local'[d].reply # None
          PROVE  /\ local'[d].reply \in SUBSET (1 .. MaxKeys)
                 /\ \A k \in local'[d].reply :
                        retiredAt[k] = None \/ local[d].current <= retiredAt[k]
      <4>1. CASE local'[d].reply = local[d].reply BY <2>2, <3>3, <4>1 DEF ReplyHonest
      <4>2. CASE local'[d].reply = published BY <4>2 DEF RetiredIsOld, TypeOK
      <4> QED BY <2>2, <4>1, <4>2
    <3>4. ASSUME local'[d].reply # None, NEW k \in local'[d].reply
          PROVE  retiredAt'[k] = None \/ local'[d].current <= retiredAt'[k]
      <4>1. k \in 1 .. MaxKeys BY <3>3, <3>4
      <4>2. CASE retiredAt'[k] = retiredAt[k] BY <2>2, <3>3, <3>4, <4>2
      <4>3. CASE retiredAt'[k] = now BY <2>2, <3>1, <4>3
      <4> QED BY <4>1, <4>2, <4>3, KeysFrame
    <3> QED BY <3>2, <3>3, <3>4
  <2> QED BY <1>1, <2>1, <2>2, FetchingStep
<1> QED BY <1>1 DEF ReplyHonest

-----------------------------------------------------------------------------
(* The theorems.                                                           *)

LEMMA InitInv == Init => IInv
<1> SUFFICES ASSUME Init PROVE IInv OBVIOUS
<1> USE DEF Init
<1>1. TypeOK BY NothingType, DastAssumption DEF TypeOK, Steps, EmptyCache
<1>2. AskedOK /\ Fence /\ Identified BY DEF AskedOK, Fence, Identified
<1>3. KeysOK BY DastAssumption DEF KeysOK, RetiredIsOld, CacheHonest, ReplyHonest, EmptyCache
<1> QED BY <1>1, <1>2, <1>3 DEF IInv

LEMMA InvStep == IInv /\ [Next]_vars => IInv'
<1> SUFFICES ASSUME IInv, [Next]_vars PROVE IInv' OBVIOUS
<1>1. TypeOK' BY TypeStep
<1> QED BY <1>1, AskedStep, FenceStep, IdentifiedStep, RetiredStep, CacheStep, ReplyStep
        DEF IInv, KeysOK

\* The state of the broker keeps its types, for any calls, requests, jobs and bounds.
THEOREM TypeCorrect == Spec => []TypeOK
<1>1. IInv => TypeOK BY DEF IInv
<1> QED BY <1>1, InitInv, InvStep, PTL DEF Spec

\* One job never gets two sessions of a profile and a scan: both calls would have been
\* granted the same key.
THEOREM JobGetsOneSession == Spec => []OneSessionPerJob
<1>1. IInv => OneSessionPerJob
  <2> SUFFICES ASSUME IInv, NEW c \in Answered, NEW d \in Answered,
                      asked[c].job = asked[d].job,
                      asked[c].request.profile = asked[d].request.profile,
                      asked[c].request.scan = asked[d].request.scan
               PROVE  c = d
    BY DEF OneSessionPerJob
  <2>1. c \in Calls /\ d \in Calls /\ step[c] = "answered" /\ step[d] = "answered"
    BY DEF Answered
  <2>2. /\ validateOidcIdentity(asked[c].request, asked[c].job)
        /\ validateOidcIdentity(asked[d].request, asked[d].job)
    BY <2>1 DEF IInv, Identified
  <2>3. KeyOf(c) = KeyOf(d) BY <2>2 DEF KeyOf, issuanceKey, validateOidcIdentity
  <2>4. Granted[KeyOf(c)] = c /\ Granted[KeyOf(d)] = d BY <2>1 DEF IInv, Fence
  <2> QED BY <2>3, <2>4
<1> QED BY <1>1, InitInv, InvStep, PTL DEF Spec

\* No token is accepted whose key was withdrawn a cache period ago or earlier.
THEOREM WithdrawnKeyIsRefused == Spec => RetiredKeyIsRefused
<1>1. IInv /\ [Next]_vars =>
        [\A c \in Calls :
           (step[c] # "claim" /\ step'[c] = "claim") =>
              \/ retiredAt[TokenOf(c).kid] = None
              \/ now < retiredAt[TokenOf(c).kid] + CacheTime]_vars
  <2> SUFFICES ASSUME IInv, [Next]_vars, NEW c \in Calls, step[c] # "claim", step'[c] = "claim"
               PROVE  \/ retiredAt[TokenOf(c).kid] = None
                      \/ now < retiredAt[TokenOf(c).kid] + CacheTime
    OBVIOUS
  <2> USE DEF IInv, KeysOK
  <2>1. CallStep(c)
    <3>1. CASE UNCHANGED vars BY <3>1 DEF vars
    <3>2. ASSUME NEW d \in Calls, CallStep(d), d # c PROVE FALSE BY <3>2, CallFrame
    <3>3. CASE restart BY <3>3 DEF restart, Ended
    <3>4. CASE WorldStep
      BY <3>4 DEF WorldStep, Tick, rotateKey, withdrawKey, mintToken, recordDeployment
    <3> QED BY <3>1, <3>2, <3>3, <3>4, StepSplit
  <2>2. step[c] \notin Accepted
    BY <2>1 DEF Accepted, CallStep, issue, loadJwks, keysServed, keysLoaded, keysUnavailable,
        claimDastSessionIssuance, completeDastSessionIssuance, releaseDastSessionIssuance,
        getSuccessfulDeploymentEvidence, exchangeCredential, credentialFails, respond,
        Goto, Fails, TypeOK
  <2>3. loadJwks(c) \/ keysLoaded(c) BY <2>1, <2>2, EntersAccepted DEF Accepted
  <2> DEFINE k == TokenOf(c).kid
  <2>t. /\ now \in Nat /\ CacheTime \in Nat /\ FetchTimeout \in Nat /\ FetchTimeout < CacheTime
        /\ cache.expiresAt \in Nat /\ cache.keys \in SUBSET (1 .. MaxKeys)
        /\ local[c].current \in Nat
        /\ \A m \in 1 .. MaxKeys : retiredAt[m] = None \/ retiredAt[m] \in Nat
    BY DastAssumption DEF TypeOK, Locals
  <2>4. CASE loadJwks(c)
    <3>1. cache.expiresAt > now /\ k \in cache.keys
      BY <2>4 DEF loadJwks, StartFetch, Goto, TypeOK
    <3> QED BY <2>t, <3>1 DEF CacheHonest
  <2>5. CASE keysLoaded(c)
    <3>1. /\ step[c] \in {"fetch", "refetch"} /\ local[c].reply # None
          /\ now <= local[c].current + FetchTimeout /\ k \in local[c].reply
      BY <2>5 DEF keysLoaded, StartFetch, Fails, Goto, TypeOK
    <3>2. k \in 1 .. MaxKeys /\ (retiredAt[k] = None \/ local[c].current <= retiredAt[k])
      BY <3>1 DEF ReplyHonest
    <3> QED BY <2>t, <3>1, <3>2
  <2> QED BY <2>3, <2>4, <2>5
<1> QED BY <1>1, InitInv, InvStep, PTL DEF Spec, RetiredKeyIsRefused

\* Every step of the broker is a step of the one-time promise, or changes nothing of it.
THEOREM BrokerImplementsOneSession == Spec => ImplementsOneSession
<1>1. Init => Promise!Init
  BY DEF Init, Promise!Init, Granted, Answered
<1>2. IInv /\ [Next]_vars => [Promise!Next]_(Promise!vars)
  <2> SUFFICES ASSUME IInv, [Next]_vars
               PROVE  Promise!Next \/ (Granted' = Granted /\ Answered' = Answered)
    BY DEF Promise!vars
  <2> USE DEF IInv
  <2>1. CASE UNCHANGED vars BY <2>1 DEF vars, Granted, Answered
  <2>2. CASE WorldStep
    <3>1. UNCHANGED <<rows, step>>
      BY <2>2 DEF WorldStep, Tick, rotateKey, withdrawKey, mintToken, recordDeployment
    <3> QED BY <3>1 DEF Granted, Answered
  <2>3. CASE restart BY <2>3 DEF restart, Granted, Answered, Ended
  <2>4. ASSUME NEW c \in Calls, CallStep(c)
        PROVE  Promise!Next \/ (Granted' = Granted /\ Answered' = Answered)
    <3>1. \A d \in Calls \ {c} : step'[d] = step[d] BY <2>4, CallFrame
    <3>2. CASE /\ step[c] = "complete" /\ Granted[KeyOf(c)] = None
               /\ Granted' = [Granted EXCEPT ![KeyOf(c)] = c]
               /\ step'[c] \in {"respond", "release"}
      <4>1. Answered' = Answered BY <3>1, <3>2 DEF Answered
      <4>2. KeyOf(c) \in IssuanceKeys BY <3>2, KeyOfType
      <4> QED BY <3>2, <4>1, <4>2 DEF Promise!Next, Promise!Grant
    <3>3. CASE Granted' = Granted /\ step'[c] = "answered" /\ step[c] = "respond"
      <4>1. Answered' = Answered \cup {c} BY <3>1, <3>3 DEF Answered
      <4>2. KeyOf(c) \in IssuanceKeys /\ Granted[KeyOf(c)] = c BY <3>3, KeyOfType DEF Fence
      <4> QED BY <3>3, <4>1, <4>2 DEF Promise!Next, Promise!Answer
    <3>4. CASE Granted' = Granted /\ step'[c] # "answered"
      <4>1. step[c] # "answered"
        BY <2>4 DEF CallStep, issue, loadJwks, keysServed, keysLoaded, keysUnavailable,
            claimDastSessionIssuance, completeDastSessionIssuance, releaseDastSessionIssuance,
            getSuccessfulDeploymentEvidence, exchangeCredential, credentialFails, respond
      <4>2. Answered' = Answered BY <3>1, <3>4, <4>1 DEF Answered
      <4> QED BY <3>4, <4>2
    <3> QED BY <2>4, <3>2, <3>3, <3>4, GrantStep
  <2> QED BY <2>1, <2>2, <2>3, <2>4, StepSplit
<1> QED BY <1>1, <1>2, InitInv, InvStep, PTL DEF Spec, ImplementsOneSession, Promise!Spec
=============================================================================
