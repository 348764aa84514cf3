-------------------------- MODULE RegistryListing --------------------------
(***************************************************************************)
(* What the registry connectors read of a registry while it changes: one   *)
(* connector, made by NewConnector, answers calls one after another.  A    *)
(* call authenticates once and then reads page after page, so that names   *)
(* come and go, tokens die and credentials are revoked between two pages.  *)
(*                                                                         *)
(* Sources: internal/registry/*.go.  The registry itself is external: it   *)
(* keeps its names in order and serves PageSize of them at a time.         *)
(***************************************************************************)
EXTENDS Naturals, FiniteSets, FiniteSetsExt

CONSTANTS
    Kinds,       \* the connector types of the instance
    MaxName,     \* bound: names of a list are 1..MaxName, in the server's order
    MaxDigest,   \* bound: contents of a tag
    PageSize,    \* entries of a page
    MaxChanges   \* bound: changes of the registry and its credentials

AllKinds == {"v2", "acr", "gcr", "ecr", "ghcr", "dockerhub", "gitlab"}

ASSUME ConstantsOK ==
    /\ Kinds \subseteq AllKinds
    /\ MaxName \in Nat \ {0} /\ MaxDigest \in Nat \ {0}
    /\ PageSize \in Nat \ {0} /\ MaxChanges \in Nat

VARIABLES
    served,     \* the registry: the digest of each repository and tag, 0 if absent
    accepts,    \* the doors at which the connector's credentials are accepted
    bearer,     \* whether it answers /v2/ with a Bearer challenge
    kind,       \* type of the connector
    token,      \* the connector's cached token: none, live, or dead: refused
                \* by the registry although its ExpiresAt is in the future
    call,       \* the call in progress, or the last one
    stable,     \* names that have been in the call's list since it began
    ever,       \* what the call's list has held since the call began
    removed,    \* whether a name was removed from it
    vouched,    \* the doors that accepted the credentials during the test
    changes

registry == <<served, accepts, bearer>>
ghosts == <<stable, ever, removed, vouched>>
vars == <<registry, kind, token, call, ghosts, changes>>

\* The doors that a connector has to pass.  "token": the service that grants
\* tokens for the registry (the realm of a Bearer challenge, ACR's exchange,
\* Google's token endpoint, AWS's authorization token, auth.docker.io).  "api":
\* what answers the requests (the registry, the Hub API, the API of GitLab or
\* of AWS) and takes a token for granted, or looks at the credentials itself.
\* One may accept the connector, anonymous or not, and the other refuse it.
Doors ==
    IF kind = "acr" \/ (kind = "v2" /\ bearer) THEN {"token"}
    ELSE IF kind \in {"v2", "ghcr", "gitlab"} THEN {"api"}
    ELSE {"token", "api"}

Lists == {"repos", "tags"}
Names == 1..MaxName
Digests == 1..MaxDigest
Busy == {"auth", "resolve", "page"}

\* op: the method; at: where the next page begins; auth: the header that
\* every request of the call carries.
Call == [op : {"none", "test", "digest"} \cup Lists,
         pc : {"idle", "ok", "failed"} \cup Busy,
         at : 0..(MaxName + PageSize), got : SUBSET Names,
         tag : Names, digest : Digests \cup {0},
         auth : {"none", "live", "dead", "basic", "static"}]

Present(l) == {n \in Names : served[l][n] # 0}
Entries(l) == {<<n, served[l][n]>> : n \in Present(l)}

\* The list that a method reports on.
ListOf(op) == IF op = "repos" THEN "repos" ELSE "tags"

NewConnector ==
    /\ kind \in Kinds
    /\ token = "none"
    /\ call = [op |-> "none", pc |-> "idle", at |-> 0, got |-> {}, tag |-> 1,
               digest |-> 0, auth |-> "none"]

Init ==
    /\ NewConnector
    /\ \E size \in [Lists -> 0..MaxName] :
           served = [l \in Lists |-> [n \in Names |-> IF n <= size[l] THEN 1 ELSE 0]]
    /\ bearer \in BOOLEAN /\ (bearer => kind = "v2")
    /\ accepts \in SUBSET Doors
    /\ stable = {} /\ ever = {} /\ removed = FALSE /\ vouched = {}
    /\ changes = 0

-----------------------------------------------------------------------------
(* Calls *)

\* Handlers and tasks test a connector only just after they made it.
Begin(op, tag) ==
    /\ call.pc \notin Busy
    /\ op = "test" => call.op = "none"
    /\ op # "digest" => tag = 1
    /\ call' = [op |-> op, pc |-> "auth", at |-> 0, got |-> {}, tag |-> tag,
                digest |-> 0, auth |-> "none"]
    /\ stable' = Present(ListOf(op)) /\ ever' = Entries(ListOf(op))
    /\ removed' = FALSE /\ vouched' = IF op = "test" THEN accepts ELSE {}
    /\ UNCHANGED <<registry, kind, token, changes>>

CallStep == UNCHANGED <<registry, kind, ghosts, changes>>

\* The first step after authentication.  GitLab finds the repository's number
\* first, unless it was given as one.
Authenticated(auth) ==
    \E pc \in IF kind = "gitlab" /\ ListOf(call.op) = "tags" /\ call.op # "test"
              THEN {"resolve", "page"} ELSE {"page"} :
        call' = [call EXCEPT !.auth = auth, !.pc = pc]

Fail == call' = [call EXCEPT !.pc = "failed"]

\* A token in the cache is used until its ExpiresAt.  Without one, a new one
\* is negotiated; Basic authentication serves if that fails for any reason.
V2AuthHeaders ==
    /\ kind = "v2" /\ call.pc = "auth"
    /\ \/ token # "none" /\ Authenticated(token) /\ UNCHANGED token
       \/ /\ token = "none" /\ bearer /\ "token" \in accepts
          /\ token' = "live" /\ Authenticated("live")
       \/ token = "none" /\ Authenticated("basic") /\ UNCHANGED token
    /\ CallStep

\* Three exchanges; the call fails with any of them.
ACRToken ==
    /\ kind = "acr" /\ call.pc = "auth"
    /\ \/ token # "none" /\ Authenticated(token) /\ UNCHANGED token
       \/ /\ token = "none" /\ "token" \in accepts
          /\ token' = "live" /\ Authenticated("live")
       \/ token = "none" /\ Fail /\ UNCHANGED token
    /\ CallStep

\* GCR's client has Google grant it a token for the requests of the call, and
\* Docker Hub asks auth.docker.io for one before each manifest.
AsksForToken == kind = "gcr" \/ (kind = "dockerhub" /\ call.op = "digest")

TokenAuth ==
    /\ AsksForToken /\ call.pc = "auth"
    /\ \/ "token" \in accepts /\ Authenticated(IF kind = "gcr" THEN "static" ELSE "live")
       \/ Fail
    /\ CallStep /\ UNCHANGED token

\* The others send what they were configured with.
StaticAuth ==
    /\ kind \notin {"v2", "acr"} /\ ~ AsksForToken /\ call.pc = "auth"
    /\ ~ (kind = "ghcr" /\ call.op = "repos")
    /\ Authenticated("static")
    /\ CallStep /\ UNCHANGED token

\* The registry API of GHCR has no catalog.
GHCRListRepositories ==
    /\ kind = "ghcr" /\ call.pc = "auth" /\ call.op = "repos"
    /\ Fail
    /\ CallStep /\ UNCHANGED token

Authorized ==
    \/ call.auth = "live"
    \/ call.auth = "basic" /\ "api" \in accepts /\ ~ bearer
    \/ call.auth = "static" /\ "api" \in accepts

\* A request fails, is refused, or its answer cannot be decoded: no list.
RequestFails ==
    /\ call.pc \in {"resolve", "page"}
    /\ Fail
    /\ CallStep /\ UNCHANGED token

-----------------------------------------------------------------------------
(* Pages *)

Paged == IF call.pc = "resolve" THEN "repos" ELSE ListOf(call.op)

\* Mutated form of Window: the page is not asked for.
WholeList(S, skip) == {n \in S : skip \in Nat}

\* PageSize of the names S in the server's order, after the first skip.
Window(S, skip) ==
    {n \in S : Cardinality({m \in S : m < n}) \in skip..(skip + PageSize - 1)}

Rest == {n \in Present(Paged) : n > call.at}

ReadPage(page, next, last) ==
    /\ call.pc = "page" /\ call.op \in Lists /\ Authorized
    /\ call' = [call EXCEPT !.got = @ \cup page, !.at = next,
                            !.pc = IF last THEN "ok" ELSE "page"]
    /\ CallStep /\ UNCHANGED token

\* Mutated form of FollowLinks: only the first page is read.
FirstPageOnly ==
    ReadPage(Window(Rest, 0), call.at, TRUE)

\* The Link header names the page after the last name of this one.
FollowLinks ==
    LET page == Window(Rest, 0)
    IN ReadPage(page, IF page = {} THEN call.at ELSE Max(page), page = Rest)

V2List  == kind = "v2" /\ FollowLinks
ACRList == kind = "acr" /\ FollowLinks
GCRList == kind = "gcr" /\ FollowLinks
ECRList == kind = "ecr" /\ FollowLinks    \* NextToken instead of Link

\* No Link is followed.
GHCRListTags == kind = "ghcr" /\ ReadPage(Window(Rest, 0), call.at, TRUE)

\* Pages by number: names that move between two pages are read twice or never.
NumberedPage == Window(Present(Paged), call.at)

\* next is null on the last page.
DockerHubList ==
    /\ kind = "dockerhub"
    /\ ReadPage(NumberedPage, call.at + PageSize,
                Cardinality(Present(Paged)) <= call.at + PageSize)

\* Until an empty page.
GitLabListRepositories ==
    /\ kind = "gitlab" /\ call.op = "repos"
    /\ IF NumberedPage = {} THEN ReadPage({}, call.at, TRUE)
                            ELSE ReadPage(NumberedPage, call.at + PageSize, FALSE)

\* Until a page that is not full.
GitLabListTags ==
    /\ kind = "gitlab" /\ call.op = "tags"
    /\ IF Cardinality(NumberedPage) < PageSize
       THEN ReadPage(NumberedPage, call.at, TRUE)
       ELSE ReadPage(NumberedPage, call.at + PageSize, FALSE)

\* Mutated form of NotFound: the search starts again.
SearchAgain == [call EXCEPT !.at = 0]

NotFound == [call EXCEPT !.pc = "failed"]

\* resolveRepositoryID reads all pages of repositories and takes the one that
\* was asked for, the first name here.
GitLabResolve ==
    /\ kind = "gitlab" /\ call.pc = "resolve" /\ Authorized
    /\ call' = IF NumberedPage # {}
               THEN [call EXCEPT !.got = @ \cup NumberedPage, !.at = @ + PageSize]
               ELSE IF 1 \in call.got
                    THEN [call EXCEPT !.pc = "page", !.at = 0, !.got = {}]
                    ELSE NotFound
    /\ CallStep /\ UNCHANGED token

-----------------------------------------------------------------------------
(* Digests and tests *)

Answer(digest) ==
    /\ call.pc = "page" /\ Authorized
    /\ call' = [call EXCEPT !.pc = "ok", !.digest = digest]
    /\ CallStep /\ UNCHANGED token

\* HEAD of the manifest: the header of the answer holds the digest.
HeadManifest ==
    call.op = "digest" /\ call.tag \in Present("tags") /\ Answer(served["tags"][call.tag])

V2GetDigest   == kind = "v2" /\ HeadManifest
ACRGetDigest  == kind = "acr" /\ HeadManifest
GCRGetDigest  == kind = "gcr" /\ HeadManifest
GHCRGetDigest == kind = "ghcr" /\ HeadManifest
ECRGetDigest  == kind = "ecr" /\ HeadManifest
DockerHubGetDigest == kind = "dockerhub" /\ HeadManifest

\* Mutated form of IsTag: any tag of the page will do.
AnyTag(t) == t \in Names

IsTag(t) == t = call.tag

\* GitLab lists tags with their digests, page after page.
GitLabGetDigest ==
    /\ kind = "gitlab" /\ call.op = "digest" /\ call.pc = "page"
    /\ LET match == {t \in NumberedPage : IsTag(t)} IN
       \/ \E t \in match : Answer(served["tags"][t])
       \/ /\ match = {} /\ Authorized
          /\ call' = IF Cardinality(NumberedPage) = PageSize
                     THEN [call EXCEPT !.at = @ + PageSize]
                     ELSE NotFound
          /\ CallStep /\ UNCHANGED token

TestPasses ==
    /\ call.op = "test" /\ call.pc = "page"
    /\ call' = [call EXCEPT !.pc = "ok"]
    /\ CallStep /\ UNCHANGED token

\* Mutated form of V2Test: any answer passes.
V2AnyAnswer == kind = "v2" /\ TestPasses

\* One request that must be answered with 200.
V2Test  == kind = "v2" /\ Authorized /\ TestPasses
DockerHubTest == kind = "dockerhub" /\ Authorized /\ TestPasses
GitLabTest == kind = "gitlab" /\ Authorized /\ TestPasses
\* The exchanges are the test.
ACRTest == kind = "acr" /\ TestPasses
\* The authorization token is the test.
ECRTest == kind = "ecr" /\ "token" \in accepts /\ TestPasses
\* 401 passes: that Google granted the token is the test.
GCRTest == kind = "gcr" /\ TestPasses
\* 401 and 403 pass.
GHCRTest == kind = "ghcr" /\ TestPasses

-----------------------------------------------------------------------------
(* The registry *)

Change == changes < MaxChanges /\ changes' = changes + 1

Watched(l) == call.pc \in Busy /\ l = ListOf(call.op)

\* A repository or a tag appears; a tag gets new content.
Push(l, n, d) ==
    /\ Change
    /\ served[l][n] # d /\ (l = "repos" => d = 1)
    /\ served' = [served EXCEPT ![l][n] = d]
    /\ ever' = IF Watched(l) THEN ever \cup {<<n, d>>} ELSE ever
    /\ UNCHANGED <<accepts, bearer, kind, token, call, stable, removed, vouched>>

Remove(l, n) ==
    /\ Change
    /\ n \in Present(l)
    /\ served' = [served EXCEPT ![l][n] = 0]
    /\ IF Watched(l) THEN stable' = stable \ {n} /\ removed' = TRUE
                              ELSE UNCHANGED <<stable, removed>>
    /\ UNCHANGED <<accepts, bearer, kind, token, call, ever, vouched>>

TurnCredentials ==
    /\ Change
    /\ \E d \in Doors :
           /\ accepts' = IF d \in accepts THEN accepts \ {d} ELSE accepts \cup {d}
           /\ vouched' = IF call.pc \in Busy /\ call.op = "test"
                         THEN vouched \cup {d} ELSE vouched
    /\ UNCHANGED <<served, bearer, kind, token, call, stable, ever, removed>>

\* The registry refuses a token that the cache still holds for good.
TokenDies ==
    /\ token = "live" \/ call.auth = "live"
    /\ token' = IF token = "live" THEN "dead" ELSE token
    /\ call' = IF call.auth = "live" THEN [call EXCEPT !.auth = "dead"] ELSE call
    /\ UNCHANGED <<registry, kind, ghosts, changes>>

\* Its ExpiresAt passes.
TokenLeavesCache ==
    /\ token # "none" /\ token' = "none"
    /\ UNCHANGED <<registry, kind, call, ghosts, changes>>

-----------------------------------------------------------------------------

Authenticate == V2AuthHeaders \/ ACRToken \/ TokenAuth \/ StaticAuth \/ GHCRListRepositories

ListStep ==
    \/ V2List \/ ACRList \/ GCRList \/ ECRList \/ GHCRListTags
    \/ DockerHubList \/ GitLabListRepositories \/ GitLabListTags \/ GitLabResolve

DigestStep ==
    \/ V2GetDigest \/ ACRGetDigest \/ GCRGetDigest \/ GHCRGetDigest
    \/ ECRGetDigest \/ DockerHubGetDigest \/ GitLabGetDigest

TestStep ==
    \/ V2Test \/ ACRTest \/ GCRTest \/ ECRTest \/ GHCRTest \/ DockerHubTest
    \/ GitLabTest

Progress == Authenticate \/ ListStep \/ DigestStep \/ TestStep \/ RequestFails

Registry ==
    \/ \E l \in Lists, n \in Names : Remove(l, n) \/ \E d \in Digests : Push(l, n, d)
    \/ TurnCredentials \/ TokenDies \/ TokenLeavesCache

Next ==
    \/ \E op \in Lists \cup {"test", "digest"}, tag \in Names : Begin(op, tag)
    \/ Progress \/ Registry

\* Every request is answered or fails: the caller's context ends it.
Spec == Init /\ [][Next]_vars /\ WF_vars(Progress)

-----------------------------------------------------------------------------
(* Properties *)

\* The state is well formed; the cache of a connector without tokens is empty.
TypeOK ==
    /\ served \in [Lists -> [Names -> Digests \cup {0}]]
    /\ accepts \subseteq Doors /\ bearer \in BOOLEAN
    /\ kind \in Kinds /\ token \in {"none", "live", "dead"}
    /\ token # "none" => kind \in {"v2", "acr"}
    /\ call \in Call
    /\ stable \subseteq Names /\ ever \subseteq Names \X Digests
    /\ removed \in BOOLEAN /\ vouched \subseteq Doors /\ changes \in 0..MaxChanges

Listed == call.pc = "ok" /\ call.op \in Lists

\* A list that a connector returns, and that deletes what is not in it, holds
\* every name that was in the registry all the time it was read and no name
\* that never was: not if a token dies, a page fails or names are pushed and
\* removed between two pages.  Numbered pages skip a name when another is
\* removed, and GHCR's list is its first page.
ListingComplete ==
    Listed => /\ call.got \subseteq {e[1] : e \in ever}
              /\ \/ stable \subseteq call.got
                 \/ kind \in {"dockerhub", "gitlab"} /\ removed
                 \/ kind = "ghcr"

\* A digest is one that the tag had during the call: change detection stores it
\* as the digest of that tag.
DigestServed ==
    call.pc = "ok" /\ call.op = "digest" => <<call.tag, call.digest>> \in ever

\* The door that a connector's test asks.
Asked == IF "token" \in Doors /\ kind # "dockerhub" THEN "token" ELSE "api"

\* A registry is saved once its test passes.  The door that the test asks did
\* accept the credentials while it ran, with every connector but GHCR's: a
\* stale or refused token, Basic authentication that a Bearer registry turns
\* down and a failed exchange do not pass.  Of ACR, ECR and GCR it is the token
\* service only (GCR's test passes on the registry's 401), and of Docker Hub
\* the Hub API, which says nothing of auth.docker.io.
TestedCredentialsAccepted ==
    call.pc = "ok" /\ call.op = "test" /\ kind # "ghcr" => Asked \in vouched

\* Every call ends, however the pages change under it.
CallsEnd == call.pc \in Busy ~> call.pc \notin Busy

=============================================================================
