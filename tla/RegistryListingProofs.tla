----------------------- MODULE RegistryListingProofs -----------------------
(***************************************************************************)
(* What the registry connectors promise of their answers, for every number *)
(* of names, every page size and however the registry changes: TypeOK,     *)
(* ListingComplete, DigestServed and TestedCredentialsAccepted.            *)
(*                                                                         *)
(* First the arithmetic of pages: the rank of a name among the names of a  *)
(* list, and what an empty, a short and a full page say about ranks.  Then *)
(* each step of a call is reduced to what it does to the call (Starts,     *)
(* Reads, ...), whatever the connector.  Then the invariant: of the names  *)
(* that stayed in the list since the call began, none comes before the     *)
(* place where the next page begins without having been read.              *)
(***************************************************************************)
EXTENDS RegistryListing, FiniteSetTheorems, WellFoundedInduction, TLAPS

-----------------------------------------------------------------------------
(* Names in the server's order *)

\* How many names of S the server puts before n.
Rank(S, n) == Cardinality({m \in S : m < n})

\* A set of naturals that is not empty has a least element.
LEMMA LeastNatural ==
    ASSUME NEW S, S \subseteq Nat, S # {}
    PROVE  \E x \in S : \A y \in S : x <= y
<1>1. IsWellFoundedOn(OpToRel(<, Nat), Nat)
  BY NatLessThanWellFounded
<1>2. PICK x \in S : \A y \in S : ~ (<<y, x>> \in OpToRel(<, Nat))
  BY <1>1, WFMin
<1>3. \A y \in S : ~ (y < x)
  BY <1>2 DEF OpToRel
<1> QED  BY <1>3

\* A set of names that is not empty has a last one, and Max is it.
LEMMA LastName ==
    ASSUME NEW S, S \subseteq Names, S # {}
    PROVE  Max(S) \in S /\ \A n \in S : n <= Max(S)
<1> DEFINE Above == {b \in Nat : \A n \in S : n <= b}
<1>1. MaxName \in Above
  BY ConstantsOK DEF Names
<1>2. PICK b \in Above : \A c \in Above : b <= c
  BY <1>1, LeastNatural
<1>3. b \in S
  <2>1. SUFFICES ASSUME b \notin S PROVE FALSE
    OBVIOUS
  <2>2. \A n \in S : n <= b - 1
    BY <2>1, <1>2, ConstantsOK DEF Names
  <2>3. b - 1 \in Nat
    <3>0. \A n \in S : n \in Nat /\ n >= 1
      BY ConstantsOK DEF Names
    <3>1. PICK n \in S : n \in Nat /\ n >= 1
      BY <3>0
    <3>2. b \in Nat /\ n <= b - 1
      BY <2>2, <1>2, <3>1
    <3> QED  BY <3>1, <3>2
  <2>4. b - 1 \in Above
    BY <2>2, <2>3
  <2> QED  BY <2>4, <1>2
<1>4. \A n \in S : b >= n
  BY <1>2, ConstantsOK DEF Names
<1>5. Max(S) \in S /\ \A n \in S : Max(S) >= n
  BY <1>3, <1>4 DEF Max
<1> QED  BY <1>5, ConstantsOK DEF Names

\* A set of names is finite, and holds at most MaxName of them.
LEMMA NamesAreFinite ==
    ASSUME NEW S, S \subseteq Names
    PROVE  IsFiniteSet(S) /\ Cardinality(S) \in 0..MaxName
<1>1. IsFiniteSet(Names) /\ Cardinality(Names) = MaxName
  BY FS_Interval, ConstantsOK DEF Names
<1> QED  BY <1>1, FS_Subset, FS_CardinalityType, ConstantsOK

\* A rank is a natural number, smaller than the name.
LEMMA RankType ==
    ASSUME NEW S, S \subseteq Names, NEW n \in Names
    PROVE  Rank(S, n) \in Nat /\ Rank(S, n) < n
<1> DEFINE Before == {m \in S : m < n}
<1>1. IsFiniteSet(1..(n - 1)) /\ Cardinality(1..(n - 1)) = n - 1
  BY FS_Interval, ConstantsOK DEF Names
<1>2. Before \in SUBSET (1..(n - 1))
  <2>1. \A m \in S : m < n => m \in 1..(n - 1)
    BY ConstantsOK DEF Names
  <2> QED  BY <2>1
<1>3. IsFiniteSet(Before) /\ Cardinality(Before) <= n - 1
  BY <1>1, <1>2, FS_Subset
<1>4. Cardinality(Before) \in Nat
  BY <1>3, FS_CardinalityType
<1> QED  BY <1>3, <1>4, ConstantsOK DEF Rank, Names

\* More names, or a later one: no smaller rank.
LEMMA RankGrows ==
    ASSUME NEW S, NEW T, S \subseteq T, T \subseteq Names,
           NEW m \in Names, NEW n \in Names, m <= n
    PROVE  Rank(S, m) <= Rank(T, n)
<1> DEFINE Before == {k \in T : k < n}
           Those == {k \in S : k < m}
<1>1. IsFiniteSet(Before)
  BY NamesAreFinite
<1>2. Those \in SUBSET Before
  <2>1. \A k \in S : k < m => k \in T /\ k < n
    BY ConstantsOK DEF Names
  <2> QED  BY <2>1
<1> HIDE DEF Before, Those
<1>3. Cardinality(Those) <= Cardinality(Before)
  BY <1>1, <1>2, FS_Subset
<1> QED  BY <1>3 DEF Rank, Before, Those

\* The names of a set are fewer than the rank of none of them.
LEMMA RankBelowCount ==
    ASSUME NEW S, S \subseteq Names, NEW n \in S
    PROVE  Rank(S, n) < Cardinality(S)
<1> DEFINE Before == {m \in S : m < n}
<1>1. IsFiniteSet(S) /\ IsFiniteSet(Before)
  BY NamesAreFinite
<1>2. Before \in SUBSET S /\ n \notin Before
  BY ConstantsOK DEF Names
<1> HIDE DEF Before
<1>3. Cardinality(Before) <= Cardinality(S) /\ Cardinality(Before) # Cardinality(S)
  BY <1>1, <1>2, FS_Subset
<1>4. Cardinality(Before) \in Nat /\ Cardinality(S) \in Nat
  BY <1>1, FS_CardinalityType
<1> QED  BY <1>3, <1>4 DEF Rank, Before

\* Ranks have no gaps: below a name of rank k or more there is one of rank k.
LEMMA RankIsTaken ==
    ASSUME NEW S, S \subseteq Names, NEW n \in S, NEW k \in Nat, Rank(S, n) >= k
    PROVE  \E m \in S : Rank(S, m) = k
<1> DEFINE Late == {m \in S : Rank(S, m) >= k}
<1>1. PICK m \in Late : \A j \in Late : m <= j
  <2>1. n \in Late /\ \A m \in Late : m \in Nat
    BY ConstantsOK DEF Names
  <2>2. Late \subseteq Nat /\ Late # {}
    BY <2>1
  <2> QED  BY <2>2, LeastNatural
<1>2. SUFFICES ASSUME Rank(S, m) # k PROVE FALSE
  BY <1>1
<1>3. Rank(S, m) \in Nat /\ Rank(S, m) > k
  BY <1>1, <1>2, RankType
<1> DEFINE Before == {j \in S : j < m}
<1>4. Before \subseteq Names /\ Cardinality(Before) = Rank(S, m)
  BY DEF Rank
<1>5. IsFiniteSet(Before) /\ Before # {}
  BY <1>3, <1>4, NamesAreFinite, FS_EmptySet
<1>6. PICK p \in Before : \A j \in Before : j <= p
  BY <1>4, <1>5, LastName
<1>7. {j \in S : j < p} = Before \ {p}
  <2>1. \A j \in S : j < p <=> j < m /\ j # p
    BY <1>6, ConstantsOK DEF Names
  <2> QED  BY <2>1
<1>8. Cardinality(Before \ {p}) = Cardinality(Before) - 1
  BY <1>5, <1>6, FS_RemoveElement
<1>9. Rank(S, p) = Rank(S, m) - 1
  BY <1>4, <1>7, <1>8 DEF Rank
<1>10. Rank(S, p) >= k
  BY <1>3, <1>9
<1>11. p \in Late
  BY <1>6, <1>10
<1> QED  BY <1>1, <1>6, <1>11, ConstantsOK DEF Names

\* The later of two names of a set has the greater rank.
LEMMA RankRises ==
    ASSUME NEW S, S \subseteq Names, NEW m \in S, NEW n \in Names, m < n
    PROVE  Rank(S, m) < Rank(S, n)
<1> DEFINE Before == {k \in S : k < n}
<1>1. Before \subseteq Names /\ m \in Before
  OBVIOUS
<1>2. {k \in Before : k < m} = {k \in S : k < m}
  <2>1. \A k \in S : k < m => k < n
    BY ConstantsOK DEF Names
  <2> QED  BY <2>1
<1> HIDE DEF Before
<1>3. Rank(Before, m) < Cardinality(Before)
  BY <1>1, RankBelowCount
<1> QED  BY <1>2, <1>3 DEF Rank, Before

\* A page is what the ranks of its names say.
LEMMA WindowByRank ==
    ASSUME NEW S, S \subseteq Names, NEW k \in Nat, NEW n
    PROVE  n \in Window(S, k) <=> /\ n \in S
                                  /\ k <= Rank(S, n) /\ Rank(S, n) < k + PageSize
<1>1. n \in S => Rank(S, n) \in Nat
  BY RankType DEF Names
<1>2. n \in Window(S, k) <=> n \in S /\ Rank(S, n) \in k..(k + PageSize - 1)
  BY DEF Window, Rank
<1> QED  BY <1>1, <1>2, ConstantsOK

\* Behind an empty page there is nothing.
LEMMA EmptyPageIsLast ==
    ASSUME NEW S, S \subseteq Names, NEW k \in Nat, Window(S, k) = {}
    PROVE  \A n \in S : Rank(S, n) < k
<1> SUFFICES ASSUME NEW n \in S, ~ (Rank(S, n) < k) PROVE FALSE
  OBVIOUS
<1>1. Rank(S, n) \in Nat
  BY RankType DEF Names
<1>2. PICK m \in S : Rank(S, m) = k
  BY <1>1, RankIsTaken
<1>3. m \in Window(S, k)
  BY <1>2, WindowByRank, ConstantsOK
<1> QED  BY <1>3

\* A page that is not empty begins before the last name.
LEMMA PageBeginsEarly ==
    ASSUME NEW S, S \subseteq Names, NEW k \in Nat, Window(S, k) # {}
    PROVE  k < MaxName
<1>1. PICK n \in Window(S, k) : TRUE
  OBVIOUS
<1>2. n \in S /\ k <= Rank(S, n)
  BY <1>1, WindowByRank
<1>3. n \in Names /\ Rank(S, n) \in Nat /\ Rank(S, n) < n
  BY <1>2, RankType
<1> QED  BY <1>2, <1>3, ConstantsOK DEF Names

\* Behind a page that is not full there is nothing: the names between the one
\* of rank k and the one of rank k + PageSize would fill it.
LEMMA ShortPageIsLast ==
    ASSUME NEW S, S \subseteq Names, NEW k \in Nat,
           Cardinality(Window(S, k)) < PageSize
    PROVE  \A n \in S : Rank(S, n) < k + PageSize
<1> SUFFICES ASSUME NEW n \in S, ~ (Rank(S, n) < k + PageSize) PROVE FALSE
  OBVIOUS
<1>0. PageSize \in Nat /\ PageSize > 0 /\ k + PageSize \in Nat
  BY ConstantsOK
<1>1. Rank(S, n) \in Nat
  BY RankType
<1>2. PICK first \in S : Rank(S, first) = k
  BY <1>0, <1>1, RankIsTaken
<1>3. PICK next \in S : Rank(S, next) = k + PageSize
  BY <1>0, <1>1, RankIsTaken
<1>4. first < next
  <2>1. first \in Names /\ next \in Names
    OBVIOUS
  <2>2. next <= first => Rank(S, next) <= Rank(S, first)
    BY <2>1, RankGrows
  <2> QED  BY <2>1, <2>2, <1>0, <1>2, <1>3, ConstantsOK DEF Names
<1> DEFINE A == {m \in S : m < next}
           B == {m \in S : m < first}
<1>5. IsFiniteSet(A) /\ A \cap B = B
  <2>1. \A m \in S : m < first => m < next
    BY <1>4, ConstantsOK DEF Names
  <2> QED  BY <2>1, NamesAreFinite
<1>6. Cardinality(A) = k + PageSize /\ Cardinality(B) = k
  BY <1>2, <1>3 DEF Rank
<1>7. A \ B \subseteq Window(S, k)
  <2> SUFFICES ASSUME NEW m \in A \ B PROVE m \in Window(S, k)
    OBVIOUS
  <2>1. m \in S /\ m \in Names /\ m < next /\ first <= m
    BY ConstantsOK DEF Names
  <2>2. k <= Rank(S, m)
    BY <2>1, <1>2, RankGrows
  <2>3. Rank(S, m) < k + PageSize
    BY <2>1, <1>3, RankRises
  <2> QED  BY <2>1, <2>2, <2>3, WindowByRank
<1> HIDE DEF A, B
<1>8. Cardinality(A \ B) = PageSize
  <2>1. Cardinality(A \ B) = Cardinality(A) - Cardinality(A \cap B)
    BY <1>5, FS_Difference
  <2>2. Cardinality(A \ B) = (k + PageSize) - k
    BY <2>1, <1>5, <1>6
  <2> QED  BY <2>2, <1>0
<1>9. Window(S, k) \subseteq Names /\ IsFiniteSet(Window(S, k))
  BY NamesAreFinite DEF Window
<1>10. Cardinality(A \ B) <= Cardinality(Window(S, k))
  BY <1>7, <1>9, FS_Subset
<1>11. Cardinality(Window(S, k)) \in Nat
  BY <1>9, FS_CardinalityType
<1> QED  BY <1>0, <1>8, <1>10, <1>11

-----------------------------------------------------------------------------
(* The steps of a call, by what they do to it *)

\* A call that has not begun has no token; a call that authenticates has read
\* nothing; only GitLab resolves a repository; Docker Hub asks for another page
\* only when the count says that there is one.
CallShape ==
    /\ call.op = "none" <=> call.pc = "idle"
    /\ call.pc = "auth" => call.at = 0 /\ call.got = {}
    /\ call.pc = "resolve" => kind = "gitlab" /\ call.op \in {"tags", "digest"}
    /\ kind = "dockerhub" /\ call.pc = "page" => call.at <= MaxName

\* Continuation by name, and by number.
Linked == {"v2", "acr", "gcr", "ecr"}
Numbered == {"dockerhub", "gitlab"}

\* What every step of a call has in common.
Carries ==
    /\ call' \in Call /\ call'.op = call.op /\ call'.tag = call.tag
    /\ CallStep

\* Authentication is done.
Starts ==
    /\ Carries
    /\ call.pc = "auth" /\ call'.pc \in {"resolve", "page"}
    /\ call'.at = call.at /\ call'.got = call.got
    /\ call'.pc = "resolve" => kind = "gitlab" /\ call.op \in {"tags", "digest"}
    /\ token' \in {"none", "live", "dead"}
    /\ token' # "none" => kind \in {"v2", "acr"}
    /\ kind = "acr" => call'.auth \in {"live", "dead"}
    /\ token = "none" /\ call'.auth \in {"live", "dead"} => "token" \in accepts
    /\ kind = "gcr" => "token" \in accepts
    /\ kind = "v2" => call'.auth # "static"
    /\ kind = "v2" /\ token = "none" /\ call'.auth \in {"live", "dead"} => bearer
    /\ kind \notin {"v2", "acr"} /\ call.op = "test" => call'.auth = "static"

\* The call fails.
Ends ==
    /\ Carries /\ token' = token
    /\ call.pc \in Busy /\ call'.pc = "failed"

\* The page has every name that comes from where it begins, whether by name or
\* by rank, to where the next one does.
Reads ==
    /\ Carries /\ token' = token
    /\ call.pc = "page" /\ call.op \in Lists /\ call'.pc \in {"page", "ok"}
    /\ call'.auth = call.auth
    /\ call'.got \subseteq call.got \cup Present(ListOf(call.op))
    /\ kind \in Linked => \A n \in Present(ListOf(call.op)) :
           n <= call.at \/ (call'.pc = "page" /\ n > call'.at) \/ n \in call'.got
    /\ kind \in Numbered => \A n \in Present(ListOf(call.op)) :
           \/ Rank(Present(ListOf(call.op)), n) < call.at
           \/ call'.pc = "page" /\ Rank(Present(ListOf(call.op)), n) >= call'.at
           \/ n \in call'.got
    /\ call.got \subseteq call'.got
    /\ kind = "dockerhub" /\ call'.pc = "page" => call'.at <= MaxName

\* The search for a repository's number goes on, ends or fails.
Resolves ==
    /\ Carries /\ token' = token
    /\ call.pc = "resolve" /\ call'.pc \in {"resolve", "page", "failed"}
    /\ call'.pc = "page" => call'.at = 0 /\ call'.got = {}

\* The digest of the tag is read.
Answers ==
    /\ Carries /\ token' = token
    /\ call.pc = "page" /\ call.op = "digest" /\ call'.pc = "ok"
    /\ call.tag \in Present("tags") /\ call'.digest = served["tags"][call.tag]

\* A digest is looked for on the next page.
Seeks ==
    /\ Carries /\ token' = token
    /\ call.pc = "page" /\ call.op = "digest" /\ call'.pc \in {"page", "failed"}
    /\ kind = "gitlab" /\ call'.auth = call.auth

\* The test passes.
Passes ==
    /\ Carries /\ token' = token
    /\ call.pc = "page" /\ call.op = "test" /\ call'.pc = "ok"
    /\ kind \notin {"ghcr", "acr", "ecr", "gcr"} => Authorized
    /\ kind = "ecr" => "token" \in accepts

\* A call gets past authentication, or fails there.
LEMMA AuthenticateMoves ==
    ASSUME TypeOK, CallShape, Authenticate PROVE Starts \/ Ends
<1> USE DEF TypeOK, Call, Lists, Busy, Names, Digests, Carries
<1>1. ASSUME NEW a \in {"live", "dead", "basic", "static"}, Authenticated(a),
             call.pc = "auth", CallStep,
             token' \in {"none", "live", "dead"}, token' # "none" => kind \in {"v2", "acr"},
             kind = "acr" => a \in {"live", "dead"},
             token = "none" /\ a \in {"live", "dead"} => "token" \in accepts,
             kind = "gcr" => "token" \in accepts,
             kind = "v2" => a # "static",
             kind = "v2" /\ token = "none" /\ a \in {"live", "dead"} => bearer,
             kind \notin {"v2", "acr"} /\ call.op = "test" => a = "static"
      PROVE  Starts
  <2>1. PICK pc \in {"resolve", "page"} :
            /\ call' = [call EXCEPT !.auth = a, !.pc = pc]
            /\ pc = "resolve" => kind = "gitlab" /\ ListOf(call.op) = "tags"
                                 /\ call.op # "test"
    BY <1>1 DEF Authenticated
  <2>2. pc = "resolve" => call.op \in {"tags", "digest"}
    BY <2>1, <1>1 DEF ListOf, CallShape
  <2>3. /\ call'.op = call.op /\ call'.tag = call.tag /\ call'.at = call.at
        /\ call'.got = call.got /\ call'.auth = a /\ call'.pc = pc
    BY <2>1
  <2>4. call' \in Call
    BY <2>1
  <2> QED  BY <1>1, <2>1, <2>2, <2>3, <2>4 DEF Starts
<1>2. ASSUME Fail, call.pc = "auth", CallStep, UNCHANGED token PROVE Ends
  <2>1. call' \in Call /\ call'.op = call.op /\ call'.tag = call.tag /\ call'.pc = "failed"
    BY <1>2 DEF Fail
  <2> QED  BY <1>2, <2>1 DEF Ends
<1>3. CASE V2AuthHeaders
  <2>1. CASE token # "none" /\ Authenticated(token) /\ UNCHANGED token
    BY <1>1, <1>3, <2>1 DEF V2AuthHeaders
  <2>2. CASE /\ token = "none" /\ bearer /\ "token" \in accepts
            /\ token' = "live" /\ Authenticated("live")
    BY <1>1, <1>3, <2>2 DEF V2AuthHeaders
  <2>3. CASE token = "none" /\ Authenticated("basic") /\ UNCHANGED token
    BY <1>1, <1>3, <2>3 DEF V2AuthHeaders
  <2> QED  BY <1>3, <2>1, <2>2, <2>3 DEF V2AuthHeaders
<1>4. CASE ACRToken
  <2>1. CASE token # "none" /\ Authenticated(token) /\ UNCHANGED token
    BY <1>1, <1>4, <2>1 DEF ACRToken
  <2>2. CASE /\ token = "none" /\ "token" \in accepts
            /\ token' = "live" /\ Authenticated("live")
    BY <1>1, <1>4, <2>2 DEF ACRToken
  <2>3. CASE token = "none" /\ Fail /\ UNCHANGED token
    BY <1>2, <1>4, <2>3 DEF ACRToken
  <2> QED  BY <1>4, <2>1, <2>2, <2>3 DEF ACRToken
<1>5. CASE TokenAuth
  <2>1. CASE Fail
    BY <1>2, <1>5, <2>1 DEF TokenAuth
  <2>2. CASE "token" \in accepts /\ kind = "gcr" /\ Authenticated("static")
    BY <1>1, <1>5, <2>2 DEF TokenAuth
  <2>3. CASE "token" \in accepts /\ kind = "dockerhub" /\ Authenticated("live")
    BY <1>1, <1>5, <2>3 DEF TokenAuth, AsksForToken
  <2> QED  BY <1>5, <2>1, <2>2, <2>3 DEF TokenAuth, AsksForToken
<1>6. CASE StaticAuth
  BY <1>1, <1>6 DEF StaticAuth, AsksForToken
<1>7. CASE GHCRListRepositories
  BY <1>2, <1>7 DEF GHCRListRepositories
<1> QED  BY <1>3, <1>4, <1>5, <1>6, <1>7 DEF Authenticate

\* A request that fails ends the call.
LEMMA RequestFailsMoves ==
    ASSUME TypeOK, RequestFails PROVE Ends
<1>1. call' = [call EXCEPT !.pc = "failed"] /\ call.pc \in Busy /\ CallStep /\ token' = token
  BY DEF RequestFails, Fail, Busy
<1>2. call' \in Call /\ call'.op = call.op /\ call'.tag = call.tag /\ call'.pc = "failed"
  BY <1>1 DEF TypeOK, Call
<1> QED  BY <1>1, <1>2 DEF Ends, Carries

\* A test passes with an answer that only accepted credentials get, or with the
\* token that was granted.
LEMMA TestMoves ==
    ASSUME TypeOK, TestStep PROVE Passes
<1>1. /\ TestPasses
      /\ kind \notin {"ghcr", "acr", "ecr", "gcr"} => Authorized
      /\ kind = "ecr" => "token" \in accepts
  BY DEF TestStep, V2Test, ACRTest, GCRTest, ECRTest, GHCRTest, DockerHubTest, GitLabTest
<1>2. call' = [call EXCEPT !.pc = "ok"] /\ call.op = "test" /\ call.pc = "page"
      /\ CallStep /\ token' = token
  BY <1>1 DEF TestPasses
<1>3. call' \in Call /\ call'.op = call.op /\ call'.tag = call.tag /\ call'.pc = "ok"
  BY <1>2 DEF TypeOK, Call
<1> QED  BY <1>1, <1>2, <1>3 DEF Passes, Carries

\* A page that leaves no gap before the next one is a step Reads.
LEMMA PageMoves ==
    ASSUME TypeOK, NEW P, P = Present(ListOf(call.op)), NEW page, page \subseteq P,
           NEW next \in 0..(MaxName + PageSize), NEW last \in BOOLEAN,
           ReadPage(page, next, last),
           kind \in Linked =>
               \A n \in P : n <= call.at \/ (~ last /\ n > next) \/ n \in page,
           kind \in Numbered =>
               \A n \in P : \/ Rank(P, n) < call.at
                            \/ ~ last /\ Rank(P, n) >= next
                            \/ n \in page,
           kind = "dockerhub" /\ ~ last => next <= MaxName
    PROVE  Reads
<1>1. /\ call' = [call EXCEPT !.got = @ \cup page, !.at = next,
                              !.pc = IF last THEN "ok" ELSE "page"]
      /\ call.pc = "page" /\ call.op \in Lists /\ CallStep /\ token' = token
  BY DEF ReadPage
<1>2. page \subseteq Names
  BY DEF Present
<1>3. call' \in Call
  BY <1>1, <1>2 DEF TypeOK, Call, Busy
<1>4. /\ call'.op = call.op /\ call'.tag = call.tag /\ call'.auth = call.auth
      /\ call'.got = call.got \cup page /\ call'.at = next
      /\ call'.pc = IF last THEN "ok" ELSE "page"
  BY <1>1 DEF TypeOK, Call
<1>5. Carries
  BY <1>1, <1>3, <1>4 DEF Carries
<1> QED  BY <1>1, <1>4, <1>5 DEF Reads

\* The names behind the last one read, up to the last one of the page: no gap.
LEMMA FollowLinksMoves ==
    ASSUME TypeOK, kind \notin Numbered, FollowLinks PROVE Reads
<1>1. PICK P : P = Present(ListOf(call.op))
  OBVIOUS
<1>2. PICK R : R = {n \in P : n > call.at}
  OBVIOUS
<1>3. PICK page : page = Window(R, 0)
  OBVIOUS
<1>4. PICK next : next = IF page = {} THEN call.at ELSE Max(page)
  OBVIOUS
<1>5. Rest = R
  BY <1>1, <1>2 DEF Rest, Paged, FollowLinks, ReadPage
<1>6. ReadPage(page, next, page = R)
  BY <1>3, <1>4, <1>5 DEF FollowLinks
<1>7. P \subseteq Names /\ R \subseteq Names /\ page \subseteq R
  BY <1>1, <1>2, <1>3 DEF Present, Window
<1>8. page # {} => next \in page
  BY <1>4, <1>7, LastName
<1>9. call.at \in 0..(MaxName + PageSize)
  BY DEF TypeOK, Call
<1>10. next \in 0..(MaxName + PageSize)
  <2>1. \A n \in Names : n \in 0..(MaxName + PageSize)
    BY ConstantsOK DEF Names
  <2> QED  BY <2>1, <1>4, <1>7, <1>8, <1>9
<1>11. ASSUME NEW n \in P, n > call.at, ~ (page # R /\ n > next)
       PROVE  n \in page
  <2>1. n \in R
    BY <1>2, <1>11
  <2>2. CASE page = R
    BY <2>1, <2>2
  <2>3. CASE page # R
    <3>1. n <= next
      BY <1>7, <1>9, <1>10, <1>11, <2>3, ConstantsOK DEF Names
    <3>2. page # {}
      BY <3>1, <1>4, <1>7, <1>9, <1>11, ConstantsOK DEF Names
    <3>3. Rank(R, next) < PageSize
      BY <3>2, <1>3, <1>7, <1>8, WindowByRank, ConstantsOK
    <3>4. Rank(R, n) <= Rank(R, next)
      BY <3>1, <3>2, <1>7, <1>8, RankGrows
    <3>5. Rank(R, n) \in Nat /\ Rank(R, next) \in Nat
      BY <2>1, <3>2, <1>7, <1>8, RankType
    <3>6. 0 <= Rank(R, n) /\ Rank(R, n) < 0 + PageSize
      BY <3>3, <3>4, <3>5, ConstantsOK
    <3> QED  BY <3>6, <2>1, <1>3, <1>7, WindowByRank
  <2> QED  BY <2>2, <2>3
<1>12. \A n \in P : n <= call.at \/ (page # R /\ n > next) \/ n \in page
  BY <1>7, <1>9, <1>11, ConstantsOK DEF Names
<1>13. kind # "dockerhub"
  BY DEF Numbered
<1> QED  BY <1>1, <1>2, <1>6, <1>7, <1>10, <1>12, <1>13, PageMoves

\* The names whose ranks the page covers; the last page is short, empty or
\* counted.
LEMMA NumberedMoves ==
    ASSUME TypeOK, CallShape, DockerHubList \/ GitLabListRepositories \/ GitLabListTags
    PROVE  Reads
<1>1. PICK P : P = Present(ListOf(call.op))
  OBVIOUS
<1>2. PICK at : at = call.at
  OBVIOUS
<1>3. PICK page : page = Window(P, at)
  OBVIOUS
<1>4. NumberedPage = page /\ Present(Paged) = P /\ call.pc = "page"
  BY <1>1, <1>2, <1>3
  DEF NumberedPage, Paged, ReadPage, DockerHubList, GitLabListRepositories, GitLabListTags
<1>5. P \subseteq Names /\ page \subseteq P /\ at \in 0..(MaxName + PageSize)
  BY <1>1, <1>2, <1>3 DEF Present, Window, TypeOK, Call
<1>6. at \in Nat /\ PageSize \in Nat /\ MaxName \in Nat
  BY <1>5, ConstantsOK
<1>7. \A n \in P : Rank(P, n) \in Nat
  BY <1>5, RankType
<1>8. \A n \in P : Rank(P, n) < at \/ Rank(P, n) >= at + PageSize \/ n \in page
  BY <1>3, <1>5, <1>6, <1>7, WindowByRank
<1>9. page # {} => at < MaxName
  BY <1>3, <1>5, <1>6, PageBeginsEarly
<1>10. kind \in Numbered => kind \notin Linked
  BY DEF Numbered, Linked
<1>11. CASE DockerHubList
  <2>1. kind = "dockerhub" /\ kind \notin Linked
    BY <1>11 DEF DockerHubList, Linked
  <2>2. ReadPage(page, at + PageSize, Cardinality(P) <= at + PageSize)
    BY <1>2, <1>4, <1>11 DEF DockerHubList
  <2>3. Cardinality(P) \in Nat /\ Cardinality(P) <= MaxName
    BY <1>5, <1>6, NamesAreFinite
  <2>4. at <= MaxName
    BY <2>1, <1>2, <1>4 DEF CallShape
  <2>5. at + PageSize \in 0..(MaxName + PageSize)
    BY <2>4, <1>6
  <2>6. CASE Cardinality(P) <= at + PageSize
    <3>1. ReadPage(page, at + PageSize, TRUE)
      BY <2>2, <2>6 DEF ReadPage
    <3>2. \A n \in P : Rank(P, n) < Cardinality(P)
      BY <1>5, RankBelowCount
    <3>3. \A n \in P : Rank(P, n) < at + PageSize
      BY <3>2, <2>3, <2>6, <1>6, <1>7
    <3>4. \A n \in P : \/ Rank(P, n) < at
                       \/ ~ TRUE /\ Rank(P, n) >= at + PageSize
                       \/ n \in page
      BY <3>3, <1>6, <1>7, <1>8
    <3> QED  BY <1>1, <1>2, <1>5, <2>1, <2>5, <3>1, <3>4, PageMoves
  <2>7. CASE ~ (Cardinality(P) <= at + PageSize)
    <3>1. ReadPage(page, at + PageSize, FALSE)
      BY <2>2, <2>7 DEF ReadPage
    <3>2. at + PageSize <= MaxName
      BY <2>3, <2>7, <1>6
    <3>3. \A n \in P : \/ Rank(P, n) < at
                       \/ ~ FALSE /\ Rank(P, n) >= at + PageSize
                       \/ n \in page
      BY <1>8
    <3> QED  BY <1>1, <1>2, <1>5, <2>1, <2>5, <3>1, <3>2, <3>3, PageMoves
  <2> QED  BY <2>6, <2>7
<1>12. ASSUME kind = "gitlab", ReadPage(page, at + PageSize, FALSE), page # {}
       PROVE  Reads
  <2>1. at + PageSize \in 0..(MaxName + PageSize)
    BY <1>6, <1>9, <1>12
  <2>2. kind \notin Linked /\ kind # "dockerhub"
    BY <1>12 DEF Linked
  <2>3. \A n \in P : \/ Rank(P, n) < at
                     \/ ~ FALSE /\ Rank(P, n) >= at + PageSize
                     \/ n \in page
    BY <1>8
  <2> QED  BY <1>1, <1>2, <1>5, <1>12, <2>1, <2>2, <2>3, PageMoves
<1>13. ASSUME kind = "gitlab", ReadPage(page, at, TRUE),
              \A n \in P : Rank(P, n) < at \/ n \in page
       PROVE  Reads
  <2>1. kind \notin Linked /\ kind # "dockerhub"
    BY <1>13 DEF Linked
  <2>2. \A n \in P : \/ Rank(P, n) < at
                     \/ ~ TRUE /\ Rank(P, n) >= at
                     \/ n \in page
    BY <1>13
  <2> QED  BY <1>1, <1>2, <1>5, <1>13, <2>1, <2>2, PageMoves
<1>14. CASE GitLabListRepositories
  <2>1. kind = "gitlab"
    BY <1>14 DEF GitLabListRepositories
  <2>2. CASE page = {}
    <3>1. \A n \in P : Rank(P, n) < at
      BY <2>2, <1>3, <1>5, <1>6, EmptyPageIsLast
    <3>2. ReadPage(page, at, TRUE)
      BY <2>2, <1>2, <1>4, <1>14 DEF GitLabListRepositories
    <3> QED  BY <2>1, <3>1, <3>2, <1>13
  <2>3. CASE page # {}
    BY <2>1, <2>3, <1>2, <1>4, <1>12, <1>14 DEF GitLabListRepositories
  <2> QED  BY <2>2, <2>3
<1>15. CASE GitLabListTags
  <2>1. kind = "gitlab"
    BY <1>15 DEF GitLabListTags
  <2>2. CASE Cardinality(page) < PageSize
    <3>1. \A n \in P : Rank(P, n) < at + PageSize
      BY <2>2, <1>3, <1>5, <1>6, ShortPageIsLast
    <3>2. \A n \in P : Rank(P, n) < at \/ n \in page
      BY <3>1, <1>6, <1>7, <1>8
    <3>3. ReadPage(page, at, TRUE)
      BY <2>2, <1>2, <1>4, <1>15 DEF GitLabListTags
    <3> QED  BY <2>1, <3>2, <3>3, <1>13
  <2>3. CASE ~ (Cardinality(page) < PageSize)
    <3>1. page # {}
      BY <2>3, FS_EmptySet, ConstantsOK
    <3>2. ReadPage(page, at + PageSize, FALSE)
      BY <2>3, <1>2, <1>4, <1>15 DEF GitLabListTags
    <3> QED  BY <2>1, <3>1, <3>2, <1>12
  <2> QED  BY <2>2, <2>3
<1> QED  BY <1>11, <1>14, <1>15

\* GHCR promises no more than the page.
LEMMA FirstPageMoves ==
    ASSUME TypeOK, GHCRListTags PROVE Reads
<1>1. PICK P : P = Present(ListOf(call.op))
  OBVIOUS
<1>2. kind = "ghcr" /\ kind \notin Linked /\ kind \notin Numbered
  BY DEF GHCRListTags, Linked, Numbered
<1>3. ReadPage(Window(Rest, 0), call.at, TRUE)
  BY DEF GHCRListTags
<1>4. Window(Rest, 0) \subseteq P
  BY <1>1, <1>3 DEF ReadPage, Window, Rest, Paged
<1>5. call.at \in 0..(MaxName + PageSize)
  BY DEF TypeOK, Call
<1> QED  BY <1>1, <1>2, <1>3, <1>4, <1>5, PageMoves

\* The place where a search goes on is still in bounds.
LEMMA NextPlace ==
    ASSUME TypeOK, NumberedPage # {}
    PROVE  call.at + PageSize \in 0..(MaxName + PageSize)
<1>1. call.at \in 0..(MaxName + PageSize) /\ Present(Paged) \subseteq Names
  BY DEF TypeOK, Call, Present
<1>2. call.at \in Nat
  BY <1>1, ConstantsOK
<1>3. call.at < MaxName
  BY <1>1, <1>2, PageBeginsEarly DEF NumberedPage
<1> QED  BY <1>2, <1>3, ConstantsOK

\* The search for the number of a repository leaves nothing behind.
LEMMA ResolveMoves ==
    ASSUME TypeOK, CallShape, GitLabResolve PROVE Resolves
<1>1. call.pc = "resolve" /\ CallStep /\ token' = token
  BY DEF GitLabResolve
<1>2. CASE NumberedPage # {}
  <2>1. call' = [call EXCEPT !.got = @ \cup NumberedPage, !.at = @ + PageSize]
    BY <1>2 DEF GitLabResolve
  <2>2. NumberedPage \subseteq Names
    BY DEF NumberedPage, Window, Present
  <2>3. call' \in Call
    BY <1>2, <2>1, <2>2, NextPlace DEF TypeOK, Call, Busy
  <2>4. call'.op = call.op /\ call'.tag = call.tag /\ call'.pc = call.pc
    BY <2>1 DEF TypeOK, Call
  <2> QED  BY <1>1, <2>3, <2>4 DEF Resolves, Carries
<1>3. CASE NumberedPage = {} /\ 1 \in call.got
  <2>1. call' = [call EXCEPT !.pc = "page", !.at = 0, !.got = {}]
    BY <1>3 DEF GitLabResolve
  <2>2. 0 \in 0..(MaxName + PageSize)
    BY ConstantsOK
  <2>3. call' \in Call
    BY <2>1, <2>2 DEF TypeOK, Call, Busy
  <2>4. /\ call'.op = call.op /\ call'.tag = call.tag /\ call'.pc = "page"
        /\ call'.at = 0 /\ call'.got = {}
    BY <2>1 DEF TypeOK, Call
  <2> QED  BY <1>1, <2>3, <2>4 DEF Resolves, Carries
<1>4. CASE NumberedPage = {} /\ 1 \notin call.got
  <2>1. call' = [call EXCEPT !.pc = "failed"]
    BY <1>4 DEF GitLabResolve, NotFound
  <2>2. call' \in Call
    BY <2>1 DEF TypeOK, Call, Busy
  <2>3. call'.op = call.op /\ call'.tag = call.tag /\ call'.pc = "failed"
    BY <2>1 DEF TypeOK, Call
  <2> QED  BY <1>1, <2>2, <2>3 DEF Resolves, Carries
<1> QED  BY <1>2, <1>3, <1>4

\* Every step of a list method.
LEMMA ListMoves ==
    ASSUME TypeOK, CallShape, ListStep PROVE Reads \/ Resolves
<1>1. CASE V2List \/ ACRList \/ GCRList \/ ECRList
  BY <1>1, FollowLinksMoves DEF V2List, ACRList, GCRList, ECRList, Numbered
<1>2. CASE GHCRListTags
  BY <1>2, FirstPageMoves
<1>3. CASE DockerHubList \/ GitLabListRepositories \/ GitLabListTags
  BY <1>3, NumberedMoves
<1>4. CASE GitLabResolve
  BY <1>4, ResolveMoves
<1> QED  BY <1>1, <1>2, <1>3, <1>4 DEF ListStep

\* A digest is the one that the tag has when the answer is read.
LEMMA DigestMoves ==
    ASSUME TypeOK, DigestStep PROVE Answers \/ Seeks
<1>1. ASSUME NEW t, t = call.tag, t \in Present("tags"), call.op = "digest",
             Answer(served["tags"][t])
      PROVE  Answers
  <2>1. PICK d : d = served["tags"][t]
    OBVIOUS
  <2>2. d \in Digests
    BY <2>1, <1>1 DEF TypeOK, Present, Lists
  <2>3. /\ call' = [call EXCEPT !.pc = "ok", !.digest = d]
        /\ call.pc = "page" /\ CallStep /\ token' = token
    BY <2>1, <1>1 DEF Answer
  <2>4. call' \in Call
    BY <2>2, <2>3 DEF TypeOK, Call, Busy
  <2>5. call'.op = call.op /\ call'.tag = call.tag /\ call'.pc = "ok" /\ call'.digest = d
    BY <2>3 DEF TypeOK, Call
  <2> QED  BY <1>1, <2>1, <2>3, <2>4, <2>5 DEF Answers, Carries
<1>2. CASE V2GetDigest \/ ACRGetDigest \/ GCRGetDigest \/ GHCRGetDigest \/ ECRGetDigest
           \/ DockerHubGetDigest
  <2>1. HeadManifest
    BY <1>2 DEF V2GetDigest, ACRGetDigest, GCRGetDigest, GHCRGetDigest, ECRGetDigest,
                DockerHubGetDigest
  <2> QED  BY <2>1, <1>1 DEF HeadManifest
<1>3. CASE GitLabGetDigest
  <2>1. kind = "gitlab" /\ call.op = "digest" /\ call.pc = "page"
    BY <1>3 DEF GitLabGetDigest
  <2>2. NumberedPage \subseteq Present("tags")
    BY <2>1 DEF NumberedPage, Window, Paged, ListOf
  <2>3. CASE \E t \in NumberedPage : IsTag(t) /\ Answer(served["tags"][t])
    BY <2>1, <2>2, <2>3, <1>1 DEF IsTag
  <2>4. ASSUME CallStep, token' = token,
               call' = IF Cardinality(NumberedPage) = PageSize
                       THEN [call EXCEPT !.at = @ + PageSize] ELSE NotFound
        PROVE  Seeks
    <3>1. CASE Cardinality(NumberedPage) = PageSize
      <4>1. call' = [call EXCEPT !.at = @ + PageSize]
        BY <2>4, <3>1
      <4>2. NumberedPage # {}
        BY <3>1, FS_EmptySet, ConstantsOK
      <4>3. call' \in Call
        BY <4>1, <4>2, NextPlace DEF TypeOK, Call, Busy
      <4>4. /\ call'.op = call.op /\ call'.tag = call.tag /\ call'.pc = call.pc
            /\ call'.auth = call.auth
        BY <4>1 DEF TypeOK, Call
      <4> QED  BY <2>1, <2>4, <4>3, <4>4 DEF Seeks, Carries
    <3>2. CASE Cardinality(NumberedPage) # PageSize
      <4>1. call' = [call EXCEPT !.pc = "failed"]
        BY <2>4, <3>2 DEF NotFound
      <4>2. call' \in Call
        BY <4>1 DEF TypeOK, Call, Busy
      <4>3. /\ call'.op = call.op /\ call'.tag = call.tag /\ call'.pc = "failed"
            /\ call'.auth = call.auth
        BY <4>1 DEF TypeOK, Call
      <4> QED  BY <2>1, <2>4, <4>2, <4>3 DEF Seeks, Carries
    <3> QED  BY <3>1, <3>2
  <2> QED  BY <1>3, <2>3, <2>4 DEF GitLabGetDigest
<1> QED  BY <1>2, <1>3 DEF DigestStep

\* Every step of a call is one of these.
LEMMA ProgressMoves ==
    ASSUME TypeOK, CallShape, Progress
    PROVE  Starts \/ Ends \/ Reads \/ Resolves \/ Answers \/ Seeks \/ Passes
BY AuthenticateMoves, RequestFailsMoves, ListMoves, DigestMoves, TestMoves DEF Progress

-----------------------------------------------------------------------------
(* What the other steps leave of a list *)

\* A step of the call leaves the registry and the ghosts alone.
LEMMA CallKeepsRegistry ==
    ASSUME Carries
    PROVE  /\ UNCHANGED <<served, accepts, bearer, kind, stable, ever, removed, vouched>>
           /\ changes' = changes
           /\ ListOf(call.op)' = ListOf(call.op)
           /\ Present(ListOf(call.op))' = Present(ListOf(call.op))
           /\ Entries(ListOf(call.op))' = Entries(ListOf(call.op))
BY DEF Carries, CallStep, registry, ghosts, ListOf, Present, Entries

\* A push adds to the list, and to no other.
LEMMA PushAdds ==
    ASSUME TypeOK, NEW l \in Lists, NEW n \in Names, NEW d \in Digests, Push(l, n, d),
           NEW m \in Lists
    PROVE  /\ Present(m) \subseteq Present(m)'
           /\ Entries(m)' \subseteq Entries(m) \cup IF m = l THEN {<<n, d>>} ELSE {}
           /\ served' \in [Lists -> [Names -> Digests \cup {0}]]
<1>1. /\ served \in [Lists -> [Names -> Digests \cup {0}]]
      /\ served' = [served EXCEPT ![l][n] = d]
  BY DEF TypeOK, Push
<1>2. served' \in [Lists -> [Names -> Digests \cup {0}]]
  BY <1>1
<1>3. \A k \in Names : served'[m][k] = IF m = l /\ k = n THEN d ELSE served[m][k]
  BY <1>1
<1>4. d # 0
  BY ConstantsOK DEF Digests
<1>5. \A k \in Present(m) : k \in Names /\ served'[m][k] # 0
  BY <1>3, <1>4 DEF Present
<1>6. \A e \in Entries(m)' : e \in Entries(m) \/ (m = l /\ e = <<n, d>>)
  BY <1>3, <1>4 DEF Present, Entries
<1>7. Present(m) \subseteq Present(m)'
  BY <1>5 DEF Present
<1> QED  BY <1>2, <1>6, <1>7

\* A removal takes one name from the list, and none from another.
LEMMA RemoveTakes ==
    ASSUME TypeOK, NEW l \in Lists, NEW n \in Names, Remove(l, n), NEW m \in Lists
    PROVE  /\ Present(m)' = IF m = l THEN Present(m) \ {n} ELSE Present(m)
           /\ Entries(m)' \subseteq Entries(m)
           /\ served' \in [Lists -> [Names -> Digests \cup {0}]]
<1>1. /\ served \in [Lists -> [Names -> Digests \cup {0}]]
      /\ served' = [served EXCEPT ![l][n] = 0]
  BY DEF TypeOK, Remove
<1>2. served' \in [Lists -> [Names -> Digests \cup {0}]]
  BY <1>1
<1>3. \A k \in Names : served'[m][k] = IF m = l /\ k = n THEN 0 ELSE served[m][k]
  BY <1>1
<1>4. Present(m)' = IF m = l THEN Present(m) \ {n} ELSE Present(m)
  BY <1>3 DEF Present
<1>5. \A e \in Entries(m)' : e \in Entries(m)
  BY <1>3, <1>4 DEF Present, Entries
<1> QED  BY <1>2, <1>4, <1>5

\* What a call begins with.
LEMMA Begun ==
    ASSUME NEW op \in Lists \cup {"test", "digest"}, NEW tag \in Names, Begin(op, tag)
    PROVE  /\ call'.op = op /\ call'.pc = "auth" /\ call'.at = 0 /\ call'.got = {}
           /\ call'.tag = tag /\ call'.auth = "none" /\ call' \in Call
           /\ UNCHANGED <<served, accepts, bearer, kind, token, changes>>
           /\ stable' = Present(ListOf(op))' /\ ever' = Entries(ListOf(op))'
           /\ removed' = FALSE /\ vouched' = IF op = "test" THEN accepts ELSE {}
<1>1. call' = [op |-> op, pc |-> "auth", at |-> 0, got |-> {}, tag |-> tag,
               digest |-> 0, auth |-> "none"]
  BY DEF Begin
<1>2. 0 \in 0..(MaxName + PageSize)
  BY ConstantsOK
<1>3. call' \in Call
  BY <1>1, <1>2 DEF Call, Busy
<1>4. UNCHANGED <<served, accepts, bearer, kind, token, changes>>
  BY DEF Begin, registry
<1>5. stable' = Present(ListOf(op))' /\ ever' = Entries(ListOf(op))'
  BY <1>4 DEF Begin, Present, Entries
<1> QED  BY <1>1, <1>3, <1>4, <1>5 DEF Begin

\* A dead token changes the header of the call in progress and nothing else of it.
LEMMA TokenDead ==
    ASSUME TypeOK, TokenDies
    PROVE  /\ UNCHANGED <<served, accepts, bearer, kind, stable, ever, removed, vouched>>
           /\ changes' = changes
           /\ call' \in Call
           /\ call'.op = call.op /\ call'.pc = call.pc /\ call'.at = call.at
           /\ call'.got = call.got /\ call'.tag = call.tag /\ call'.digest = call.digest
           /\ call'.auth = IF call.auth = "live" THEN "dead" ELSE call.auth
           /\ token' = IF token = "live" THEN "dead" ELSE token
<1>1. call' = IF call.auth = "live" THEN [call EXCEPT !.auth = "dead"] ELSE call
  BY DEF TokenDies
<1>2. call \in Call
  BY DEF TypeOK
<1>3. /\ call' \in Call
      /\ call'.op = call.op /\ call'.pc = call.pc /\ call'.at = call.at
      /\ call'.got = call.got /\ call'.tag = call.tag /\ call'.digest = call.digest
      /\ call'.auth = IF call.auth = "live" THEN "dead" ELSE call.auth
  <2>1. CASE call.auth = "live"
    BY <1>1, <1>2, <2>1 DEF Call
  <2>2. CASE call.auth # "live"
    BY <1>1, <1>2, <2>2
  <2> QED  BY <2>1, <2>2
<1> QED  BY <1>3 DEF TokenDies, registry, ghosts

-----------------------------------------------------------------------------
(* The invariant: its parts and what each step does to them *)

\* Every step keeps the types.
LEMMA TypeStep ==
    ASSUME TypeOK, CallShape, [Next]_vars PROVE TypeOK' /\ CallShape'
<1>1. ASSUME NEW op \in Lists \cup {"test", "digest"}, NEW tag \in Names, Begin(op, tag)
      PROVE  TypeOK' /\ CallShape'
  <2>1. ListOf(op) \in Lists
    BY DEF ListOf, Lists
  <2>2. Present(ListOf(op)) \subseteq Names
    BY DEF Present
  <2>3. Entries(ListOf(op)) \subseteq Names \X Digests
    BY <2>1 DEF Entries, Present, TypeOK
  <2>4. stable' \subseteq Names /\ ever' \subseteq Names \X Digests
    BY <1>1, <2>2, <2>3 DEF Begin
  <2>5. Doors' = Doors
    <3>1. kind' = kind /\ bearer' = bearer
      BY <1>1 DEF Begin, registry
    <3> QED  BY <3>1 DEF Doors
  <2>6. vouched' \subseteq Doors
    BY <1>1, Begun DEF TypeOK
  <2> QED  BY <1>1, <2>4, <2>5, <2>6, Begun, ConstantsOK DEF TypeOK, CallShape, Lists
<1>2. CASE Progress
  <2>1. Starts \/ Ends \/ Reads \/ Resolves \/ Answers \/ Seeks \/ Passes
    BY <1>2, ProgressMoves
  <2>2. Carries
    BY <2>1 DEF Starts, Ends, Reads, Resolves, Answers, Seeks, Passes
  <2>3. token' \in {"none", "live", "dead"} /\ (token' # "none" => kind \in {"v2", "acr"})
    BY <2>1 DEF TypeOK, Starts, Ends, Reads, Resolves, Answers, Seeks, Passes
  <2>13. Doors' = Doors
    BY <2>2, CallKeepsRegistry DEF Carries, Doors
  <2>4. TypeOK'
    BY <2>2, <2>3, <2>13, CallKeepsRegistry DEF TypeOK, Carries
  <2>5. kind' = kind /\ call'.op = call.op
    BY <2>2, CallKeepsRegistry DEF Carries
  <2>6. CASE Starts
    BY <2>4, <2>5, <2>6, ConstantsOK DEF CallShape, Starts
  <2>7. CASE Ends
    BY <2>4, <2>5, <2>7 DEF CallShape, Ends, Busy
  <2>8. CASE Reads
    BY <2>4, <2>5, <2>8 DEF CallShape, Reads
  <2>9. CASE Resolves
    BY <2>4, <2>5, <2>9 DEF CallShape, Resolves
  <2>10. CASE Answers
    BY <2>4, <2>5, <2>10 DEF CallShape, Answers
  <2>11. CASE Seeks
    BY <2>4, <2>5, <2>11 DEF CallShape, Seeks
  <2>12. CASE Passes
    BY <2>4, <2>5, <2>12 DEF CallShape, Passes
  <2> QED  BY <2>1, <2>4, <2>6, <2>7, <2>8, <2>9, <2>10, <2>11, <2>12
<1>3. ASSUME NEW l \in Lists, NEW n \in Names, Remove(l, n) PROVE TypeOK' /\ CallShape'
  <2>1. served' \in [Lists -> [Names -> Digests \cup {0}]]
    BY <1>3, RemoveTakes
  <2>2. changes' \in 0..MaxChanges
    BY <1>3, ConstantsOK DEF Remove, Change, TypeOK
  <2>4. stable' \subseteq Names /\ removed' \in BOOLEAN
    BY <1>3 DEF Remove, TypeOK
  <2>3. UNCHANGED <<accepts, bearer, kind, token, call, ever, vouched>>
    BY <1>3 DEF Remove
  <2> QED  BY <2>1, <2>2, <2>3, <2>4 DEF TypeOK, CallShape, Doors
<1>4. ASSUME NEW l \in Lists, NEW n \in Names, NEW d \in Digests, Push(l, n, d)
      PROVE  TypeOK' /\ CallShape'
  <2>1. served' \in [Lists -> [Names -> Digests \cup {0}]]
    BY <1>4, PushAdds
  <2>2. changes' \in 0..MaxChanges
    BY <1>4, ConstantsOK DEF Push, Change, TypeOK
  <2>3. ever' \subseteq Names \X Digests
    BY <1>4 DEF Push, TypeOK
  <2>4. UNCHANGED <<accepts, bearer, kind, token, call, stable, removed, vouched>>
    BY <1>4 DEF Push
  <2> QED  BY <2>1, <2>2, <2>3, <2>4 DEF TypeOK, CallShape, Doors
<1>5. CASE TurnCredentials
  <2>1. changes' \in 0..MaxChanges
    BY <1>5, ConstantsOK DEF TurnCredentials, Change, TypeOK
  <2>2. accepts' \subseteq Doors /\ vouched' \subseteq Doors
    <3>1. PICK d \in Doors :
              /\ accepts' = IF d \in accepts THEN accepts \ {d} ELSE accepts \cup {d}
              /\ vouched' = IF call.pc \in Busy /\ call.op = "test"
                            THEN vouched \cup {d} ELSE vouched
      BY <1>5 DEF TurnCredentials
    <3> QED  BY <3>1 DEF TypeOK
  <2>3. UNCHANGED <<served, bearer, kind, token, call, stable, ever, removed>>
    BY <1>5 DEF TurnCredentials
  <2> QED  BY <2>1, <2>2, <2>3 DEF TypeOK, CallShape, Doors
<1>6. CASE TokenDies
  <2>1. TypeOK'
    <3>1. Doors' = Doors
      BY <1>6, TokenDead DEF Doors
    <3> QED  BY <1>6, <3>1, TokenDead DEF TypeOK
  <2> QED  BY <1>6, <2>1, TokenDead DEF CallShape
<1>7. CASE TokenLeavesCache
  BY <1>7 DEF TypeOK, CallShape, Doors, TokenLeavesCache, registry, ghosts
<1>8. CASE UNCHANGED vars
  BY <1>8 DEF TypeOK, CallShape, Doors, vars, registry, ghosts
<1> QED  BY <1>1, <1>2, <1>3, <1>4, <1>5, <1>6, <1>7, <1>8 DEF Next, Registry

\* What the ghosts remember of the list that the call in progress reads.
Watching ==
    call.pc \in Busy =>
        /\ stable \subseteq Present(ListOf(call.op))
        /\ Entries(ListOf(call.op)) \subseteq ever

\* Every step of the registry is seen by the ghosts of the call in progress.
LEMMA WatchingStep ==
    ASSUME TypeOK, CallShape, Watching, [Next]_vars PROVE Watching'
<1>1. ASSUME NEW op \in Lists \cup {"test", "digest"}, NEW tag \in Names, Begin(op, tag)
      PROVE  Watching'
  <2>1. ListOf(call.op)' = ListOf(op)
    BY <1>1, Begun DEF ListOf
  <2>2. stable' = Present(ListOf(call.op))' /\ ever' = Entries(ListOf(call.op))'
    BY <1>1, <2>1, Begun DEF Present, Entries
  <2> QED  BY <2>2 DEF Watching
<1>2. CASE Progress
  <2>1. Starts \/ Ends \/ Reads \/ Resolves \/ Answers \/ Seeks \/ Passes
    BY <1>2, ProgressMoves
  <2>2. Carries /\ call.pc \in Busy
    BY <2>1 DEF Starts, Ends, Reads, Resolves, Answers, Seeks, Passes, Busy
  <2> QED  BY <2>2, CallKeepsRegistry DEF Watching
<1>3. ASSUME NEW l \in Lists, NEW n \in Names, Remove(l, n) PROVE Watching'
  <2> SUFFICES ASSUME call.pc \in Busy PROVE Watching'
    BY <1>3 DEF Watching, Remove
  <2>1. PICK m \in Lists : m = ListOf(call.op)
    BY DEF ListOf, Lists
  <2>2. stable \subseteq Present(m) /\ Entries(m) \subseteq ever
    BY <2>1 DEF Watching
  <2>3. /\ stable' = IF l = m THEN stable \ {n} ELSE stable
        /\ ever' = ever /\ ListOf(call.op)' = m
    BY <1>3, <2>1 DEF Remove, Watched
  <2>4. Present(m)' = IF m = l THEN Present(m) \ {n} ELSE Present(m)
    BY <1>3, RemoveTakes
  <2>5. Entries(m)' \subseteq Entries(m)
    BY <1>3, RemoveTakes
  <2>6. stable' \subseteq Present(m)' /\ Entries(m)' \subseteq ever'
    BY <2>2, <2>3, <2>4, <2>5
  <2> QED  BY <2>3, <2>6 DEF Watching, Present, Entries
<1>4. ASSUME NEW l \in Lists, NEW n \in Names, NEW d \in Digests, Push(l, n, d)
      PROVE  Watching'
  <2> SUFFICES ASSUME call.pc \in Busy PROVE Watching'
    BY <1>4 DEF Watching, Push
  <2>1. PICK m \in Lists : m = ListOf(call.op)
    BY DEF ListOf, Lists
  <2>2. stable \subseteq Present(m) /\ Entries(m) \subseteq ever
    BY <2>1 DEF Watching
  <2>3. /\ ever' = IF m = l THEN ever \cup {<<n, d>>} ELSE ever
        /\ stable' = stable /\ ListOf(call.op)' = m
    BY <1>4, <2>1 DEF Push, Watched
  <2>4. Present(m) \subseteq Present(m)'
    BY <1>4, PushAdds
  <2>5. Entries(m)' \subseteq Entries(m) \cup IF m = l THEN {<<n, d>>} ELSE {}
    BY <1>4, PushAdds
  <2>6. stable' \subseteq Present(m)' /\ Entries(m)' \subseteq ever'
    BY <2>2, <2>3, <2>4, <2>5
  <2> QED  BY <2>3, <2>6 DEF Watching, Present, Entries
<1>5. CASE TurnCredentials
  BY <1>5 DEF TurnCredentials, Watching, Present, Entries, ListOf
<1>6. CASE TokenDies
  BY <1>6, TokenDead DEF Watching, Present, Entries, ListOf
<1>7. CASE TokenLeavesCache \/ UNCHANGED vars
  BY <1>7 DEF TokenLeavesCache, vars, registry, ghosts, Watching, Present, Entries, ListOf
<1> QED  BY <1>1, <1>2, <1>3, <1>4, <1>5, <1>6, <1>7 DEF Next, Registry

\* During a test a door has accepted the credentials if it accepts them now.
\* A test has a token only if the token service granted it: the cache of a
\* connector that is tested was empty.
Granted ==
    /\ call.pc \in Busy /\ call.op = "test" => accepts \subseteq vouched
    /\ call.op = "none" => token = "none"
    /\ call.op = "test" /\ call.pc = "auth" => token = "none"
    /\ call.op = "test" /\ call.pc = "page" =>
           /\ call.auth \in {"live", "dead"} => "token" \in vouched /\ kind \in {"v2", "acr"}
           /\ kind = "acr" => call.auth \in {"live", "dead"}
           /\ kind = "gcr" => "token" \in vouched
           /\ call.auth \in {"live", "dead"} => kind = "acr" \/ bearer

\* A token comes with an exchange that the token service accepted.
LEMMA GrantedStep ==
    ASSUME TypeOK, CallShape, Granted, [Next]_vars PROVE Granted'
<1>1. ASSUME NEW op \in Lists \cup {"test", "digest"}, NEW tag \in Names, Begin(op, tag)
      PROVE  Granted'
  <2>1. op = "test" => token = "none"
    BY <1>1 DEF Begin, Granted
  <2>2. op # "none"
    BY DEF Lists
  <2>3. /\ call'.op = op /\ call'.pc = "auth"
        /\ kind' = kind /\ token' = token /\ accepts' = accepts
        /\ vouched' = IF op = "test" THEN accepts ELSE {}
    BY <1>1, Begun
  <2> QED  BY <2>1, <2>2, <2>3 DEF Granted
<1>2. CASE Progress
  <2>1. Starts \/ Ends \/ Reads \/ Resolves \/ Answers \/ Seeks \/ Passes
    BY <1>2, ProgressMoves
  <2>2. Carries /\ call.pc \in Busy
    BY <2>1 DEF Starts, Ends, Reads, Resolves, Answers, Seeks, Passes, Busy
  <2>3. /\ call'.op = call.op /\ kind' = kind /\ accepts' = accepts /\ vouched' = vouched
        /\ bearer' = bearer /\ call.op # "none"
    BY <2>2, CallKeepsRegistry DEF Carries, CallShape, Busy
  <2>4. call.op = "test" => accepts \subseteq vouched
    BY <2>2 DEF Granted
  <2>5. CASE Starts
    BY <2>3, <2>4, <2>5 DEF Granted, Starts
  <2>6. CASE Ends
    BY <2>3, <2>4, <2>6 DEF Granted, Ends
  <2>7. CASE Reads
    BY <2>3, <2>4, <2>7 DEF Granted, Reads, Lists
  <2>8. CASE Resolves
    BY <2>3, <2>4, <2>8 DEF Granted, Resolves, CallShape
  <2>9. CASE Answers
    BY <2>3, <2>4, <2>9 DEF Granted, Answers
  <2>10. CASE Seeks
    BY <2>3, <2>4, <2>10 DEF Granted, Seeks
  <2>11. CASE Passes
    BY <2>3, <2>4, <2>11 DEF Granted, Passes
  <2> QED  BY <2>1, <2>5, <2>6, <2>7, <2>8, <2>9, <2>10, <2>11
<1>3. ASSUME NEW l \in Lists, NEW n \in Names, Remove(l, n) PROVE Granted'
  BY <1>3 DEF Remove, Granted
<1>4. ASSUME NEW l \in Lists, NEW n \in Names, NEW d \in Digests, Push(l, n, d)
      PROVE  Granted'
  BY <1>4 DEF Push, Granted
<1>5. CASE TurnCredentials
  <2>1. PICK d \in Doors :
            /\ accepts' = IF d \in accepts THEN accepts \ {d} ELSE accepts \cup {d}
            /\ vouched' = IF call.pc \in Busy /\ call.op = "test"
                          THEN vouched \cup {d} ELSE vouched
    BY <1>5 DEF TurnCredentials
  <2>2. UNCHANGED <<bearer, kind, token, call>>
    BY <1>5 DEF TurnCredentials
  <2>3. vouched \subseteq vouched'
    BY <2>1
  <2>4. call.pc \in Busy /\ call.op = "test" => accepts' \subseteq vouched'
    BY <2>1 DEF Granted
  <2> QED  BY <2>2, <2>3, <2>4 DEF Granted
<1>6. CASE TokenDies
  BY <1>6, TokenDead DEF Granted
<1>7. CASE TokenLeavesCache \/ UNCHANGED vars
  BY <1>7 DEF TokenLeavesCache, vars, registry, ghosts, Granted
<1> QED  BY <1>1, <1>2, <1>3, <1>4, <1>5, <1>6, <1>7 DEF Next, Registry

\* A test ends with what it established.
LEMMA TestedStep ==
    ASSUME TypeOK, CallShape, Granted, TestedCredentialsAccepted, [Next]_vars
    PROVE  TestedCredentialsAccepted'
<1>1. ASSUME NEW op \in Lists \cup {"test", "digest"}, NEW tag \in Names, Begin(op, tag)
      PROVE  TestedCredentialsAccepted'
  BY <1>1, Begun DEF TestedCredentialsAccepted
<1>2. CASE Progress
  <2>1. Starts \/ Ends \/ Reads \/ Resolves \/ Answers \/ Seeks \/ Passes
    BY <1>2, ProgressMoves
  <2>2. CASE Passes
    <3>1. /\ call.pc = "page" /\ call.op = "test"
          /\ kind' = kind /\ bearer' = bearer /\ vouched' = vouched
      BY <2>2, CallKeepsRegistry DEF Passes
    <3>2. Asked' = Asked
      BY <3>1 DEF Asked, Doors
    <3>3. accepts \subseteq vouched
      BY <3>1 DEF Granted, Busy
    <3>4. CASE kind \in {"acr", "gcr"}
      <4>1. Asked = "token" /\ "token" \in vouched
        BY <3>1, <3>4 DEF Granted, Asked, Doors
      <4> QED  BY <3>1, <3>2, <4>1 DEF TestedCredentialsAccepted
    <3>5. CASE kind = "ecr"
      <4>1. Asked = "token" /\ "token" \in vouched
        BY <2>2, <3>3, <3>5 DEF Passes, Asked, Doors
      <4> QED  BY <3>1, <3>2, <4>1 DEF TestedCredentialsAccepted
    <3>6. CASE kind \in {"v2", "dockerhub", "gitlab"}
      <4>1. Authorized
        BY <2>2, <3>6 DEF Passes
      <4>2. CASE call.auth = "live"
        <5>1. Asked = "token" /\ "token" \in vouched
          BY <3>1, <3>6, <4>2 DEF Granted, Asked, Doors
        <5> QED  BY <3>1, <3>2, <5>1 DEF TestedCredentialsAccepted
      <4>3. CASE call.auth # "live"
        <5>1. "api" \in accepts
          BY <4>1, <4>3 DEF Authorized
        <5>2. Asked = "api"
          BY <3>6, <5>1 DEF TypeOK, Asked, Doors
        <5> QED  BY <3>1, <3>2, <3>3, <5>1, <5>2 DEF TestedCredentialsAccepted
      <4> QED  BY <4>2, <4>3
    <3>7. kind \in {"v2", "acr", "gcr", "ecr", "ghcr", "dockerhub", "gitlab"}
      BY ConstantsOK DEF TypeOK, AllKinds
    <3>8. CASE kind = "ghcr"
      BY <3>1, <3>8 DEF TestedCredentialsAccepted
    <3> QED  BY <3>4, <3>5, <3>6, <3>7, <3>8
  <2>3. CASE Starts \/ Ends \/ Reads \/ Resolves \/ Answers \/ Seeks
    BY <2>3 DEF Starts, Ends, Reads, Resolves, Answers, Seeks, Carries,
                TestedCredentialsAccepted, Lists
  <2> QED  BY <2>1, <2>2, <2>3
<1>3. ASSUME NEW l \in Lists, NEW n \in Names, Remove(l, n)
      PROVE  TestedCredentialsAccepted'
  BY <1>3 DEF Remove, TestedCredentialsAccepted, Asked, Doors
<1>4. ASSUME NEW l \in Lists, NEW n \in Names, NEW d \in Digests, Push(l, n, d)
      PROVE  TestedCredentialsAccepted'
  BY <1>4 DEF Push, TestedCredentialsAccepted, Asked, Doors
<1>5. CASE TurnCredentials
  BY <1>5 DEF TurnCredentials, TestedCredentialsAccepted, Asked, Doors
<1>6. CASE TokenDies
  BY <1>6, TokenDead DEF TestedCredentialsAccepted, Asked, Doors
<1>7. CASE TokenLeavesCache \/ UNCHANGED vars
  BY <1>7 DEF TokenLeavesCache, vars, registry, ghosts, TestedCredentialsAccepted,
              Asked, Doors
<1> QED  BY <1>1, <1>2, <1>3, <1>4, <1>5, <1>6, <1>7 DEF Next, Registry

\* A digest call ends with what it read.
LEMMA DigestStays ==
    ASSUME TypeOK, CallShape, Watching, DigestServed, [Next]_vars PROVE DigestServed'
<1>1. ASSUME NEW op \in Lists \cup {"test", "digest"}, NEW tag \in Names, Begin(op, tag)
      PROVE  DigestServed'
  BY <1>1, Begun DEF DigestServed
<1>2. CASE Progress
  <2>1. Starts \/ Ends \/ Reads \/ Resolves \/ Answers \/ Seeks \/ Passes
    BY <1>2, ProgressMoves
  <2>2. CASE Answers
    <3>1. /\ call.pc = "page" /\ call.op = "digest" /\ call.tag \in Present("tags")
          /\ call'.tag = call.tag /\ call'.digest = served["tags"][call.tag] /\ ever' = ever
      BY <2>2, CallKeepsRegistry DEF Answers, Carries
    <3>2. Entries("tags") \subseteq ever
      BY <3>1 DEF Watching, Busy, ListOf
    <3>3. <<call.tag, served["tags"][call.tag]>> \in Entries("tags")
      BY <3>1 DEF Entries
    <3> QED  BY <3>1, <3>2, <3>3 DEF DigestServed
  <2>3. CASE Starts \/ Ends \/ Reads \/ Resolves \/ Seeks \/ Passes
    BY <2>3 DEF Starts, Ends, Reads, Resolves, Seeks, Passes, Carries, DigestServed, Lists
  <2> QED  BY <2>1, <2>2, <2>3
<1>3. ASSUME NEW l \in Lists, NEW n \in Names, Remove(l, n)
      PROVE  DigestServed'
  BY <1>3 DEF Remove, DigestServed
<1>4. ASSUME NEW l \in Lists, NEW n \in Names, NEW d \in Digests, Push(l, n, d)
      PROVE  DigestServed'
  BY <1>4 DEF Push, DigestServed
<1>5. CASE TurnCredentials
  BY <1>5 DEF TurnCredentials, DigestServed
<1>6. CASE TokenDies
  BY <1>6, TokenDead DEF DigestServed
<1>7. CASE TokenLeavesCache \/ UNCHANGED vars
  BY <1>7 DEF TokenLeavesCache, vars, registry, ghosts, DigestServed
<1> QED  BY <1>1, <1>2, <1>3, <1>4, <1>5, <1>6, <1>7 DEF Next, Registry

\* A list method that reads pages.
Listing == call.pc = "page" /\ call.op \in Lists

\* Every name that was read was there at some time of the call.
ReadWasThere == Listing \/ Listed => call.got \subseteq {e[1] : e \in ever}

\* Of the names that stayed, none was missed up to where the next page begins.
LinksSkipNothing ==
    Listing /\ kind \in Linked => {n \in stable : n <= call.at} \subseteq call.got

\* As long as no name is removed, ranks only grow: one that was not read is not
\* before the next page.
NumbersSkipNothing ==
    Listing /\ kind \in Numbered /\ ~ removed =>
        \A n \in stable \ call.got : Rank(Present(ListOf(call.op)), n) >= call.at

\* The names of entries that the call's list has are names it had.
LEMMA NamesOfEntries ==
    ASSUME TypeOK, Watching, call.pc \in Busy
    PROVE  Present(ListOf(call.op)) \subseteq {e[1] : e \in ever}
<1> DEFINE l == ListOf(call.op)
<1>1. ASSUME NEW n \in Present(l) PROVE \E e \in ever : n = e[1]
  <2>1. <<n, served[l][n]>> \in Entries(l)
    BY DEF Entries
  <2>2. <<n, served[l][n]>> \in ever
    BY <2>1 DEF Watching
  <2> QED  BY <2>2
<1> QED  BY <1>1

\* A page holds names that are in the list.
LEMMA ReadStep ==
    ASSUME TypeOK, CallShape, Watching, ReadWasThere, [Next]_vars PROVE ReadWasThere'
<1>1. ASSUME NEW op \in Lists \cup {"test", "digest"}, NEW tag \in Names, Begin(op, tag)
      PROVE  ReadWasThere'
  BY <1>1, Begun DEF ReadWasThere, Listing, Listed
<1>2. CASE Progress
  <2>1. Starts \/ Ends \/ Reads \/ Resolves \/ Answers \/ Seeks \/ Passes
    BY <1>2, ProgressMoves
  <2>2. Carries
    BY <2>1 DEF Starts, Ends, Reads, Resolves, Answers, Seeks, Passes
  <2>3. call'.op = call.op /\ ever' = ever
    BY <2>2, CallKeepsRegistry DEF Carries
  <2>4. CASE Starts
    BY <2>3, <2>4 DEF Starts, CallShape, ReadWasThere, Listing, Listed
  <2>5. CASE Reads
    <3>1. Present(ListOf(call.op)) \subseteq {e[1] : e \in ever}
      BY <2>5, NamesOfEntries DEF Reads, Busy
    <3>2. call.got \subseteq {e[1] : e \in ever}
      BY <2>5 DEF Reads, ReadWasThere, Listing
    <3>3. call'.got \subseteq {e[1] : e \in ever}
      BY <2>5, <3>1, <3>2 DEF Reads
    <3> QED  BY <2>3, <3>3 DEF ReadWasThere
  <2>6. CASE Resolves
    BY <2>3, <2>6 DEF Resolves, ReadWasThere, Listing, Listed
  <2>7. CASE Ends \/ Answers \/ Seeks \/ Passes
    BY <2>3, <2>7 DEF Ends, Answers, Seeks, Passes, ReadWasThere, Listing, Listed, Lists
  <2> QED  BY <2>1, <2>4, <2>5, <2>6, <2>7
<1>3. ASSUME NEW l \in Lists, NEW n \in Names, Remove(l, n) PROVE ReadWasThere'
  BY <1>3 DEF Remove, ReadWasThere, Listing, Listed
<1>4. ASSUME NEW l \in Lists, NEW n \in Names, NEW d \in Digests, Push(l, n, d)
      PROVE  ReadWasThere'
  <2>1. call' = call /\ ever \subseteq ever'
    BY <1>4 DEF Push
  <2>2. {e[1] : e \in ever} \subseteq {e[1] : e \in ever'}
    BY <2>1
  <2> QED  BY <2>1, <2>2 DEF ReadWasThere, Listing, Listed
<1>5. CASE TurnCredentials
  BY <1>5 DEF TurnCredentials, ReadWasThere, Listing, Listed
<1>6. CASE TokenDies
  BY <1>6, TokenDead DEF ReadWasThere, Listing, Listed
<1>7. CASE TokenLeavesCache \/ UNCHANGED vars
  BY <1>7 DEF TokenLeavesCache, vars, registry, ghosts, ReadWasThere, Listing, Listed
<1> QED  BY <1>1, <1>2, <1>3, <1>4, <1>5, <1>6, <1>7 DEF Next, Registry

\* A page continued by name leaves no gap.
LEMMA LinksStep ==
    ASSUME TypeOK, CallShape, Watching, LinksSkipNothing, [Next]_vars
    PROVE  LinksSkipNothing'
<1>1. ASSUME NEW op \in Lists \cup {"test", "digest"}, NEW tag \in Names, Begin(op, tag)
      PROVE  LinksSkipNothing'
  BY <1>1, Begun DEF LinksSkipNothing, Listing
<1>2. CASE Progress
  <2>1. Starts \/ Ends \/ Reads \/ Resolves \/ Answers \/ Seeks \/ Passes
    BY <1>2, ProgressMoves
  <2>2. Carries
    BY <2>1 DEF Starts, Ends, Reads, Resolves, Answers, Seeks, Passes
  <2>3. call'.op = call.op /\ kind' = kind /\ stable' = stable
    BY <2>2, CallKeepsRegistry DEF Carries
  <2>4. stable \subseteq Names
    BY DEF TypeOK
  <2>5. CASE Starts
    <3>1. call'.at = 0
      BY <2>5 DEF Starts, CallShape
    <3>2. \A n \in stable : ~ (n <= 0)
      BY <2>4, ConstantsOK DEF Names
    <3> QED  BY <2>3, <3>1, <3>2 DEF LinksSkipNothing
  <2>6. ASSUME Reads, kind \in Linked, call'.pc = "page", NEW n \in stable, n <= call'.at
        PROVE  n \in call'.got
    <3>1. n \in Present(ListOf(call.op))
      BY <2>6 DEF Reads, Watching, Busy
    <3>2. n <= call.at \/ n > call'.at \/ n \in call'.got
      BY <2>6, <3>1 DEF Reads
    <3>3. n <= call.at => n \in call.got
      BY <2>6 DEF Reads, LinksSkipNothing, Listing
    <3>4. call.got \subseteq call'.got
      BY <2>6 DEF Reads
    <3>5. n \in Nat /\ call'.at \in Nat
      <4>1. call'.at \in 0..(MaxName + PageSize)
        BY <2>2 DEF Carries, Call
      <4> QED  BY <4>1, <2>4, ConstantsOK DEF Names
    <3> QED  BY <2>6, <3>2, <3>3, <3>4, <3>5
  <2>7. CASE Reads
    BY <2>3, <2>6, <2>7 DEF LinksSkipNothing, Listing
  <2>8. CASE Resolves
    BY <2>3, <2>8 DEF Resolves, CallShape, LinksSkipNothing, Linked
  <2>9. CASE Ends \/ Answers \/ Seeks \/ Passes
    BY <2>3, <2>9 DEF Ends, Answers, Seeks, Passes, LinksSkipNothing, Listing, Lists
  <2> QED  BY <2>1, <2>5, <2>7, <2>8, <2>9
<1>3. ASSUME NEW l \in Lists, NEW n \in Names, Remove(l, n) PROVE LinksSkipNothing'
  <2>1. call' = call /\ kind' = kind /\ stable' \subseteq stable
    BY <1>3 DEF Remove
  <2> QED  BY <2>1 DEF LinksSkipNothing, Listing
<1>4. ASSUME NEW l \in Lists, NEW n \in Names, NEW d \in Digests, Push(l, n, d)
      PROVE  LinksSkipNothing'
  BY <1>4 DEF Push, LinksSkipNothing, Listing
<1>5. CASE TurnCredentials
  BY <1>5 DEF TurnCredentials, LinksSkipNothing, Listing
<1>6. CASE TokenDies
  BY <1>6, TokenDead DEF LinksSkipNothing, Listing
<1>7. CASE TokenLeavesCache \/ UNCHANGED vars
  BY <1>7 DEF TokenLeavesCache, vars, registry, ghosts, LinksSkipNothing, Listing
<1> QED  BY <1>1, <1>2, <1>3, <1>4, <1>5, <1>6, <1>7 DEF Next, Registry

\* A page continued by number leaves no gap unless a name is removed.
LEMMA NumbersStep ==
    ASSUME TypeOK, CallShape, Watching, NumbersSkipNothing, [Next]_vars
    PROVE  NumbersSkipNothing'
<1>1. ASSUME NEW op \in Lists \cup {"test", "digest"}, NEW tag \in Names, Begin(op, tag)
      PROVE  NumbersSkipNothing'
  BY <1>1, Begun DEF NumbersSkipNothing, Listing
<1>2. CASE Progress
  <2>1. Starts \/ Ends \/ Reads \/ Resolves \/ Answers \/ Seeks \/ Passes
    BY <1>2, ProgressMoves
  <2>2. Carries /\ call.pc \in Busy
    BY <2>1 DEF Starts, Ends, Reads, Resolves, Answers, Seeks, Passes, Busy
  <2>3. PICK P : P = Present(ListOf(call.op))
    OBVIOUS
  <2>4. /\ call'.op = call.op /\ kind' = kind /\ stable' = stable /\ removed' = removed
        /\ Present(ListOf(call.op))' = P
    BY <2>2, <2>3, CallKeepsRegistry DEF Carries
  <2>5. stable \subseteq P /\ P \subseteq Names
    BY <2>2, <2>3 DEF Watching, Present
  <2>6. \A n \in P : Rank(P, n) \in Nat
    BY <2>5, RankType
  <2>7. CASE Starts \/ Resolves
    <3>1. call'.pc = "page" => call'.at = 0
      BY <2>7 DEF Starts, Resolves, CallShape
    <3>2. \A n \in stable : Rank(P, n) >= 0
      BY <2>5, <2>6
    <3> QED  BY <2>4, <3>1, <3>2 DEF NumbersSkipNothing, Listing
  <2>8. ASSUME Reads, kind \in Numbered, ~ removed, call'.pc = "page",
               NEW n \in stable \ call'.got
        PROVE  Rank(P, n) >= call'.at
    <3>1. call.got \subseteq call'.got /\ Listing
      BY <2>8 DEF Reads, Listing
    <3>2. Rank(P, n) >= call.at
      BY <2>3, <2>8, <3>1 DEF NumbersSkipNothing
    <3>3. Rank(P, n) < call.at \/ Rank(P, n) >= call'.at
      BY <2>3, <2>5, <2>8 DEF Reads
    <3>4. call.at \in 0..(MaxName + PageSize)
      BY DEF TypeOK, Call
    <3> QED  BY <2>5, <2>6, <2>8, <3>2, <3>3, <3>4, ConstantsOK
  <2>9. CASE Reads
    BY <2>4, <2>8, <2>9 DEF NumbersSkipNothing, Listing
  <2>10. CASE Ends \/ Answers \/ Seeks \/ Passes
    BY <2>4, <2>10 DEF Ends, Answers, Seeks, Passes, NumbersSkipNothing, Listing, Lists
  <2> QED  BY <2>1, <2>7, <2>9, <2>10
<1>3. ASSUME NEW l \in Lists, NEW n \in Names, Remove(l, n) PROVE NumbersSkipNothing'
  <2>1. call' = call /\ kind' = kind
    BY <1>3 DEF Remove
  <2>2. SUFFICES ASSUME Listing, kind \in Numbered, ~ removed' PROVE NumbersSkipNothing'
    BY <2>1 DEF NumbersSkipNothing, Listing
  <2>3. PICK m \in Lists : m = ListOf(call.op)
    BY DEF ListOf, Lists
  <2>4. l # m /\ stable' = stable /\ removed' = removed
    BY <1>3, <2>2, <2>3 DEF Remove, Watched, Listing, Busy
  <2>5. Present(m)' = Present(m)
    BY <1>3, <2>4, RemoveTakes
  <2>6. Present(ListOf(call.op))' = Present(ListOf(call.op))
    BY <2>1, <2>3, <2>5 DEF Present, ListOf
  <2> QED  BY <2>1, <2>4, <2>6 DEF NumbersSkipNothing, Listing
<1>4. ASSUME NEW l \in Lists, NEW n \in Names, NEW d \in Digests, Push(l, n, d)
      PROVE  NumbersSkipNothing'
  <2>1. UNCHANGED <<call, kind, stable, removed>>
    BY <1>4 DEF Push
  <2>2. SUFFICES ASSUME Listing, kind \in Numbered, ~ removed PROVE NumbersSkipNothing'
    BY <2>1 DEF NumbersSkipNothing, Listing
  <2>3. PICK m \in Lists : m = ListOf(call.op)
    BY DEF ListOf, Lists
  <2>4. PICK P, Q : P = Present(m) /\ Q = Present(m)'
    OBVIOUS
  <2>5. P \subseteq Q /\ P \subseteq Names /\ Q \subseteq Names
    BY <1>4, <2>4, PushAdds DEF Present
  <2>6. Q = Present(ListOf(call.op))' /\ P = Present(ListOf(call.op))
    BY <2>1, <2>3, <2>4 DEF Present, ListOf
  <2>7. ASSUME NEW n1 \in stable \ call.got PROVE Rank(Q, n1) >= call.at
    <3>1. n1 \in P
      BY <2>2, <2>6 DEF Watching, Listing, Busy
    <3>2. Rank(P, n1) >= call.at
      BY <2>2, <2>6 DEF NumbersSkipNothing
    <3>3. n1 \in Names /\ n1 <= n1
      BY <2>5, <3>1, ConstantsOK DEF Names
    <3>4. Rank(P, n1) <= Rank(Q, n1)
      BY <2>5, <3>3, RankGrows
    <3>5. Rank(P, n1) \in Nat /\ Rank(Q, n1) \in Nat
      BY <2>5, <3>1, RankType
    <3>6. call.at \in 0..(MaxName + PageSize)
      BY DEF TypeOK, Call
    <3> QED  BY <3>2, <3>4, <3>5, <3>6, ConstantsOK
  <2> QED  BY <2>1, <2>6, <2>7 DEF NumbersSkipNothing, Listing
<1>5. CASE TurnCredentials
  BY <1>5 DEF TurnCredentials, NumbersSkipNothing, Listing, Present, ListOf
<1>6. CASE TokenDies
  BY <1>6, TokenDead DEF NumbersSkipNothing, Listing, Present, ListOf
<1>7. CASE TokenLeavesCache \/ UNCHANGED vars
  BY <1>7 DEF TokenLeavesCache, vars, registry, ghosts, NumbersSkipNothing, Listing,
              Present, ListOf
<1> QED  BY <1>1, <1>2, <1>3, <1>4, <1>5, <1>6, <1>7 DEF Next, Registry

\* On the last page, what is not read is not there.
LEMMA CompleteStep ==
    ASSUME TypeOK, CallShape, Watching, LinksSkipNothing, NumbersSkipNothing,
           ListingComplete, ReadWasThere', [Next]_vars
    PROVE  ListingComplete'
<1>1. ASSUME NEW op \in Lists \cup {"test", "digest"}, NEW tag \in Names, Begin(op, tag)
      PROVE  ListingComplete'
  BY <1>1, Begun DEF ListingComplete, Listed
<1>2. CASE Progress
  <2>1. Starts \/ Ends \/ Reads \/ Resolves \/ Answers \/ Seeks \/ Passes
    BY <1>2, ProgressMoves
  <2>2. CASE Reads
    <3> SUFFICES ASSUME call'.pc = "ok", kind # "ghcr", ~ (kind \in Numbered /\ removed)
                 PROVE  stable \subseteq call'.got
      <4>1. kind' = kind /\ stable' = stable /\ removed' = removed
        BY <2>2, CallKeepsRegistry DEF Reads
      <4> QED  BY <2>2, <4>1
               DEF Reads, ReadWasThere, ListingComplete, Listed, Numbered
    <3>1. kind \in Linked \/ kind \in Numbered
      BY ConstantsOK DEF TypeOK, AllKinds, Linked, Numbered
    <3>2. Listing /\ call.got \subseteq call'.got
      BY <2>2 DEF Reads, Listing
    <3>3. PICK P : P = Present(ListOf(call.op))
      OBVIOUS
    <3>4. stable \subseteq P /\ P \subseteq Names
      BY <2>2, <3>3 DEF Reads, Watching, Busy, Present
    <3>5. CASE kind \in Linked
      <4>1. \A n \in P : n <= call.at \/ n \in call'.got
        BY <2>2, <3>3, <3>5 DEF Reads
      <4>2. \A n \in stable : n <= call.at => n \in call.got
        BY <3>2, <3>5 DEF LinksSkipNothing
      <4> QED  BY <3>2, <3>4, <4>1, <4>2
    <3>6. CASE kind \in Numbered
      <4>1. \A n \in P : Rank(P, n) < call.at \/ n \in call'.got
        BY <2>2, <3>3, <3>6 DEF Reads
      <4>2. \A n \in stable \ call.got : Rank(P, n) >= call.at
        BY <3>2, <3>3, <3>6 DEF NumbersSkipNothing
      <4>3. \A n \in P : Rank(P, n) \in Nat
        BY <3>4, RankType
      <4>4. call.at \in 0..(MaxName + PageSize)
        BY DEF TypeOK, Call
      <4>5. call.at \in Nat
        BY <4>4, ConstantsOK
      <4>6. \A n \in P : ~ (Rank(P, n) < call.at /\ Rank(P, n) >= call.at)
        BY <4>3, <4>5
      <4> QED  BY <3>2, <3>4, <4>1, <4>2, <4>6
    <3> QED  BY <3>1, <3>5, <3>6
  <2>3. CASE Starts \/ Ends \/ Resolves \/ Answers \/ Seeks \/ Passes
    BY <2>3 DEF Starts, Ends, Resolves, Answers, Seeks, Passes, Carries,
                ListingComplete, Listed, Lists
  <2> QED  BY <2>1, <2>2, <2>3
<1>3. ASSUME NEW l \in Lists, NEW n \in Names, Remove(l, n) PROVE ListingComplete'
  <2>1. /\ UNCHANGED <<call, kind, ever>> /\ stable' \subseteq stable
        /\ removed => removed'
    BY <1>3 DEF Remove
  <2> QED  BY <2>1 DEF ListingComplete, Listed
<1>4. ASSUME NEW l \in Lists, NEW n \in Names, NEW d \in Digests, Push(l, n, d)
      PROVE  ListingComplete'
  <2>1. UNCHANGED <<call, kind, stable, removed>>
    BY <1>4 DEF Push
  <2> QED  BY <2>1 DEF ListingComplete, Listed, ReadWasThere
<1>5. CASE TurnCredentials
  BY <1>5 DEF TurnCredentials, ListingComplete, Listed
<1>6. CASE TokenDies
  BY <1>6, TokenDead DEF ListingComplete, Listed
<1>7. CASE TokenLeavesCache \/ UNCHANGED vars
  BY <1>7 DEF TokenLeavesCache, vars, registry, ghosts, ListingComplete, Listed
<1> QED  BY <1>1, <1>2, <1>3, <1>4, <1>5, <1>6, <1>7 DEF Next, Registry

\* The invariant.  Its parts between TypeOK and ListingComplete say what a call
\* has established before it ends.
CallInv ==
    /\ TypeOK /\ CallShape /\ Watching
    /\ Granted /\ TestedCredentialsAccepted /\ DigestServed
    /\ ReadWasThere /\ LinksSkipNothing /\ NumbersSkipNothing /\ ListingComplete

\* It holds when the connector is made.
LEMMA CallInit == Init => CallInv
<1> SUFFICES ASSUME Init PROVE CallInv
  OBVIOUS
<1>1. /\ call.op = "none" /\ call.pc = "idle" /\ call \in Call
      /\ kind \in Kinds /\ token = "none"
  <2>1. 0 \in 0..(MaxName + PageSize) /\ 1 \in Names
    BY ConstantsOK DEF Names
  <2> QED  BY <2>1 DEF Init, NewConnector, Call
<1>2. served \in [Lists -> [Names -> Digests \cup {0}]]
  <2>1. 1 \in Digests
    BY ConstantsOK DEF Digests
  <2> QED  BY <2>1 DEF Init
<1>3. /\ accepts \subseteq Doors /\ bearer \in BOOLEAN /\ stable = {} /\ ever = {}
      /\ removed = FALSE /\ vouched = {} /\ changes = 0
  BY DEF Init
<1>4. TypeOK
  <2>1. changes \in 0..MaxChanges
    BY <1>3, ConstantsOK
  <2> QED  BY <1>1, <1>2, <1>3, <2>1 DEF TypeOK
<1> QED  BY <1>1, <1>4
         DEF CallInv, CallShape, Watching, Granted, TestedCredentialsAccepted, DigestServed,
             ReadWasThere, LinksSkipNothing, NumbersSkipNothing, ListingComplete, Listing,
             Listed, Busy, Lists

\* Every step keeps it.
LEMMA CallStays == CallInv /\ [Next]_vars => CallInv'
<1> SUFFICES ASSUME CallInv, [Next]_vars PROVE CallInv'
  OBVIOUS
<1> USE DEF CallInv
<1>1. TypeOK' /\ CallShape'
  BY TypeStep
<1>2. Watching' /\ Granted' /\ TestedCredentialsAccepted' /\ DigestServed'
  BY WatchingStep, GrantedStep, TestedStep, DigestStays
<1>3. ReadWasThere' /\ LinksSkipNothing' /\ NumbersSkipNothing'
  BY ReadStep, LinksStep, NumbersStep
<1>4. ListingComplete'
  BY <1>3, CompleteStep
<1> QED  BY <1>1, <1>2, <1>3, <1>4

\* So it always holds.
LEMMA CallAlways == Spec => []CallInv
BY CallInit, CallStays, PTL DEF Spec

-----------------------------------------------------------------------------

\* The state of a connector and of its registry is well formed: no search runs
\* past the bound of the page numbers, because an empty page ends it or, with
\* Docker Hub, the count does; only connectors with a token exchange cache one
\* (internal/registry/v2.go, acr.go).
THEOREM ListingTypes == Spec => []TypeOK
<1>1. CallInv => TypeOK
  BY DEF CallInv
<1> QED  BY <1>1, CallAlways, PTL

\* A list that a connector returns without error holds every name that was in
\* the registry all the time it was read, and none that never was: with
\* continuation by name whatever happens between two pages, with numbered pages
\* unless a name is removed, with GHCR not beyond its first page (the list
\* methods of internal/registry/*.go).
THEOREM ListsAreComplete == Spec => []ListingComplete
<1>1. CallInv => ListingComplete
  BY DEF CallInv
<1> QED  BY <1>1, CallAlways, PTL

\* A digest that GetDigest returns is one that the tag had during the call
\* (GetDigest of internal/registry/*.go).
THEOREM DigestsAreServed == Spec => []DigestServed
<1>1. CallInv => DigestServed
  BY DEF CallInv
<1> QED  BY <1>1, CallAlways, PTL

\* When the test that a registry passes before it is saved has passed, the door
\* it asks did accept the credentials while it ran, with every connector but
\* GHCR's: the token service with ACR, ECR, GCR and a Bearer registry, the
\* registry or the Hub API with the others (TestConnection of
\* internal/registry/*.go).
THEOREM TestsAreTrue == Spec => []TestedCredentialsAccepted
<1>1. CallInv => TestedCredentialsAccepted
  BY DEF CallInv
<1> QED  BY <1>1, CallAlways, PTL

=============================================================================
