---------------------------- MODULE SigningKeys ----------------------------
(***************************************************************************)
(* Native sign-in: the signing keys in the registry, the key ring that the *)
(* OIDC source mints with, the key ring that requests are verified with,   *)
(* and the table of sign-ins that wait for the identity provider.          *)
(*                                                                         *)
(* A key ring is copied three times: registry -> OIDCSource.ring ->        *)
(* tokenSource.ring.  Each copy has its own lock and its own generation,   *)
(* and the second copy is published to the third after the second's lock   *)
(* is released.  Rotations, sign-ins and requests run concurrently.        *)
(***************************************************************************)
EXTENDS Naturals, FiniteSets

CONSTANTS
    Rotations,      \* calls of rotate_signing_key on this replica
    Flows,          \* sign-ins, each with its random state
    Callbacks,      \* requests to the callback URL
    Requests,       \* requests that carry a token
    PeerOf,         \* the client address a sign-in comes from
    MaxPending,     \* MaxPendingSignIns
    MaxPerPeer,     \* MaxPendingSignInsPerPeer
    SigningScenes   \* bounds, see SigningScene

\* Which sign-ins are begun, and how often another replica rotates, a sign-in's
\* state expires and the registry cannot be read.
SigningScene == [flows : SUBSET Flows, elsewhere : 0 .. 1, aging : Nat, fails : Nat]

ASSUME LimitAssumption ==
    /\ MaxPending \in Nat \ {0} /\ MaxPerPeer \in Nat \ {0}
    /\ IsFiniteSet(Rotations) /\ "none" \notin Rotations \cup Flows
    /\ \A s \in SigningScenes : s \in SigningScene

\* Keys are numbered in the order in which they are created: the one the
\* first start mints, and one for each rotation.
Kids == 1 .. 2 + Cardinality(Rotations)
NoFlow == "none"

VARIABLES
    signingKeys,      \* the table signing_keys: kid -> active, verify, retired or absent
    ring,      \* OIDCSource.ring
    ringGen,   \* OIDCSource.ringGen
    rotateMu,  \* the rotation that holds OIDCSource.rotateMu, or none
    tring,     \* tokenSource.ring
    told,      \* tokenSource.loadedAt is older than tokenSource.every
    rot,       \* the rotations in progress
    pending,   \* the table auth_pending: flow, expires (the rank of expires_at), expired
    begun,     \* the sign-ins that were put into it
    cb,        \* the callbacks in progress
    minted,    \* how many tokens each sign-in has yielded
    asked,       \* the requests in progress
    bound,     \* what the scene still allows
    foreign    \* the registry moved without this replica: another one rotated,
               \* or the ring could not be read after a rotation's commit

signingVars == <<signingKeys, ring, ringGen, rotateMu, tring, told, rot, pending,
          begun, cb, minted, asked, bound, foreign>>
source == <<ring, ringGen>>
tokens == <<tring, told>>
signIns == <<pending, begun, cb, minted>>
budget == <<bound>>

NoRing == [active |-> 0, verify |-> {}]
Ended == [at |-> "ended", flow |-> NoFlow, gen |-> 0, ring |-> NoRing]
Unasked == [at |-> "idle", ring |-> NoRing, moved |-> FALSE]

\* What loadKeyringLocked reads: the active key and the others not retired.
LoadKeyring ==
    [active |-> CHOOSE k \in Kids : signingKeys[k] = "active",
     verify |-> {k \in Kids : signingKeys[k] = "verify"}]

\* The keys under which publicKeyFor finds a token's key id.
publicKeyFor(r) == {r.active} \cup r.verify

\* RotateSigningKey's transaction: every key is demoted, or retired, and a
\* new one becomes the active key.
RotateSigningKey(retire) ==
    LET new == CHOOSE k \in Kids : signingKeys[k] = "absent" /\ \A j \in 1 .. k - 1 : signingKeys[j] # "absent"
    IN  [k \in Kids |->
            IF k = new THEN "active"
            ELSE IF signingKeys[k] = "absent" THEN "absent"
            ELSE IF retire THEN "retired"
            ELSE IF signingKeys[k] = "active" THEN "verify" ELSE signingKeys[k]]

\* tokenSource.replace.  A request that is loading a ring learns from
\* tokenSource.gen that another one was put in its place: moved.
replace(r) ==
    /\ tring' = r /\ told' = FALSE
    /\ asked' = [q \in Requests |-> [asked[q] EXCEPT !.moved = asked[q].at # "idle"]]

\* The source at start, its ring read long ago or just now, requests with tokens at `at`.
SigningStart(long, at) ==
    /\ signingKeys = [k \in Kids |-> IF k = 1 THEN "active" ELSE "absent"]
    /\ ring = [active |-> 1, verify |-> {}] /\ ringGen = 0
    /\ rotateMu = "none"
    /\ tring = [active |-> 1, verify |-> {}] /\ told = long
    /\ rot = [r \in Rotations |-> [at |-> "idle", ring |-> NoRing]]
    /\ pending = {} /\ begun = {}
    /\ cb = [c \in Callbacks |-> [Ended EXCEPT !.at = "idle"]]
    /\ minted = [f \in Flows |-> 0]
    /\ asked = [q \in Requests |-> [Unasked EXCEPT !.at = at]]
    /\ bound \in SigningScenes /\ foreign = FALSE

SigningInit == SigningStart(FALSE, "idle")

(***************************************************************************)
(* rotate_signing_key: OIDCSource.Rotate under rotateMu, then UseTokens.   *)
(***************************************************************************)
\* The transaction; the registry's lock is released before the ring is read.
RotateCommit(r) ==
    /\ rot[r].at = "idle" /\ rotateMu = "none"
    /\ rotateMu' = r
    /\ \E retire \in BOOLEAN : signingKeys' = RotateSigningKey(retire)
    /\ rot' = [rot EXCEPT ![r].at = "load"]
    /\ UNCHANGED <<source, tokens, signIns, asked, budget, foreign>>

RotateLoad(r) ==
    /\ rot[r].at = "load"
    /\ rot' = [rot EXCEPT ![r] = [at |-> "install", ring |-> LoadKeyring]]
    /\ UNCHANGED <<signingKeys, source, rotateMu, tokens, signIns, asked, budget, foreign>>

\* The ring cannot be read after the commit: Rotate returns the error.
RotateLoadFails(r) ==
    /\ rot[r].at = "load" /\ bound.fails > 0
    /\ rot' = [rot EXCEPT ![r].at = "failed"] /\ rotateMu' = "none"
    /\ bound' = [bound EXCEPT !.fails = @ - 1] /\ foreign' = TRUE
    /\ UNCHANGED <<signingKeys, source, tokens, signIns, asked>>

installRing(r) ==
    /\ rot[r].at = "install"
    /\ ring' = rot[r].ring /\ ringGen' = ringGen + 1
    /\ rot' = [rot EXCEPT ![r].at = "publish"]
    /\ UNCHANGED <<signingKeys, rotateMu, tokens, signIns, asked, budget, foreign>>

\* installRing calls onRing after s.mu is released; Rotate then returns.
RotatePublish(r) ==
    /\ rot[r].at = "publish"
    /\ replace(rot[r].ring) /\ rotateMu' = "none"
    /\ rot' = [rot EXCEPT ![r].at = "use"]
    /\ UNCHANGED <<signingKeys, source, signIns, budget, foreign>>

\* The handler publishes once more, without rotateMu, and answers.
UseTokens(r) ==
    /\ rot[r].at = "use"
    /\ replace(rot[r].ring)
    /\ rot' = [rot EXCEPT ![r] = [at |-> "answered", ring |-> NoRing]]
    /\ UNCHANGED <<signingKeys, source, rotateMu, signIns, budget, foreign>>

\* Another replica on the same registry serves a rotation.
RotateElsewhere ==
    /\ bound.elsewhere > 0 /\ bound' = [bound EXCEPT !.elsewhere = @ - 1]
    /\ \E retire \in BOOLEAN : signingKeys' = RotateSigningKey(retire)
    /\ foreign' = TRUE
    /\ UNCHANGED <<source, rotateMu, tokens, rot, signIns, asked>>

(***************************************************************************)
(* A sign-in: Begin puts its state, Complete takes it, exchanges the code  *)
(* and mints a token.                                                      *)
(***************************************************************************)
Unexpired == {p \in pending : ~p.expired}
FromPeer(rs, peer) == {p \in rs : PeerOf[p.flow] = peer}
Sooner(p, rs) == {q \in rs : q.expires < p.expires}

\* putPending: expired rows go first, the client's limit refuses, the
\* global limit evicts the rows that expire first.
putPending(f) ==
    LET over == (Cardinality(Unexpired) + 1) - MaxPending
        kept == {p \in Unexpired : Cardinality(Sooner(p, Unexpired)) >= over}
        row  == [flow |-> f, expires |-> Cardinality(begun), expired |-> FALSE]
    IN  IF Cardinality(FromPeer(Unexpired, PeerOf[f])) >= MaxPerPeer THEN Unexpired
        ELSE kept \cup {row}

Begin(f) ==
    /\ f \in bound.flows \ begun
    /\ begun' = begun \cup {f}
    /\ pending' = putPending(f)
    /\ UNCHANGED <<signingKeys, source, rotateMu, tokens, rot, cb, minted, asked, budget, foreign>>

\* The oldest state passes its deadline (pendingTTL is the same for all).
Expire ==
    /\ bound.aging > 0
    /\ \E p \in Unexpired :
        /\ Sooner(p, Unexpired) = {}
        /\ pending' = (pending \ {p}) \cup {[p EXCEPT !.expired = TRUE]}
    /\ bound' = [bound EXCEPT !.aging = @ - 1]
    /\ UNCHANGED <<signingKeys, source, rotateMu, tokens, rot, begun, cb, minted, asked, foreign>>

\* What takePending answers for the row of a state: unknown and expired ones are refused.
Resumed(c, f) ==
    IF \E p \in Unexpired : p.flow = f THEN [cb[c] EXCEPT !.flow = f, !.at = "exchange"] ELSE Ended

\* Seeded fault: the row stays until it expires.
takePendingKeeps(c) ==
    /\ cb[c].at = "idle"
    /\ \E f \in begun : cb' = [cb EXCEPT ![c] = Resumed(c, f)]
    /\ UNCHANGED <<signingKeys, source, rotateMu, tokens, rot, pending, begun, minted, asked, budget, foreign>>

\* takePending: the row is read and deleted under the registry's lock.
takePending(c) ==
    /\ cb[c].at = "idle"
    /\ \E f \in begun :
        /\ pending' = {p \in pending : p.flow # f}
        /\ cb' = [cb EXCEPT ![c] = Resumed(c, f)]
    /\ UNCHANGED <<signingKeys, source, rotateMu, tokens, rot, begun, minted, asked, budget, foreign>>

\* The provider cannot be reached, refuses the code, or its claims are not
\* acceptable: Complete returns the error and the state is spent.
ExchangeFails(c) ==
    /\ cb[c].at = "exchange"
    /\ cb' = [cb EXCEPT ![c] = Ended]
    /\ UNCHANGED <<signingKeys, source, rotateMu, tokens, rot, pending, begun, minted, asked, budget, foreign>>

\* mintingRing reads the generation first, then the registry.
MintingGen(c) ==
    /\ cb[c].at = "exchange"
    /\ cb' = [cb EXCEPT ![c].at = "load", ![c].gen = ringGen]
    /\ UNCHANGED <<signingKeys, source, rotateMu, tokens, rot, pending, begun, minted, asked, budget, foreign>>

MintingLoad(c) ==
    /\ cb[c].at = "load"
    /\ cb' = [cb EXCEPT ![c].at = "install", ![c].ring = LoadKeyring]
    /\ UNCHANGED <<signingKeys, source, rotateMu, tokens, rot, pending, begun, minted, asked, budget, foreign>>

\* The token is signed with the ring at hand and the callback answers.
MintToken(c) ==
    /\ minted' = [minted EXCEPT ![cb[c].flow] = @ + 1]
    /\ cb' = [cb EXCEPT ![c] = Ended]

\* Seeded fault: what was loaded is installed.
InstallAlways(c) ==
    /\ cb[c].at = "install"
    /\ ring' = cb[c].ring /\ ringGen' = ringGen + 1
    /\ cb' = [cb EXCEPT ![c].at = "publish"]
    /\ UNCHANGED <<signingKeys, rotateMu, tokens, rot, pending, begun, minted, asked, budget, foreign>>

installRingIfCurrent(c) ==
    /\ cb[c].at = "install"
    /\ \/ /\ ringGen # cb[c].gen
          /\ MintToken(c) /\ UNCHANGED source
       \/ /\ ringGen = cb[c].gen
          /\ ring' = cb[c].ring /\ ringGen' = ringGen + 1
          /\ cb' = [cb EXCEPT ![c].at = "publish"] /\ UNCHANGED minted
    /\ UNCHANGED <<signingKeys, rotateMu, tokens, rot, pending, begun, asked, budget, foreign>>

MintingPublish(c) ==
    /\ cb[c].at = "publish"
    /\ replace(cb[c].ring)
    /\ MintToken(c)
    /\ UNCHANGED <<signingKeys, source, rotateMu, rot, pending, begun, budget, foreign>>

(***************************************************************************)
(* A request with a token: tokenSource.keyring, then VerifyToken.          *)
(***************************************************************************)
Old ==
    /\ ~told /\ told' = TRUE
    /\ UNCHANGED <<signingKeys, source, rotateMu, tring, rot, signIns, asked, budget, foreign>>

\* A ring that is young enough is used as it is.
keyring(q) ==
    /\ asked[q].at = "idle" /\ told
    /\ asked' = [asked EXCEPT ![q] = [Unasked EXCEPT !.at = "load"]]
    /\ UNCHANGED <<signingKeys, source, rotateMu, tokens, rot, signIns, budget, foreign>>

RefreshLoad(q) ==
    /\ asked[q].at = "load"
    /\ asked' = [asked EXCEPT ![q].at = "install", ![q].ring = LoadKeyring]
    /\ UNCHANGED <<signingKeys, source, rotateMu, tokens, rot, signIns, budget, foreign>>

\* The ring that was held stays in use when the registry cannot be read.
RefreshFails(q) ==
    /\ asked[q].at = "load" /\ bound.fails > 0
    /\ asked' = [asked EXCEPT ![q] = Unasked] /\ bound' = [bound EXCEPT !.fails = @ - 1]
    /\ UNCHANGED <<signingKeys, source, rotateMu, tokens, rot, signIns, foreign>>

\* Seeded fault: the loaded ring is used for this request only.
RefreshForgets(q) ==
    /\ asked[q].at = "install"
    /\ asked' = [asked EXCEPT ![q] = Unasked] /\ told' = FALSE
    /\ UNCHANGED <<signingKeys, source, rotateMu, tring, rot, signIns, budget, foreign>>

RefreshInstall(q) ==
    /\ asked[q].at = "install"
    /\ \/ /\ asked[q].moved /\ UNCHANGED tokens
          /\ asked' = [asked EXCEPT ![q] = Unasked]
       \/ /\ ~asked[q].moved
          /\ tring' = asked[q].ring /\ told' = FALSE
          /\ asked' = [p \in Requests |-> IF p = q THEN Unasked
                                       ELSE [asked[p] EXCEPT !.moved = asked[p].at # "idle"]]
    /\ UNCHANGED <<signingKeys, source, rotateMu, rot, signIns, budget, foreign>>

\* What a call does once it has begun.
RotateGoesOn(r) ==
    RotateLoad(r) \/ RotateLoadFails(r) \/ installRing(r) \/ RotatePublish(r) \/ UseTokens(r)

CallbackGoesOn(c) ==
    \/ ExchangeFails(c) \/ MintingGen(c) \/ MintingLoad(c)
    \/ installRingIfCurrent(c) \/ MintingPublish(c)

RequestNext(q) == keyring(q) \/ RefreshLoad(q) \/ RefreshFails(q) \/ RefreshInstall(q)

SigningNext ==
    \/ \E r \in Rotations : RotateCommit(r) \/ RotateGoesOn(r)
    \/ RotateElsewhere
    \/ \E f \in Flows : Begin(f)
    \/ Expire
    \/ \E c \in Callbacks : takePending(c) \/ CallbackGoesOn(c)
    \/ Old
    \/ \E q \in Requests : RequestNext(q)

\* Calls run to their end, the clock moves, and requests keep arriving.
SigningFairness ==
    /\ \A r \in Rotations : WF_signingVars(RotateGoesOn(r))
    /\ \A c \in Callbacks : WF_signingVars(CallbackGoesOn(c))
    /\ WF_signingVars(Old)
    /\ \A q \in Requests : WF_signingVars(RequestNext(q))

SigningSpec == SigningInit /\ [][SigningNext]_signingVars
SigningFairSpec == SigningSpec /\ SigningFairness

-----------------------------------------------------------------------------
Retired == {k \in Kids : signingKeys[k] = "retired"}

\* Outside of a rotation the source mints with the registry's ring, unless
\* another replica rotated in the meantime: a ring that a sign-in loaded
\* before the rotation is never left installed after it.
RingCurrent == rotateMu = "none" /\ ~foreign => ring = LoadKeyring

\* A sign-in's state is spent once: however many callbacks carry it, and
\* whenever they arrive, one token is minted for it (takePending).
SingleUse == \A f \in Flows :
    minted[f] + Cardinality({c \in Callbacks : cb[c].flow = f}) <= 1

\* Sign-ins that wait stay within both limits, whatever has expired.
PendingBounded ==
    /\ Cardinality(pending) <= MaxPending
    /\ \A f \in Flows : Cardinality(FromPeer(pending, PeerOf[f])) <= MaxPerPeer

\* With requests arriving, and once nobody rotates any more, a key that was
\* retired stops verifying tokens for good (the refresh of tokenSource).
RetiredDropped == <>[](publicKeyFor(tring) \cap Retired = {})

\* Sign-ins that wait are few, and each of them ends once.
SignInSafe == SingleUse /\ PendingBounded
=============================================================================
