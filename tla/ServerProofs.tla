---------------------------- MODULE ServerProofs ----------------------------
(***************************************************************************)
(* Two parts of the server process that share no state: the sign-in keys,  *)
(* for every number of rotations, sign-ins, callbacks and requests and     *)
(* every limit, and the shutdown, for every number of requests, every set  *)
(* of ids and both fronts.                                                 *)
(*                                                                         *)
(* RingInv carries the first result about sign-in: a ring loaded before a  *)
(* rotation committed can be installed after it only while the rotation    *)
(* still holds rotateMu, and then the rotation's own install follows and   *)
(* moves the generation past every callback that loaded too early.         *)
(* SignInInv carries the second: the row of a state, the callback that     *)
(* took it and the token that was minted for it are never two of the three.*)
(*                                                                         *)
(* A server that stops treats its requests as ShutdownSafe says.  On stdio *)
(* the table of requests in flight counts every worker until its last      *)
(* defer (wg), so a drain that joins has no worker left; a drain that      *)
(* gives up has cancelled every worker first, and no request is admitted   *)
(* after the table is sealed because only the main goroutine admits.       *)
(* byKey leads to the last request under a key for as long as that request *)
(* holds its slot.  Behind HTTP requests are accepted until the listener   *)
(* closes, also during the drain: what the store's Close relies on is that *)
(* httpSrv.Close comes before it.                                          *)
(***************************************************************************)
EXTENDS SigningKeys, Shutdown, TLAPS, FiniteSetTheorems, SequenceTheorems

-----------------------------------------------------------------------------
(* Sign-in and signing keys.                                                 *)

States == {"active", "verify", "retired", "absent"}
Rings == [active : Kids \cup {0}, verify : SUBSET Kids]
RotationAt == {"idle", "load", "install", "publish", "use", "answered", "failed"}
CallbackAt == {"idle", "exchange", "load", "install", "publish", "ended"}

Absent == {k \in Kids : signingKeys[k] = "absent"}
Unstarted == {r \in Rotations : rot[r].at = "idle"}

\* The registry has an active key, and one left to create for every rotation to come.
KeysSuffice ==
    /\ signingKeys \in [Kids -> States]
    /\ \E k \in Kids : signingKeys[k] = "active"
    /\ bound \in SigningScene
    /\ Cardinality(Absent) >= Cardinality(Unstarted) + bound.elsewhere

\* The calls in progress.
CallsTyped ==
    /\ rotateMu \in Rotations \cup {"none"}
    /\ ringGen \in Nat
    /\ rot \in [Rotations -> [at : RotationAt, ring : Rings]]
    /\ cb \in [Callbacks -> [at : CallbackAt, flow : Flows \cup {NoFlow}, gen : Nat, ring : Rings]]
    /\ begun \subseteq Flows

\* rotateMu is held from the commit of a rotation until its ring is published.
MuHeld ==
    \A r \in Rotations : rot[r].at \in {"load", "install", "publish"} <=> rotateMu = r

\* No rotation is between its commit and its install.
Settled == ~foreign /\ \A r \in Rotations : rot[r].at \notin {"load", "install"}

\* A rotation that has loaded holds the registry's ring.
RotationLoaded ==
    ~foreign => \A r \in Rotations : rot[r].at \in {"install", "publish"} => rot[r].ring = LoadKeyring

\* A callback that installs what it loaded installs the registry's ring: its generation
\* is not the present one otherwise.
CallbackLoaded ==
    /\ \A c \in Callbacks : cb[c].at \in {"load", "install"} => cb[c].gen <= ringGen
    /\ Settled => \A c \in Callbacks :
          cb[c].at = "install" /\ cb[c].gen = ringGen => cb[c].ring = LoadKeyring

RingInv ==
    /\ KeysSuffice /\ CallsTyped /\ MuHeld
    /\ RotationLoaded /\ CallbackLoaded
    /\ Settled => ring = LoadKeyring

\* The ring that a load returns depends on the registry alone.
LEMMA LoadDepends ==
    ASSUME UNCHANGED signingKeys PROVE LoadKeyring' = LoadKeyring
  BY DEF LoadKeyring

LEMMA LoadTyped ==
    ASSUME KeysSuffice PROVE LoadKeyring \in Rings
  BY DEF KeysSuffice, LoadKeyring, Rings

LEMMA KidsFinite == IsFiniteSet(Kids) /\ Cardinality(Kids) = 2 + Cardinality(Rotations)
  <1>1. Cardinality(Rotations) \in Nat
    BY LimitAssumption, FS_CardinalityType
  <1> DEFINE n == 2 + Cardinality(Rotations)
  <1>2. n \in Int /\ 1 \in Int /\ ~(1 > n) /\ n - 1 + 1 = n
    BY <1>1
  <1> HIDE DEF n
  <1>3. IsFiniteSet(1 .. n) /\ Cardinality(1 .. n) = n
    BY <1>2, FS_Interval
  <1> QED BY <1>3 DEF Kids, n

\* A set of numbers has a least member: the next key to create, the row to expire first.
LEMMA LeastNat ==
    ASSUME NEW T, T \subseteq Nat, T # {} PROVE \E k \in T : \A j \in T : k <= j
  <1>1. T \subseteq Nat
    OBVIOUS
  <1>2. \E R : IsWellFoundedOn(R, Nat) /\ \A j, k \in Nat : j < k => <<j, k>> \in R
    <2>1. \A j, k \in Nat : j < k => <<j, k>> \in OpToRel(<, Nat)
      BY DEF OpToRel
    <2> QED BY <2>1, NatLessThanWellFounded, Zenon
  <1>3. PICK R : IsWellFoundedOn(R, Nat) /\ \A j, k \in Nat : j < k => <<j, k>> \in R
    BY <1>2
  <1>4. PICK k \in T : \A j \in T : ~(<<j, k>> \in R)
    <2>1. IsWellFoundedOn(R, Nat)
      BY <1>3
    <2> QED BY ONLY <1>1, <2>1, T # {}, WFMin
  <1>5. \A j \in T : ~(j < k)
    BY <1>1, <1>3, <1>4, Zenon
  <1> QED BY <1>1, <1>5

\* RotateSigningKey creates a key while one is left: it takes one key out of the
\* absent ones and makes it the active one.
LEMMA RotateTakesOne ==
    ASSUME KeysSuffice, Absent # {}, NEW retire \in BOOLEAN, signingKeys' = RotateSigningKey(retire)
    PROVE  /\ signingKeys' \in [Kids -> States]
           /\ \E k \in Kids : signingKeys'[k] = "active"
           /\ Cardinality(Absent') = Cardinality(Absent) - 1
  <1> DEFINE isNext(k) == signingKeys[k] = "absent" /\ \A j \in 1 .. k - 1 : signingKeys[j] # "absent"
             new == CHOOSE k \in Kids : isNext(k)
  <1>0. Absent \subseteq Nat
    BY LimitAssumption, FS_CardinalityType DEF Kids, Absent
  <1>1. \E k \in Kids : isNext(k)
    <2>1. PICK k \in Absent : \A j \in Absent : k <= j
      BY <1>0, LeastNat
    <2>2. k \in Kids /\ Kids \subseteq Nat /\ 1 .. k - 1 \subseteq Kids
      BY LimitAssumption, FS_CardinalityType DEF Kids, Absent
    <2>3. \A j \in 1 .. k - 1 : signingKeys[j] # "absent"
      BY <2>1, <2>2 DEF Absent
    <2> QED BY <2>2, <2>3 DEF Absent
  <1>2. new \in Kids /\ signingKeys[new] = "absent"
    BY <1>1
  <1>3. signingKeys' = [k \in Kids |->
            IF k = new THEN "active"
            ELSE IF signingKeys[k] = "absent" THEN "absent"
            ELSE IF retire THEN "retired"
            ELSE IF signingKeys[k] = "active" THEN "verify" ELSE signingKeys[k]]
    BY DEF RotateSigningKey
  <1> HIDE DEF new
  <1>4. signingKeys' \in [Kids -> States] /\ \E k \in Kids : signingKeys'[k] = "active"
    BY <1>2, <1>3 DEF KeysSuffice, States
  <1>5. Absent' = Absent \ {new}
    BY <1>2, <1>3 DEF Absent, KeysSuffice, States
  <1>6. IsFiniteSet(Absent) /\ new \in Absent
    BY <1>2, KidsFinite, FS_Subset DEF Absent
  <1> QED BY <1>4, <1>5, <1>6, FS_RemoveElement

\* A rotation of this replica uses up the key that was left for it.
LEMMA CommitKeepsKeys ==
    ASSUME KeysSuffice, CallsTyped, NEW r \in Rotations, RotateCommit(r) PROVE KeysSuffice'
  <1>1. IsFiniteSet(Unstarted) /\ r \in Unstarted /\ IsFiniteSet(Absent)
    BY LimitAssumption, KidsFinite, FS_Subset DEF Unstarted, RotateCommit, Absent
  <1>2. Unstarted' = Unstarted \ {r}
    BY DEF RotateCommit, Unstarted, CallsTyped
  <1>3. Cardinality(Unstarted') = Cardinality(Unstarted) - 1 /\ Cardinality(Unstarted) \in Nat \ {0}
    BY <1>1, <1>2, FS_RemoveElement, FS_CardinalityType, FS_EmptySet
  <1>4. Cardinality(Absent) \in Nat /\ Absent # {}
    BY <1>1, <1>3, FS_CardinalityType, FS_EmptySet DEF KeysSuffice, SigningScene
  <1>5. PICK retire \in BOOLEAN : signingKeys' = RotateSigningKey(retire)
    BY DEF RotateCommit
  <1>6. bound' = bound
    BY DEF RotateCommit, budget
  <1> QED BY <1>3, <1>4, <1>5, <1>6, RotateTakesOne DEF KeysSuffice, SigningScene

\* The keys suffice as long as nobody rotates.
LEMMA KeysUntouched ==
    ASSUME KeysSuffice, signingKeys' = signingKeys,
           \A r \in Rotations : rot'[r].at = "idle" <=> rot[r].at = "idle",
           bound'.elsewhere = bound.elsewhere, bound' \in SigningScene
    PROVE  KeysSuffice'
  <1>1. Unstarted' = Unstarted /\ Absent' = Absent
    BY DEF Unstarted, Absent
  <1> QED BY <1>1 DEF KeysSuffice

LEMMA RingInvInit ==
    ASSUME SigningInit PROVE RingInv
  <1>0. 1 \in Kids
    BY LimitAssumption, FS_CardinalityType DEF Kids
  <1>1. LoadKeyring = [active |-> 1, verify |-> {}]
    <2>2. \A k \in Kids : signingKeys[k] = IF k = 1 THEN "active" ELSE "absent"
      BY DEF SigningInit, SigningStart
    <2>3. (CHOOSE k \in Kids : signingKeys[k] = "active") = 1
      BY <1>0, <2>2
    <2>4. {k \in Kids : signingKeys[k] = "verify"} = {}
      BY <2>2
    <2> QED BY <2>3, <2>4 DEF LoadKeyring
  <1>2. KeysSuffice
    <2>1. Unstarted = Rotations /\ Absent = Kids \ {1}
      BY DEF SigningInit, SigningStart, Unstarted, Absent
    <2>2. Cardinality(Absent) = Cardinality(Kids) - 1
      BY <1>0, <2>1, KidsFinite, FS_RemoveElement
    <2>3. bound \in SigningScene /\ bound.elsewhere \in 0 .. 1
      BY LimitAssumption DEF SigningInit, SigningStart, SigningScene
    <2>4. Cardinality(Rotations) \in Nat
      BY LimitAssumption, FS_CardinalityType
    <2>5. Cardinality(Absent) = 1 + Cardinality(Unstarted)
      BY <2>1, <2>2, <2>4, KidsFinite
    <2> QED BY <1>0, <2>1, <2>3, <2>4, <2>5 DEF KeysSuffice, SigningInit, SigningStart, States
  <1>3. CallsTyped
    BY DEF SigningInit, SigningStart, CallsTyped, Rings, NoRing, Ended, RotationAt, CallbackAt
  <1> QED BY <1>1, <1>2, <1>3, LimitAssumption
          DEF SigningInit, SigningStart, RingInv, MuHeld, Settled, RotationLoaded, CallbackLoaded, Ended

\* Steps that touch neither the registry nor the ring nor a call that loads one.
LEMMA RingInvStutter ==
    ASSUME RingInv, UNCHANGED <<signingKeys, source, rotateMu, rot, cb>>, foreign' = foreign,
           bound'.elsewhere = bound.elsewhere, bound' \in SigningScene, begun' \subseteq Flows
    PROVE  RingInv'
  <1>1. KeysSuffice'
    BY KeysUntouched DEF RingInv
  <1> QED BY <1>1, LoadDepends
          DEF RingInv, CallsTyped, MuHeld, Settled, RotationLoaded, CallbackLoaded, source

\* A rotation, step by step: what it loads is the registry's ring, since no other
\* rotation of this replica runs, and its install outdates every earlier load.
LEMMA RotationKeepsRing ==
    ASSUME RingInv, NEW r \in Rotations, RotateCommit(r) \/ RotateGoesOn(r)
    PROVE  RingInv'
  <1> USE LimitAssumption
  <1>1. CASE RotateCommit(r)
    <2>1. CallsTyped' /\ MuHeld'
      BY <1>1, LoadTyped DEF RotateCommit, RingInv, CallsTyped, MuHeld, RotationAt, source, signIns, NoRing, Rings
    <2>2. RotationLoaded' /\ CallbackLoaded'
      BY <1>1, <2>1 DEF RotateCommit, RingInv, CallsTyped, MuHeld, Settled, RotationLoaded, CallbackLoaded, source, signIns
    <2>3. (Settled => ring = LoadKeyring)'
      BY <1>1, <2>1 DEF RotateCommit, RingInv, CallsTyped, MuHeld, Settled, RotationLoaded, source, signIns
    <2>4. KeysSuffice'
      BY <1>1, CommitKeepsKeys DEF RotateCommit, RingInv
    <2> QED BY <2>1, <2>2, <2>3, <2>4 DEF RingInv
  <1>2. CASE RotateLoad(r)
    <2>0. LoadKeyring \in Rings
      BY LoadTyped DEF RingInv
    <2>1. CallsTyped' /\ MuHeld'
      BY <1>2, <2>0 DEF RotateLoad, RingInv, CallsTyped, MuHeld, RotationAt, source, signIns
    <2>2. RotationLoaded' /\ CallbackLoaded'
      BY <1>2, <2>1, LoadDepends DEF RotateLoad, RingInv, CallsTyped, MuHeld, Settled, RotationLoaded, CallbackLoaded, source, signIns
    <2>3. (Settled => ring = LoadKeyring)'
      BY <1>2, <2>1, LoadDepends DEF RotateLoad, RingInv, CallsTyped, MuHeld, Settled, RotationLoaded, source, signIns
    <2>4. KeysSuffice'
      BY <1>2, KeysUntouched DEF RotateLoad, RingInv, CallsTyped, KeysSuffice, budget, SigningScene
    <2> QED BY <2>1, <2>2, <2>3, <2>4 DEF RingInv
  <1>3. CASE RotateLoadFails(r)
    <2>1. CallsTyped' /\ MuHeld'
      BY <1>3, LoadTyped DEF RotateLoadFails, RingInv, CallsTyped, MuHeld, RotationAt, source, signIns, NoRing, Rings
    <2>2. RotationLoaded' /\ CallbackLoaded'
      BY <1>3, <2>1 DEF RotateLoadFails, RingInv, CallsTyped, MuHeld, Settled, RotationLoaded, CallbackLoaded, source, signIns
    <2>3. (Settled => ring = LoadKeyring)'
      BY <1>3, <2>1 DEF RotateLoadFails, RingInv, CallsTyped, MuHeld, Settled, RotationLoaded, source, signIns
    <2>4. KeysSuffice'
      BY <1>3, KeysUntouched DEF RotateLoadFails, RingInv, CallsTyped, KeysSuffice, budget, SigningScene
    <2> QED BY <2>1, <2>2, <2>3, <2>4 DEF RingInv
  <1>4. CASE installRing(r)
    <2>1. CallsTyped' /\ MuHeld'
      BY <1>4, LoadTyped DEF installRing, RingInv, CallsTyped, MuHeld, RotationAt, source, signIns, NoRing, Rings
    <2>2. RotationLoaded' /\ CallbackLoaded'
      BY <1>4, <2>1, LoadDepends DEF installRing, RingInv, CallsTyped, MuHeld, Settled, RotationLoaded, CallbackLoaded, source, signIns
    <2>3. (Settled => ring = LoadKeyring)'
      BY <1>4, <2>1, LoadDepends DEF installRing, RingInv, CallsTyped, MuHeld, Settled, RotationLoaded, source, signIns
    <2>4. KeysSuffice'
      BY <1>4, KeysUntouched DEF installRing, RingInv, CallsTyped, KeysSuffice, budget, SigningScene
    <2> QED BY <2>1, <2>2, <2>3, <2>4 DEF RingInv
  <1>5. CASE RotatePublish(r)
    <2>1. CallsTyped' /\ MuHeld'
      BY <1>5, LoadTyped DEF RotatePublish, RingInv, CallsTyped, MuHeld, RotationAt, source, signIns, NoRing, Rings
    <2>2. RotationLoaded' /\ CallbackLoaded'
      BY <1>5, <2>1, LoadDepends DEF RotatePublish, RingInv, CallsTyped, MuHeld, Settled, RotationLoaded, CallbackLoaded, source, signIns
    <2>3. (Settled => ring = LoadKeyring)'
      BY <1>5, <2>1, LoadDepends DEF RotatePublish, RingInv, CallsTyped, MuHeld, Settled, RotationLoaded, source, signIns
    <2>4. KeysSuffice'
      BY <1>5, KeysUntouched DEF RotatePublish, RingInv, CallsTyped, KeysSuffice, budget, SigningScene
    <2> QED BY <2>1, <2>2, <2>3, <2>4 DEF RingInv
  <1>6. CASE UseTokens(r)
    <2>0. NoRing \in Rings
      BY DEF NoRing, Rings
    <2>1. CallsTyped' /\ MuHeld'
      BY <1>6, <2>0 DEF UseTokens, RingInv, CallsTyped, MuHeld, RotationAt, source, signIns
    <2>2. RotationLoaded' /\ CallbackLoaded'
      BY <1>6, <2>1, LoadDepends DEF UseTokens, RingInv, CallsTyped, MuHeld, Settled, RotationLoaded, CallbackLoaded, source, signIns
    <2>3. (Settled => ring = LoadKeyring)'
      BY <1>6, <2>1, LoadDepends DEF UseTokens, RingInv, CallsTyped, MuHeld, Settled, RotationLoaded, source, signIns
    <2>4. KeysSuffice'
      BY <1>6, KeysUntouched DEF UseTokens, RingInv, CallsTyped, KeysSuffice, budget, SigningScene
    <2> QED BY <2>1, <2>2, <2>3, <2>4 DEF RingInv
  <1> QED BY <1>1, <1>2, <1>3, <1>4, <1>5, <1>6 DEF RotateGoesOn

\* A callback, step by step.
LEMMA CallbackKeepsRing ==
    ASSUME RingInv, NEW c \in Callbacks, takePending(c) \/ CallbackGoesOn(c)
    PROVE  RingInv'
  <1>1. CASE takePending(c)
    <2>0. UNCHANGED <<signingKeys, rotateMu, rot, ring, ringGen, foreign, bound, begun>> /\ LoadKeyring' = LoadKeyring
      BY <1>1, LoadDepends DEF takePending, source, budget
    <2>a. PICK f \in begun : cb' = [cb EXCEPT ![c] = Resumed(c, f)]
      BY <1>1 DEF takePending
    <2>b. /\ Resumed(c, f) \in [at : CallbackAt, flow : Flows \cup {NoFlow}, gen : Nat, ring : Rings]
          /\ Resumed(c, f).at \in {"exchange", "ended"}
      BY <2>a DEF RingInv, CallsTyped, Resumed, Ended, NoRing, Rings, CallbackAt
    <2>1. CallsTyped' /\ MuHeld'
      BY <2>0, <2>a, <2>b DEF RingInv, CallsTyped, MuHeld
    <2>2. RotationLoaded' /\ CallbackLoaded'
      BY <2>0, <2>a, <2>b DEF RingInv, CallsTyped, Settled, RotationLoaded, CallbackLoaded
    <2>3. (Settled => ring = LoadKeyring)'
      BY <2>0 DEF RingInv, Settled
    <2>4. KeysSuffice'
      BY <2>0, KeysUntouched DEF RingInv, KeysSuffice
    <2> QED BY <2>1, <2>2, <2>3, <2>4 DEF RingInv
  <1>2. CASE ExchangeFails(c)
    <2>0. UNCHANGED <<signingKeys, rotateMu, rot, foreign, bound>> /\ LoadKeyring' = LoadKeyring
      BY <1>2, LoadDepends DEF ExchangeFails, source, budget
    <2>1. CallsTyped' /\ MuHeld'
      BY <1>2, LoadTyped DEF ExchangeFails, Ended, NoRing, Rings, RingInv, CallsTyped, MuHeld, CallbackAt, source
    <2>2. RotationLoaded' /\ CallbackLoaded'
      BY <1>2, <2>0 DEF ExchangeFails, Ended, NoRing, Rings, RingInv, CallsTyped, Settled, RotationLoaded, CallbackLoaded, source
    <2>3. (Settled => ring = LoadKeyring)'
      BY <1>2, <2>0 DEF ExchangeFails, Ended, NoRing, Rings, RingInv, Settled, CallbackLoaded, source
    <2>4. KeysSuffice'
      BY <2>0, KeysUntouched DEF RingInv, KeysSuffice
    <2> QED BY <2>1, <2>2, <2>3, <2>4 DEF RingInv
  <1>3. CASE MintingGen(c)
    <2>0. UNCHANGED <<signingKeys, rotateMu, rot, foreign, bound>> /\ LoadKeyring' = LoadKeyring
      BY <1>3, LoadDepends DEF MintingGen, source, budget
    <2>1. CallsTyped' /\ MuHeld'
      BY <1>3, LoadTyped DEF MintingGen, RingInv, CallsTyped, MuHeld, CallbackAt, source
    <2>2. RotationLoaded' /\ CallbackLoaded'
      BY <1>3, <2>0 DEF MintingGen, RingInv, CallsTyped, Settled, RotationLoaded, CallbackLoaded, source
    <2>3. (Settled => ring = LoadKeyring)'
      BY <1>3, <2>0 DEF MintingGen, RingInv, Settled, CallbackLoaded, source
    <2>4. KeysSuffice'
      BY <2>0, KeysUntouched DEF RingInv, KeysSuffice
    <2> QED BY <2>1, <2>2, <2>3, <2>4 DEF RingInv
  <1>4. CASE MintingLoad(c)
    <2>0. UNCHANGED <<signingKeys, rotateMu, rot, foreign, bound>> /\ LoadKeyring' = LoadKeyring
      BY <1>4, LoadDepends DEF MintingLoad, source, budget
    <2>1. CallsTyped' /\ MuHeld'
      BY <1>4, LoadTyped DEF MintingLoad, RingInv, CallsTyped, MuHeld, CallbackAt, source
    <2>2. RotationLoaded' /\ CallbackLoaded'
      BY <1>4, <2>0 DEF MintingLoad, RingInv, CallsTyped, Settled, RotationLoaded, CallbackLoaded, source
    <2>3. (Settled => ring = LoadKeyring)'
      BY <1>4, <2>0 DEF MintingLoad, RingInv, Settled, CallbackLoaded, source
    <2>4. KeysSuffice'
      BY <2>0, KeysUntouched DEF RingInv, KeysSuffice
    <2> QED BY <2>1, <2>2, <2>3, <2>4 DEF RingInv
  <1>5. CASE installRingIfCurrent(c)
    <2>0. UNCHANGED <<signingKeys, rotateMu, rot, foreign, bound, begun>> /\ LoadKeyring' = LoadKeyring
      BY <1>5, LoadDepends DEF installRingIfCurrent, budget
    <2>1. CASE ringGen # cb[c].gen
      <3>1. UNCHANGED <<ring, ringGen>> /\ cb' = [cb EXCEPT ![c] = Ended]
        BY <1>5, <2>1 DEF installRingIfCurrent, MintToken, source
      <3>2. CallsTyped' /\ MuHeld'
        BY <2>0, <3>1 DEF RingInv, CallsTyped, MuHeld, CallbackAt, Ended, NoRing, Rings
      <3> QED BY <2>0, <3>1, <3>2, KeysUntouched
              DEF RingInv, CallsTyped, Settled, RotationLoaded, CallbackLoaded, Ended, KeysSuffice
    <2>2. CASE ringGen = cb[c].gen
      <3>1. ring' = cb[c].ring /\ ringGen' = ringGen + 1 /\ cb' = [cb EXCEPT ![c].at = "publish"]
        BY <1>5, <2>2 DEF installRingIfCurrent
      <3>2. CallsTyped' /\ MuHeld'
        BY <2>0, <3>1 DEF RingInv, CallsTyped, MuHeld, CallbackAt
      <3>3. (Settled => ring = LoadKeyring)'
        BY <1>5, <2>0, <2>2, <3>1 DEF RingInv, Settled, CallbackLoaded, installRingIfCurrent
      <3> QED BY <2>0, <3>1, <3>2, <3>3, KeysUntouched
              DEF RingInv, CallsTyped, Settled, RotationLoaded, CallbackLoaded, KeysSuffice
    <2> QED BY <2>1, <2>2
  <1>6. CASE MintingPublish(c)
    <2>0. UNCHANGED <<signingKeys, rotateMu, rot, foreign, bound>> /\ LoadKeyring' = LoadKeyring
      BY <1>6, LoadDepends DEF MintingPublish, source, budget
    <2>1. CallsTyped' /\ MuHeld'
      BY <1>6, LoadTyped DEF MintingPublish, MintToken, Ended, NoRing, Rings, RingInv, CallsTyped, MuHeld, CallbackAt, source
    <2>2. RotationLoaded' /\ CallbackLoaded'
      BY <1>6, <2>0 DEF MintingPublish, MintToken, Ended, NoRing, Rings, RingInv, CallsTyped, Settled, RotationLoaded, CallbackLoaded, source
    <2>3. (Settled => ring = LoadKeyring)'
      BY <1>6, <2>0 DEF MintingPublish, MintToken, Ended, NoRing, Rings, RingInv, Settled, CallbackLoaded, source
    <2>4. KeysSuffice'
      BY <2>0, KeysUntouched DEF RingInv, KeysSuffice
    <2> QED BY <2>1, <2>2, <2>3, <2>4 DEF RingInv
  <1> QED BY <1>1, <1>2, <1>3, <1>4, <1>5, <1>6 DEF CallbackGoesOn

\* A rotation that another replica serves uses up the key that was left for it, and
\* from then on this replica's ring is only refreshed (foreign).
LEMMA ElsewhereKeepsRing ==
    ASSUME RingInv, RotateElsewhere PROVE RingInv'
  <1>1. /\ bound.elsewhere > 0 /\ bound'.elsewhere = bound.elsewhere - 1
        /\ bound.elsewhere \in Nat /\ bound' \in SigningScene
    BY DEF RotateElsewhere, RingInv, KeysSuffice, SigningScene
  <1>2. UNCHANGED <<rot, cb, rotateMu, ringGen, ring, begun>> /\ foreign'
    BY DEF RotateElsewhere, source, signIns
  <1>3. IsFiniteSet(Absent) /\ IsFiniteSet(Unstarted)
    BY LimitAssumption, KidsFinite, FS_Subset DEF Unstarted, Absent
  <1>4. Cardinality(Absent) \in Nat /\ Cardinality(Unstarted) \in Nat /\ Absent # {}
    BY <1>1, <1>3, FS_CardinalityType, FS_EmptySet DEF RingInv, KeysSuffice
  <1>5. PICK retire \in BOOLEAN : signingKeys' = RotateSigningKey(retire)
    BY DEF RotateElsewhere
  <1>6. Unstarted' = Unstarted
    BY <1>2 DEF Unstarted
  <1>7. KeysSuffice'
    BY <1>1, <1>4, <1>5, <1>6, RotateTakesOne DEF RingInv, KeysSuffice
  <1> QED BY <1>2, <1>7 DEF RingInv, CallsTyped, MuHeld, Settled, RotationLoaded, CallbackLoaded

LEMMA RingInvariant == SigningSpec => []RingInv
  <1>1. SigningInit => RingInv
    BY RingInvInit
  <1>2. RingInv /\ [SigningNext]_signingVars => RingInv'
    <2> SUFFICES ASSUME RingInv, [SigningNext]_signingVars PROVE RingInv'
      OBVIOUS
    <2>1. ASSUME NEW r \in Rotations, RotateCommit(r) \/ RotateGoesOn(r) PROVE RingInv'
      BY <2>1, RotationKeepsRing
    <2>2. CASE RotateElsewhere
      BY <2>2, ElsewhereKeepsRing
    <2>3. ASSUME NEW f \in Flows, Begin(f) PROVE RingInv'
      BY <2>3, RingInvStutter DEF Begin, budget, RingInv, CallsTyped, KeysSuffice
    <2>4. CASE Expire
      BY <2>4, RingInvStutter DEF Expire, RingInv, CallsTyped, KeysSuffice, SigningScene
    <2>5. ASSUME NEW c \in Callbacks, takePending(c) \/ CallbackGoesOn(c) PROVE RingInv'
      BY <2>5, CallbackKeepsRing
    <2>6. CASE Old
      BY <2>6, RingInvStutter DEF Old, signIns, budget, RingInv, CallsTyped, KeysSuffice
    <2>7. ASSUME NEW q \in Requests, RequestNext(q) PROVE RingInv'
      <3>1. UNCHANGED <<signingKeys, source, rotateMu, rot, cb, begun, foreign>>
        BY <2>7 DEF RequestNext, keyring, RefreshLoad, RefreshFails, RefreshInstall, signIns
      <3>2. bound'.elsewhere = bound.elsewhere /\ bound' \in SigningScene
        BY <2>7 DEF RequestNext, keyring, RefreshLoad, RefreshFails, RefreshInstall, budget,
                    RingInv, KeysSuffice, SigningScene
      <3> QED BY <3>1, <3>2, RingInvStutter DEF RingInv, CallsTyped
    <2>8. CASE UNCHANGED signingVars
      BY <2>8, RingInvStutter DEF signingVars, source, RingInv, CallsTyped, KeysSuffice
    <2> QED BY <2>1, <2>2, <2>3, <2>4, <2>5, <2>6, <2>7, <2>8 DEF SigningNext
  <1> QED BY <1>1, <1>2, PTL DEF SigningSpec

\* Outside of a rotation the source mints with the registry's ring, unless
\* the registry moved without this replica (Rotate, installRing,
\* installRingIfCurrent).
THEOREM RingStaysCurrent == SigningSpec => []RingCurrent
  <1>1. RingInv => RingCurrent
    BY LimitAssumption DEF RingInv, RingCurrent, MuHeld, Settled
  <1> QED BY <1>1, RingInvariant, PTL

-----------------------------------------------------------------------------
Holds(c, f) == cb[c].flow = f

\* Nothing has come of a sign-in's state yet.
Unspent(f) == minted[f] = 0 /\ \A c \in Callbacks : ~Holds(c, f)

\* One callback at most goes on with it, and none once its token is minted.
SpentOnce(f) ==
    \/ minted[f] = 0 /\ \A c, d \in Callbacks : Holds(c, f) /\ Holds(d, f) => c = d
    \/ minted[f] = 1 /\ \A c \in Callbacks : ~Holds(c, f)

PendingTyped ==
    /\ pending \subseteq [flow : begun, expires : Nat, expired : BOOLEAN]
    /\ IsFiniteSet(pending) /\ IsFiniteSet(begun)
    /\ minted \in [Flows -> Nat]

FlowsSpent ==
    /\ \A c \in Callbacks : cb[c].at \in {"idle", "ended"} <=> cb[c].flow = NoFlow
    /\ \A f \in Flows : SpentOnce(f)
    /\ \A f \in Flows : f \notin begun => Unspent(f)
    /\ \A p \in pending : Unspent(p.flow)

SignInInv == PendingTyped /\ FlowsSpent /\ PendingBounded

\* A set with one more element is finite and at most one larger.
LEMMA OneMore ==
    ASSUME NEW S, IsFiniteSet(S), NEW x
    PROVE  /\ IsFiniteSet(S \cup {x}) /\ Cardinality(S \cup {x}) <= Cardinality(S) + 1
           /\ Cardinality(S) \in Nat /\ Cardinality(S \cup {x}) \in Nat
  <1>1. /\ IsFiniteSet(S \cup {x})
        /\ Cardinality(S \cup {x}) = IF x \in S THEN Cardinality(S) ELSE Cardinality(S) + 1
    BY FS_AddElement
  <1>2. Cardinality(S) \in Nat /\ Cardinality(S \cup {x}) \in Nat
    BY <1>1, FS_CardinalityType
  <1> QED BY <1>1, <1>2

\* An element that is replaced by another one leaves the set no larger.
LEMMA OneReplaced ==
    ASSUME NEW S, IsFiniteSet(S), NEW x \in S, NEW y
    PROVE  /\ IsFiniteSet((S \ {x}) \cup {y}) /\ Cardinality((S \ {x}) \cup {y}) <= Cardinality(S)
           /\ Cardinality(S) \in Nat /\ Cardinality((S \ {x}) \cup {y}) \in Nat
  <1>1. IsFiniteSet(S \ {x}) /\ Cardinality(S \ {x}) = Cardinality(S) - 1
    BY FS_RemoveElement
  <1>2. /\ IsFiniteSet((S \ {x}) \cup {y})
        /\ Cardinality((S \ {x}) \cup {y}) <= Cardinality(S \ {x}) + 1
        /\ Cardinality((S \ {x}) \cup {y}) \in Nat
    BY <1>1, OneMore
  <1>3. Cardinality(S) \in Nat
    BY FS_CardinalityType
  <1> QED BY <1>1, <1>2, <1>3

\* A table that shrinks stays within its limits.
LEMMA FewerPending ==
    ASSUME SignInInv, pending' \subseteq pending
    PROVE  PendingBounded' /\ IsFiniteSet(pending')
  <1>1. IsFiniteSet(pending) /\ Cardinality(pending) <= MaxPending
    BY DEF SignInInv, PendingTyped, PendingBounded
  <1>2. IsFiniteSet(pending') /\ Cardinality(pending') <= Cardinality(pending)
    BY <1>1, FS_Subset
  <1>3. ASSUME NEW f \in Flows
        PROVE  Cardinality(FromPeer(pending', PeerOf[f])) <= MaxPerPeer
    <2>1. IsFiniteSet(FromPeer(pending, PeerOf[f]))
      BY <1>1, FS_Subset DEF FromPeer
    <2>2. FromPeer(pending', PeerOf[f]) \subseteq FromPeer(pending, PeerOf[f])
      BY DEF FromPeer
    <2>3. Cardinality(FromPeer(pending', PeerOf[f])) <= Cardinality(FromPeer(pending, PeerOf[f]))
      BY <2>1, <2>2, FS_Subset
    <2>4. /\ Cardinality(FromPeer(pending', PeerOf[f])) \in Nat
          /\ Cardinality(FromPeer(pending, PeerOf[f])) \in Nat
      BY <2>1, <2>2, FS_Subset, FS_CardinalityType
    <2> QED BY <2>3, <2>4, LimitAssumption DEF SignInInv, PendingBounded
  <1>4. Cardinality(pending') \in Nat /\ Cardinality(pending) \in Nat
    BY <1>1, <1>2, FS_CardinalityType
  <1> QED BY <1>1, <1>2, <1>3, <1>4, LimitAssumption DEF PendingBounded

\* The rows that putPending leaves are fewer than the limit: when the table is full, the
\* row that expires first goes.
LEMMA EvictionMakesRoom ==
    ASSUME SignInInv, NEW kept,
           kept = {p \in Unexpired :
                      Cardinality(Sooner(p, Unexpired)) >= (Cardinality(Unexpired) + 1) - MaxPending}
    PROVE  Cardinality(kept) + 1 <= MaxPending /\ IsFiniteSet(kept) /\ Cardinality(kept) \in Nat
  <1>1. IsFiniteSet(Unexpired) /\ Cardinality(Unexpired) <= MaxPending
        /\ Cardinality(Unexpired) \in Nat
    <2>1. IsFiniteSet(pending) /\ Unexpired \subseteq pending
      BY DEF SignInInv, PendingTyped, Unexpired
    <2>2. IsFiniteSet(Unexpired) /\ Cardinality(Unexpired) <= Cardinality(pending)
      BY <2>1, FS_Subset
    <2>3. Cardinality(Unexpired) \in Nat /\ Cardinality(pending) \in Nat
      BY <2>1, <2>2, FS_CardinalityType
    <2> QED BY <2>2, <2>3, LimitAssumption DEF SignInInv, PendingBounded
  <1>2. kept \subseteq Unexpired
    OBVIOUS
  <1>3. IsFiniteSet(kept) /\ Cardinality(kept) <= Cardinality(Unexpired) /\ Cardinality(kept) \in Nat
    BY <1>1, <1>2, FS_Subset, FS_CardinalityType
  <1>4. CASE Cardinality(Unexpired) < MaxPending
    BY <1>1, <1>3, <1>4, LimitAssumption
  <1>5. CASE Cardinality(Unexpired) = MaxPending
    <2>1. Unexpired # {}
      BY <1>1, <1>5, FS_EmptySet, LimitAssumption
    <2>2. PICK first \in Unexpired : \A q \in Unexpired : first.expires <= q.expires
      <3> DEFINE T == {q.expires : q \in Unexpired}
      <3>1. T \subseteq Nat /\ T # {}
        BY <2>1 DEF SignInInv, PendingTyped, Unexpired
      <3>2. PICK t \in T : \A u \in T : t <= u
        BY <3>1, LeastNat
      <3> QED BY <3>2
    <2>3. Sooner(first, Unexpired) = {}
      BY <2>2 DEF Sooner, SignInInv, PendingTyped, Unexpired
    <2>4. first \notin kept
      BY <1>5, <2>3, FS_EmptySet, LimitAssumption
    <2>5. kept \subseteq Unexpired \ {first}
      BY <1>2, <2>4
    <2>6. /\ IsFiniteSet(Unexpired \ {first})
          /\ Cardinality(Unexpired \ {first}) = Cardinality(Unexpired) - 1
      BY <1>1, <2>2, FS_RemoveElement
    <2>7. Cardinality(kept) <= Cardinality(Unexpired) - 1
      BY <2>5, <2>6, FS_Subset
    <2> QED BY <1>1, <1>3, <1>5, <2>7, LimitAssumption
  <1> QED BY <1>1, <1>3, <1>4, <1>5, LimitAssumption

\* Begin: the table stays within both limits, and a state that is new is unspent.
LEMMA BeginKeepsSignIns ==
    ASSUME SignInInv, CallsTyped, NEW f \in Flows, Begin(f)
    PROVE  SignInInv'
  <1> DEFINE kept == {p \in Unexpired :
                         Cardinality(Sooner(p, Unexpired)) >= (Cardinality(Unexpired) + 1) - MaxPending}
             row == [flow |-> f, expires |-> Cardinality(begun), expired |-> FALSE]
             full == Cardinality(FromPeer(Unexpired, PeerOf[f])) >= MaxPerPeer
  <1>0. /\ UNCHANGED <<cb, minted>> /\ begun' = begun \cup {f} /\ f \notin begun
        /\ pending' = IF full THEN Unexpired ELSE kept \cup {row}
    BY DEF Begin, putPending
  <1>1. IsFiniteSet(pending) /\ IsFiniteSet(begun) /\ Unexpired \subseteq pending /\ kept \subseteq pending
    BY DEF SignInInv, PendingTyped, Unexpired
  <1>2. IsFiniteSet(begun') /\ Cardinality(begun) \in Nat
    BY <1>0, <1>1, FS_AddElement, FS_CardinalityType
  <1>3. row \in [flow : begun', expires : Nat, expired : BOOLEAN]
    BY <1>0, <1>2
  <1>4. Cardinality(kept) + 1 <= MaxPending /\ IsFiniteSet(kept) /\ Cardinality(kept) \in Nat
    BY EvictionMakesRoom
  <1> HIDE DEF kept
  <1>5. pending' \subseteq [flow : begun', expires : Nat, expired : BOOLEAN]
    BY <1>0, <1>1, <1>3 DEF SignInInv, PendingTyped
  <1>6. FlowsSpent'
    BY <1>0, <1>1 DEF SignInInv, PendingTyped, FlowsSpent, SpentOnce, Unspent, Holds
  <1>7. CASE full
    <2>1. pending' \subseteq pending
      BY <1>0, <1>1, <1>7
    <2> QED BY <1>0, <1>2, <1>5, <1>6, <2>1, FewerPending DEF SignInInv, PendingTyped
  <1>8. CASE ~full
    <2>1. pending' = kept \cup {row}
      BY <1>0, <1>8
    <2>2. IsFiniteSet(pending') /\ Cardinality(pending') <= MaxPending
      <3>1. /\ IsFiniteSet(kept \cup {row}) /\ Cardinality(kept \cup {row}) \in Nat
            /\ Cardinality(kept \cup {row}) <= Cardinality(kept) + 1
        BY <1>4, OneMore
      <3> QED BY <1>4, <2>1, <3>1, LimitAssumption
    <2>3. ASSUME NEW g \in Flows
          PROVE  Cardinality(FromPeer(pending', PeerOf[g])) <= MaxPerPeer
      <3> DEFINE P == PeerOf[g]
      <3>1. IsFiniteSet(FromPeer(pending, P)) /\ IsFiniteSet(FromPeer(Unexpired, P))
        BY <1>1, FS_Subset DEF FromPeer
      <3>2. CASE P = PeerOf[f]
        <4>1. FromPeer(pending', P) \subseteq FromPeer(Unexpired, P) \cup {row}
          BY <1>1, <2>1 DEF FromPeer, kept
        <4>2. IsFiniteSet(FromPeer(Unexpired, P) \cup {row})
              /\ Cardinality(FromPeer(Unexpired, P) \cup {row}) <= Cardinality(FromPeer(Unexpired, P)) + 1
              /\ Cardinality(FromPeer(Unexpired, P)) \in Nat
          BY <3>1, OneMore
        <4>3. /\ Cardinality(FromPeer(pending', P)) <= Cardinality(FromPeer(Unexpired, P) \cup {row})
              /\ Cardinality(FromPeer(pending', P)) \in Nat
              /\ Cardinality(FromPeer(Unexpired, P) \cup {row}) \in Nat
          BY <4>1, <4>2, FS_Subset, FS_CardinalityType
        <4>4. Cardinality(FromPeer(Unexpired, P)) < MaxPerPeer
          BY <1>8, <3>2, <4>2, LimitAssumption
        <4> QED BY <4>2, <4>3, <4>4, LimitAssumption
      <3>3. CASE P # PeerOf[f]
        <4>1. FromPeer(pending', P) \subseteq FromPeer(pending, P)
          BY <1>1, <2>1, <3>3 DEF FromPeer
        <4>2. /\ Cardinality(FromPeer(pending', P)) <= Cardinality(FromPeer(pending, P))
              /\ Cardinality(FromPeer(pending', P)) \in Nat /\ Cardinality(FromPeer(pending, P)) \in Nat
          BY <3>1, <4>1, FS_Subset, FS_CardinalityType
        <4> QED BY <4>2, LimitAssumption DEF SignInInv, PendingBounded
      <3> QED BY <3>2, <3>3
    <2> QED BY <1>0, <1>2, <1>5, <1>6, <2>2, <2>3 DEF SignInInv, PendingTyped, PendingBounded
  <1> QED BY <1>7, <1>8

\* A row that expires stays one row, of the same sign-in and client.
LEMMA ExpireKeepsSignIns ==
    ASSUME SignInInv, Expire
    PROVE  SignInInv'
  <1>1. PICK p \in Unexpired : pending' = (pending \ {p}) \cup {[p EXCEPT !.expired = TRUE]}
    BY DEF Expire
  <1> DEFINE q == [p EXCEPT !.expired = TRUE]
  <1>2. /\ p \in pending /\ q \in [flow : begun, expires : Nat, expired : BOOLEAN] /\ q.flow = p.flow
        /\ IsFiniteSet(pending)
    BY DEF SignInInv, PendingTyped, Unexpired
  <1>3. UNCHANGED <<begun, cb, minted>>
    BY DEF Expire
  <1> HIDE DEF q
  <1>4. pending' = (pending \ {p}) \cup {q}
    BY <1>1 DEF q
  <1>5. IsFiniteSet(pending') /\ Cardinality(pending') <= Cardinality(pending)
        /\ Cardinality(pending') \in Nat /\ Cardinality(pending) \in Nat
    BY <1>2, <1>4, OneReplaced
  <1>6. ASSUME NEW f \in Flows
        PROVE  Cardinality(FromPeer(pending', PeerOf[f])) <= MaxPerPeer
    <2> DEFINE F == FromPeer(pending, PeerOf[f])
    <2>1. IsFiniteSet(F)
      BY <1>2, FS_Subset DEF FromPeer
    <2>2. CASE p \in F
      <3>1. FromPeer(pending', PeerOf[f]) = (F \ {p}) \cup {q}
        BY <1>2, <1>4, <2>2 DEF FromPeer
      <3>2. /\ Cardinality(FromPeer(pending', PeerOf[f])) <= Cardinality(F)
            /\ Cardinality(FromPeer(pending', PeerOf[f])) \in Nat /\ Cardinality(F) \in Nat
        BY <2>1, <2>2, <3>1, OneReplaced
      <3> QED BY <3>2, LimitAssumption DEF SignInInv, PendingBounded
    <2>3. CASE p \notin F
      <3>1. FromPeer(pending', PeerOf[f]) = F
        BY <1>2, <1>4, <2>3 DEF FromPeer
      <3> QED BY <3>1 DEF SignInInv, PendingBounded
    <2> QED BY <2>2, <2>3
  <1>7. Cardinality(pending') <= MaxPending
    BY <1>5, LimitAssumption DEF SignInInv, PendingBounded
  <1>8. FlowsSpent'
    BY <1>2, <1>3, <1>4 DEF SignInInv, FlowsSpent, SpentOnce, Unspent, Holds
  <1>9. pending' \subseteq [flow : begun', expires : Nat, expired : BOOLEAN]
    BY <1>2, <1>3, <1>4 DEF SignInInv, PendingTyped
  <1> QED BY <1>3, <1>5, <1>6, <1>7, <1>8, <1>9 DEF SignInInv, PendingTyped, PendingBounded

\* takePending hands a state to one callback: the row that made it unspent is gone.
LEMMA TakeKeepsSignIns ==
    ASSUME SignInInv, CallsTyped, NEW c \in Callbacks, takePending(c)
    PROVE  SignInInv'
  <1>1. PICK f \in begun : /\ pending' = {p \in pending : p.flow # f}
                           /\ cb' = [cb EXCEPT ![c] = Resumed(c, f)]
    BY DEF takePending
  <1>2. UNCHANGED <<begun, minted>> /\ cb[c].at = "idle" /\ cb[c].flow = NoFlow /\ f \in Flows
    BY DEF takePending, SignInInv, FlowsSpent, CallsTyped
  <1>3. PendingTyped' /\ PendingBounded'
    <2>1. pending' \subseteq pending
      BY <1>1
    <2> QED BY <1>2, <2>1, FewerPending DEF SignInInv, PendingTyped
  <1>4. CASE \E p \in Unexpired : p.flow = f
    <2>1. Unspent(f)
      BY <1>4 DEF SignInInv, FlowsSpent, Unexpired
    <2>2. cb'[c].flow = f /\ cb'[c].at = "exchange" /\ \A d \in Callbacks \ {c} : cb'[d] = cb[d]
      BY <1>1, <1>4 DEF Resumed, CallsTyped
    <2>3. f # NoFlow
      BY <1>2, LimitAssumption DEF NoFlow
    <2> QED BY <1>1, <1>2, <1>3, <2>1, <2>2, <2>3
            DEF SignInInv, FlowsSpent, SpentOnce, Unspent, Holds, PendingTyped
  <1>5. CASE ~\E p \in Unexpired : p.flow = f
    <2>1. cb'[c].flow = NoFlow /\ cb'[c].at = "ended" /\ \A d \in Callbacks \ {c} : cb'[d] = cb[d]
      BY <1>1, <1>5 DEF Resumed, Ended, CallsTyped
    <2>2. \A g \in Flows : g # NoFlow
      BY LimitAssumption DEF NoFlow
    <2> QED BY <1>1, <1>2, <1>3, <2>1, <2>2
            DEF SignInInv, FlowsSpent, SpentOnce, Unspent, Holds, PendingTyped
  <1> QED BY <1>4, <1>5

\* A callback that ends lets go of its state; when it minted, nobody else held it.
LEMMA EndKeepsSignIns ==
    ASSUME SignInInv, CallsTyped, NEW c \in Callbacks, UNCHANGED <<pending, begun>>,
           cb' = [cb EXCEPT ![c] = Ended], cb[c].at \notin {"idle", "ended"},
           \/ minted' = minted
           \/ minted' = [minted EXCEPT ![cb[c].flow] = @ + 1]
    PROVE  SignInInv'
  <1>1. cb'[c].flow = NoFlow /\ cb'[c].at = "ended" /\ \A d \in Callbacks \ {c} : cb'[d] = cb[d]
    BY DEF Ended, CallsTyped
  <1>2. \A g \in Flows : g # NoFlow
    BY LimitAssumption DEF NoFlow
  <1>3. cb[c].flow \in Flows /\ cb[c].flow \in begun /\ SpentOnce(cb[c].flow)
    BY DEF SignInInv, FlowsSpent, CallsTyped, Unspent, Holds
  <1>4. PendingTyped' /\ PendingBounded'
    BY <1>3 DEF SignInInv, PendingTyped, PendingBounded, FromPeer
  <1>5. \A p \in pending : p.flow # cb[c].flow
    BY DEF SignInInv, FlowsSpent, Unspent, Holds
  <1>6. \A g \in Flows \ {cb[c].flow} : minted'[g] = minted[g]
    BY DEF SignInInv, PendingTyped
  <1>7. \A g \in Flows : \A d \in Callbacks : Holds(d, g)' => Holds(d, g) /\ d # c
    BY <1>1, <1>2 DEF Holds
  <1>8. \A d \in Callbacks : cb'[d].at \in {"idle", "ended"} <=> cb'[d].flow = NoFlow
    BY <1>1 DEF SignInInv, FlowsSpent
  <1>9. \A g \in Flows \ {cb[c].flow} : (SpentOnce(g) => SpentOnce(g)') /\ (Unspent(g) => Unspent(g)')
    BY <1>6, <1>7 DEF SpentOnce, Unspent
  <1>10. ASSUME NEW g \in Flows, g = cb[c].flow
         PROVE  SpentOnce(g)'
    <2>1. minted[g] = 0 /\ \A d \in Callbacks : Holds(d, g) => d = c
      BY <1>3, <1>10 DEF SpentOnce, Holds
    <2>2. minted'[g] \in {0, 1}
      BY <1>10, <2>1 DEF SignInInv, PendingTyped
    <2>3. \A d \in Callbacks : ~Holds(d, g)'
      BY <1>7, <2>1
    <2> QED BY <2>2, <2>3 DEF SpentOnce
  <1>11. \A g \in Flows : SpentOnce(g)'
    BY <1>9, <1>10 DEF SignInInv, FlowsSpent
  <1>12. \A g \in Flows : g \notin begun => Unspent(g)'
    BY <1>3, <1>9 DEF SignInInv, FlowsSpent
  <1>13. \A p \in pending : Unspent(p.flow)'
    <2> SUFFICES ASSUME NEW p \in pending PROVE Unspent(p.flow)'
      OBVIOUS
    <2>1. Unspent(p.flow) /\ p.flow \in begun /\ p.flow # cb[c].flow
      BY <1>5 DEF SignInInv, FlowsSpent, PendingTyped
    <2> QED BY <1>9, <2>1 DEF CallsTyped
  <1>14. FlowsSpent'
    BY <1>8, <1>11, <1>12, <1>13 DEF FlowsSpent
  <1> QED BY <1>4, <1>14 DEF SignInInv

\* A callback that goes on keeps its state.
LEMMA GoOnKeepsSignIns ==
    ASSUME SignInInv, CallsTyped, NEW c \in Callbacks, UNCHANGED <<pending, begun, minted>>,
           CallsTyped', \A d \in Callbacks : cb'[d].flow = cb[d].flow,
           \A d \in Callbacks : (cb'[d].at \in {"idle", "ended"}) <=> (cb[d].at \in {"idle", "ended"})
    PROVE  SignInInv'
  BY DEF SignInInv, PendingTyped, FlowsSpent, SpentOnce, Unspent, Holds, PendingBounded, FromPeer

LEMMA SignInInvariant == SigningSpec => []SignInInv
  <1>1. SigningInit => SignInInv
    <2> SUFFICES ASSUME SigningInit PROVE SignInInv
      OBVIOUS
    <2>1. \A f \in Flows : FromPeer(pending, PeerOf[f]) = {} /\ f # NoFlow
      BY LimitAssumption DEF SigningInit, SigningStart, FromPeer, NoFlow
    <2>2. PendingBounded
      <3>1. Cardinality({}) = 0 /\ pending = {}
        BY FS_EmptySet DEF SigningInit, SigningStart
      <3>2. \A f \in Flows : Cardinality(FromPeer(pending, PeerOf[f])) = 0
        BY <2>1, <3>1
      <3> QED BY <3>1, <3>2, LimitAssumption DEF PendingBounded
    <2> QED BY <2>1, <2>2, FS_EmptySet
            DEF SigningInit, SigningStart, SignInInv, PendingTyped, FlowsSpent, SpentOnce, Unspent, Holds, Ended
  <1>2. SignInInv /\ RingInv /\ RingInv' /\ [SigningNext]_signingVars => SignInInv'
    <2> SUFFICES ASSUME SignInInv, RingInv, RingInv', [SigningNext]_signingVars PROVE SignInInv'
      OBVIOUS
    <2>0. CallsTyped /\ CallsTyped'
      BY DEF RingInv
    <2>a. ASSUME UNCHANGED <<pending, begun, cb, minted>> PROVE SignInInv'
      BY <2>a DEF SignInInv, PendingTyped, FlowsSpent, SpentOnce, Unspent, Holds, PendingBounded, FromPeer
    <2>1. ASSUME NEW r \in Rotations, RotateCommit(r) \/ RotateGoesOn(r) PROVE SignInInv'
      BY <2>1, <2>a DEF RotateCommit, RotateGoesOn, RotateLoad, RotateLoadFails, installRing, RotatePublish,
                        UseTokens, signIns
    <2>2. CASE RotateElsewhere
      BY <2>2, <2>a DEF RotateElsewhere, signIns
    <2>3. ASSUME NEW f \in Flows, Begin(f) PROVE SignInInv'
      BY <2>0, <2>3, BeginKeepsSignIns
    <2>4. CASE Expire
      BY <2>4, ExpireKeepsSignIns
    <2>5. ASSUME NEW c \in Callbacks, takePending(c) PROVE SignInInv'
      BY <2>0, <2>5, TakeKeepsSignIns
    <2>6. ASSUME NEW c \in Callbacks, CallbackGoesOn(c) PROVE SignInInv'
      <3>1. CASE ExchangeFails(c)
        BY <2>0, <3>1, EndKeepsSignIns DEF ExchangeFails
      <3>2. CASE MintingGen(c)
        BY <2>0, <3>2, GoOnKeepsSignIns DEF MintingGen, CallsTyped
      <3>3. CASE MintingLoad(c)
        BY <2>0, <3>3, GoOnKeepsSignIns DEF MintingLoad, CallsTyped
      <3>4. CASE installRingIfCurrent(c) /\ ringGen # cb[c].gen
        BY <2>0, <3>4, EndKeepsSignIns DEF installRingIfCurrent, MintToken
      <3>5. CASE installRingIfCurrent(c) /\ ringGen = cb[c].gen
        BY <2>0, <3>5, GoOnKeepsSignIns DEF installRingIfCurrent, CallsTyped
      <3>6. CASE MintingPublish(c)
        BY <2>0, <3>6, EndKeepsSignIns DEF MintingPublish, MintToken
      <3> QED BY <2>6, <3>1, <3>2, <3>3, <3>4, <3>5, <3>6 DEF CallbackGoesOn
    <2>7. CASE Old
      BY <2>7, <2>a DEF Old, signIns
    <2>8. ASSUME NEW q \in Requests, RequestNext(q) PROVE SignInInv'
      BY <2>8, <2>a DEF RequestNext, keyring, RefreshLoad, RefreshFails, RefreshInstall, signIns
    <2>9. CASE UNCHANGED signingVars
      BY <2>9, <2>a DEF signingVars
    <2> QED BY <2>1, <2>2, <2>3, <2>4, <2>5, <2>6, <2>7, <2>8, <2>9 DEF SigningNext
  <1> QED BY <1>1, <1>2, RingInvariant, PTL DEF SigningSpec

\* However many callbacks carry a sign-in's state, whenever they come and whatever
\* expires or is evicted, one token at most is minted for it (takePending); and
\* the sign-ins that wait stay within both limits (putPending).
THEOREM SignInsStaySafe == SigningSpec => []SignInSafe
  <1>1. SignInInv => SignInSafe
    <2> SUFFICES ASSUME SignInInv, NEW f \in Flows
                 PROVE  minted[f] + Cardinality({c \in Callbacks : cb[c].flow = f}) <= 1
      BY DEF SignInSafe, SingleUse, SignInInv
    <2> DEFINE H == {c \in Callbacks : cb[c].flow = f}
    <2>0. SpentOnce(f)
      BY DEF SignInInv, FlowsSpent
    <2>1. ASSUME NEW c \in H PROVE minted[f] = 0 /\ H = {c}
      BY <2>0 DEF SpentOnce, Holds
    <2>2. (H = {} /\ minted[f] \in {0, 1}) \/ (minted[f] = 0 /\ \E c : H = {c})
      BY <2>0, <2>1 DEF SpentOnce
    <2> HIDE DEF H
    <2>3. minted[f] + Cardinality(H) <= 1
      <3>1. Cardinality({}) = 0
        BY FS_EmptySet
      <3>2. CASE H = {} /\ minted[f] \in {0, 1}
        BY <3>1, <3>2
      <3>3. ASSUME NEW c, H = {c}, minted[f] = 0 PROVE minted[f] + Cardinality(H) <= 1
        <4>1. Cardinality(H) = 1
          BY <3>3, FS_Singleton
        <4> QED BY <3>3, <4>1
      <3> QED BY <2>2, <3>2, <3>3
    <2> QED BY <2>3 DEF H
  <1> QED BY <1>1, SignInInvariant, PTL

-----------------------------------------------------------------------------
(* Shutdown.                                                                 *)

MainAt == {"select", "got", "act", "write", "end", "grace", "join"}
HttpAt == {"serving", "shutting"}
Last == {"failed", "cleanup", "exited"}
Scene == [front : {"stdio", "http"}, grace : BOOLEAN, lines : Nat, pipe : SUBSET {"stalled", "broken"}]
Lines == [kind : {"none", "malformed", "other", "eof", "too long"}] \cup [kind : {"request", "cancel"}, id : Ids]
Work == [pc : Active \cup {"done"}, id : Ids \cup {<<0, "">>}, ctx : {"live", "canceled"},
         unwanted : BOOLEAN, answered : BOOLEAN]

ShutdownTyped ==
  /\ setup \in Scene
  /\ serve \in [pc : MainAt \cup HttpAt \cup Last, line : Lines,
                drained : {"not yet", "in grace", "late", "abandoned", "skipped"}]
  /\ work \in Seq(Work)
  /\ inflight \in [draining : BOOLEAN, byKey : [Values -> Nat], wg : Nat]
  /\ listening \in BOOLEAN
  /\ stdout \in [is : {"ok", "stalled", "broken"}, err : BOOLEAN]
  /\ signals \in Nat

\* The closers run in their order, and only after the drain has ended or when
\* the listener has failed.
ClosersInOrder ==
  cleaned \in IF Stdio THEN {{}, {"store"}, {"store", "telemetry"}}
              ELSE IF serve.drained = "skipped" THEN {{}, {"grants"}, {"grants", "store"}}
              ELSE {{}, {"http"}, {"http", "store"}, {"http", "store", "grants"},
                    {"http", "store", "grants", "telemetry"}}

Stages ==
  /\ serve.pc \in (IF Stdio THEN MainAt ELSE HttpAt) \cup Last
  /\ Stdio => ~listening
  /\ serve.drained # "not yet" => serve.pc \in Last
  /\ serve.pc = "cleanup" => serve.drained \notin {"not yet", "skipped"}
  /\ serve.pc = "failed" => serve.drained = "skipped"
  /\ serve.drained = "skipped" => ~Stdio /\ ~listening
  /\ cleaned # {} => serve.drained # "not yet"

Unfinished == {w \in DOMAIN work : work[w].pc # "done"}
AllDone == \A w \in DOMAIN work : work[w].pc = "done"
RunningCancelled == \A w \in DOMAIN work : work[w].pc = "running" => work[w].ctx = "canceled"

\* The WaitGroup counts the workers whose last defer has not run.
Counted == IsFiniteSet(Unfinished) /\ inflight.wg = Cardinality(Unfinished)

\* byKey leads to the last request under a key while that one holds its slot.
Keyed ==
  \A w \in slots : (\A v \in DOMAIN work : v > w => work[v].id[1] # work[w].id[1])
                   => inflight.byKey[work[w].id[1]] = w

StdioWork ==
  /\ \A w \in DOMAIN work : work[w].id \in Ids
  /\ \A w \in DOMAIN work : work[w].pc \in {"written", "released", "done"} =>
                              work[w].answered \/ stdout.is = "broken"
  /\ serve.drained \in {"in grace", "late"} => AllDone
  /\ serve.pc = "join" \/ serve.drained = "abandoned" => RunningCancelled

HttpWork ==
  /\ \A w \in DOMAIN work : work[w].pc \in {"running", "done"} /\ ~work[w].unwanted
  /\ "http" \notin cleaned => \A w \in DOMAIN work : work[w].ctx = "live"
                                 /\ (work[w].pc = "done" => work[w].answered)
  /\ "http" \in cleaned => ~listening /\ RunningCancelled
  /\ serve.drained = "in grace" => ~listening /\ \A w \in DOMAIN work : work[w].pc = "done" /\ work[w].answered

ShutdownInv ==
  /\ ShutdownTyped /\ Stages /\ ClosersInOrder /\ CancelReaches
  /\ Stdio => StdioWork /\ Counted /\ Keyed
  /\ ~Stdio => HttpWork

-----------------------------------------------------------------------------
\* A table of requests that is rewritten in place keeps its length.
LEMMA Rewritten ==
    ASSUME work \in Seq(Work), NEW f \in [DOMAIN work -> Work]
    PROVE  f \in Seq(Work) /\ DOMAIN f = DOMAIN work /\ Len(f) = Len(work)
  <1>1. Len(work) \in Nat /\ DOMAIN work = 1 .. Len(work)
    BY LenProperties
  <1>2. f \in Seq(Work)
    BY <1>1, SeqDef
  <1>3. Len(f) \in Nat /\ DOMAIN f = 1 .. Len(f)
    BY <1>2, LenProperties
  <1> QED BY <1>1, <1>2, <1>3

\* One more request comes last.
LEMMA Admitted ==
    ASSUME work \in Seq(Work), NEW r \in Work
    PROVE  /\ Append(work, r) \in Seq(Work)
           /\ DOMAIN Append(work, r) = DOMAIN work \cup {Len(work) + 1}
           /\ Len(work) + 1 \notin DOMAIN work
           /\ \A w \in DOMAIN work : Append(work, r)[w] = work[w] /\ w \in Nat /\ Len(work) + 1 > w
           /\ Append(work, r)[Len(work) + 1] = r
           /\ Len(work) + 1 \in Nat
  <1>1. Len(work) \in Nat /\ DOMAIN work = 1 .. Len(work)
    BY LenProperties
  <1> QED BY <1>1

-----------------------------------------------------------------------------
(* Steps that leave the requests and their table as they are.               *)

LEMMA WorkKept ==
    ASSUME ShutdownInv, UNCHANGED work, setup'.front = setup.front,
           inflight'.byKey = inflight.byKey, inflight'.wg = inflight.wg
    PROVE  /\ Stdio' = Stdio /\ CancelReaches'
           /\ Stdio => Counted' /\ Keyed'
           /\ AllDone' = AllDone /\ RunningCancelled' = RunningCancelled
  BY DEF ShutdownInv, Stdio, CancelReaches, Counted, Keyed, Unfinished, slots, AllDone, RunningCancelled

\* The main goroutine before the drain ends, the pipe and the listener.
LEMMA BeforeTheEnd ==
    ASSUME ShutdownInv,
           \/ Receive \/ Stop \/ Recheck \/ MainWrites \/ MainEnds \/ StopListening \/ ClientOfPipe
    PROVE  ShutdownInv'
  <1> DEFINE Tables == [draining : BOOLEAN, byKey : [Values -> Nat], wg : Nat]
             Mains == [pc : MainAt \cup HttpAt \cup Last, line : Lines,
                       drained : {"not yet", "in grace", "late", "abandoned", "skipped"}]
             Pipes == [is : {"ok", "stalled", "broken"}, err : BOOLEAN]
             SetupKept == setup'.front = setup.front /\ setup' \in Scene
             TableKept == /\ inflight'.byKey = inflight.byKey /\ inflight'.wg = inflight.wg
                          /\ inflight' \in Tables
             Before == MainAt \ {"join"}
             MainKept == /\ serve' \in Mains
                         /\ \/ serve' = serve
                            \/ serve.pc \in Before /\ serve'.pc \in Before /\ serve'.drained = serve.drained
             PipeKept == /\ listening' \in BOOLEAN /\ (listening' => listening)
                         /\ stdout' \in Pipes
                         /\ stdout.is = "broken" => stdout'.is = "broken"
  <1>t. /\ setup \in Scene /\ inflight \in Tables /\ serve \in Mains /\ stdout \in Pipes /\ listening \in BOOLEAN
    BY DEF ShutdownInv, ShutdownTyped
  <1>s. ASSUME seal, serve.pc \in Before PROVE TableKept /\ MainKept
    BY <1>t, <1>s DEF seal, MainAt, NoLine, Lines
  <1>a. ASSUME Receive PROVE UNCHANGED <<work, signals, cleaned>> /\ SetupKept /\ TableKept /\ MainKept /\ PipeKept
    <2>1. UNCHANGED <<work, inflight, listening, stdout, signals, cleaned>> /\ serve.pc = "select"
      BY <1>a DEF Receive
    <2>2. SetupKept
      <3>1. setup' = setup \/ (setup.lines > 0 /\ setup' = [setup EXCEPT !.lines = @ - 1])
        BY <1>a DEF Receive
      <3>2. CASE setup.lines > 0 /\ setup' = [setup EXCEPT !.lines = @ - 1]
        <4>1. setup.lines - 1 \in Nat
          <5>1. setup.lines \in Nat /\ setup.lines > 0
            BY <1>t, <3>2 DEF Scene
          <5> QED BY ONLY <5>1
        <4> QED BY <1>t, <3>2, <4>1 DEF Scene
      <3> QED BY <1>t, <3>1, <3>2
    <2>3. PICK l \in Lines : serve' = [serve EXCEPT !.pc = "got", !.line = l]
      BY <1>a DEF Receive, Lines
    <2>4. MainKept
      BY <1>t, <2>1, <2>3 DEF MainAt
    <2> QED BY <1>t, <2>1, <2>2, <2>4
  <1>b. ASSUME Stop \/ MainEnds PROVE UNCHANGED <<work, signals, cleaned>> /\ SetupKept /\ TableKept /\ MainKept /\ PipeKept
    <2>1. /\ serve.pc \in {"select", "end"} /\ seal
          /\ UNCHANGED <<setup, work, listening, stdout, signals, cleaned>>
      BY <1>b DEF Stop, MainEnds
    <2>2. TableKept /\ MainKept
      BY <1>s, <2>1 DEF MainAt
    <2> QED BY <1>t, <2>1, <2>2
  <1>c. ASSUME Recheck PROVE UNCHANGED <<work, signals, cleaned>> /\ SetupKept /\ TableKept /\ MainKept /\ PipeKept
    <2>1. CASE seal
      BY <1>c, <1>t, <1>s, <2>1 DEF Recheck, MainAt
    <2>2. CASE serve' = [serve EXCEPT !.pc = "act"] /\ UNCHANGED inflight
      BY <1>c, <1>t, <2>2 DEF Recheck, MainAt
    <2> QED BY <1>c, <2>1, <2>2 DEF Recheck
  <1>d. ASSUME MainWrites PROVE UNCHANGED <<work, signals, cleaned>> /\ SetupKept /\ TableKept /\ MainKept /\ PipeKept
    <2>1. MainKept
      BY <1>d, <1>t DEF MainWrites, write, MainAt, Lines, NoLine
    <2>2. TableKept /\ stdout' \in Pipes /\ stdout'.is = stdout.is
      BY <1>d, <1>t DEF MainWrites, write
    <2> QED BY <1>d, <1>t, <2>1, <2>2 DEF MainWrites
  <1>e. ASSUME StopListening PROVE UNCHANGED <<work, signals, cleaned>> /\ SetupKept /\ TableKept /\ MainKept /\ PipeKept
    BY <1>e, <1>t DEF StopListening
  <1>f. ASSUME ClientOfPipe PROVE UNCHANGED <<work, signals, cleaned>> /\ SetupKept /\ TableKept /\ MainKept /\ PipeKept
    BY <1>f, <1>t DEF ClientOfPipe, Scene
  <1>1. UNCHANGED <<work, signals, cleaned>> /\ SetupKept /\ TableKept
    BY <1>a, <1>b, <1>c, <1>d, <1>e, <1>f
  <1>2. MainKept
    BY <1>a, <1>b, <1>c, <1>d, <1>e, <1>f
  <1>3. PipeKept
    BY <1>a, <1>b, <1>c, <1>d, <1>e, <1>f
  <1>4. /\ Stdio' = Stdio /\ CancelReaches'
        /\ Stdio => Counted' /\ Keyed'
        /\ AllDone' = AllDone /\ RunningCancelled' = RunningCancelled
    BY <1>1, WorkKept
  <1>5. ShutdownTyped'
    BY <1>1, <1>2, <1>3 DEF ShutdownInv, ShutdownTyped
  <1>6. Stages' /\ ClosersInOrder'
    BY <1>1, <1>2, <1>3, <1>4 DEF ShutdownInv, Stages, ClosersInOrder, MainAt, HttpAt, Last
  <1>7. Stdio => StdioWork'
    BY <1>1, <1>2, <1>3, <1>4 DEF ShutdownInv, StdioWork
  <1>8. ~Stdio => HttpWork'
    BY <1>1, <1>2, <1>3, <1>4 DEF ShutdownInv, HttpWork
  <1> QED BY <1>4, <1>5, <1>6, <1>7, <1>8 DEF ShutdownInv

\* The drain of stdio ends: with nobody left, or with everybody cancelled.
LEMMA DrainEnds ==
    ASSUME ShutdownInv, Join \/ Abandon
    PROVE  ShutdownInv'
  <1>1. UNCHANGED <<setup, work, inflight, listening, stdout, signals, cleaned>>
        /\ serve.pc \in {"grace", "join"} /\ serve'.pc = "cleanup"
        /\ serve' \in [pc : MainAt \cup HttpAt \cup Last, line : Lines,
                       drained : {"not yet", "in grace", "late", "abandoned", "skipped"}]
        /\ \/ inflight.wg = 0 /\ serve'.drained \in {"in grace", "late"}
           \/ serve.pc = "join" /\ serve'.drained = "abandoned"
    BY DEF Join, Abandon, ShutdownInv, ShutdownTyped, Last
  <1>2. Stdio
    BY <1>1 DEF ShutdownInv, Stages, HttpAt, Last
  <1>3. /\ Stdio' = Stdio /\ CancelReaches'
        /\ Stdio => Counted' /\ Keyed'
        /\ AllDone' = AllDone /\ RunningCancelled' = RunningCancelled
    BY <1>1, WorkKept
  <1>4. inflight.wg = 0 => AllDone
    <2>1. inflight.wg = 0 => Unfinished = {}
      BY <1>2, FS_EmptySet DEF ShutdownInv, Counted
    <2> QED BY <2>1 DEF AllDone, Unfinished
  <1>5. ShutdownTyped' /\ ClosersInOrder'
    BY <1>1, <1>2, <1>3 DEF ShutdownInv, ShutdownTyped, ClosersInOrder
  <1>6. Stages'
    BY <1>1, <1>3 DEF ShutdownInv, Stages, Last
  <1>7. StdioWork'
    BY <1>1, <1>2, <1>3, <1>4 DEF ShutdownInv, StdioWork
  <1> QED BY <1>2, <1>3, <1>5, <1>6, <1>7 DEF ShutdownInv

\* The drain of the HTTP server begins and ends.
LEMMA HttpDrains ==
    ASSUME ShutdownInv, DrainBegins \/ Drained \/ GraceOver
    PROVE  ShutdownInv'
  <1>1. UNCHANGED <<setup, work, listening, stdout, signals, cleaned>>
        /\ inflight'.byKey = inflight.byKey /\ inflight'.wg = inflight.wg
        /\ inflight' \in [draining : BOOLEAN, byKey : [Values -> Nat], wg : Nat]
        /\ serve.pc \in HttpAt /\ serve'.pc \in {"shutting", "cleanup"}
        /\ serve' \in [pc : MainAt \cup HttpAt \cup Last, line : Lines,
                       drained : {"not yet", "in grace", "late", "abandoned", "skipped"}]
        /\ \/ serve'.pc = "shutting" /\ serve'.drained = serve.drained
           \/ serve'.pc = "cleanup" /\ serve'.drained = "late"
           \/ serve'.pc = "cleanup" /\ serve'.drained = "in grace" /\ ~listening /\ Running = {}
    BY DEF DrainBegins, Drained, GraceOver, ShutdownInv, ShutdownTyped, HttpAt, Last
  <1>2. ~Stdio
    BY <1>1 DEF ShutdownInv, Stages, MainAt, HttpAt, Last
  <1>3. /\ Stdio' = Stdio /\ CancelReaches'
        /\ AllDone' = AllDone /\ RunningCancelled' = RunningCancelled
    BY <1>1, WorkKept
  <1>4. cleaned = {}
    BY <1>1, <1>2 DEF ShutdownInv, Stages, HttpAt, Last
  <1>5. ShutdownTyped' /\ ClosersInOrder'
    BY <1>1, <1>2, <1>3, <1>4 DEF ShutdownInv, ShutdownTyped, ClosersInOrder
  <1>6. Stages'
    BY <1>1, <1>2, <1>3, <1>4 DEF ShutdownInv, Stages, Last, HttpAt
  <1>7. HttpWork'
    BY <1>1, <1>2, <1>3, <1>4 DEF ShutdownInv, HttpWork, Running, Stages, HttpAt, Last
  <1> QED BY <1>2, <1>3, <1>5, <1>6, <1>7 DEF ShutdownInv

\* The listener fails, and the defers of run.
LEMMA ListenerFails ==
    ASSUME ShutdownInv, ServeFails \/ deferredClose
    PROVE  ShutdownInv'
  <1>1. /\ UNCHANGED <<setup, work, inflight, stdout, signals>> /\ listening' \in BOOLEAN
        /\ listening' = FALSE /\ serve'.pc = "failed" /\ serve'.drained = "skipped"
        /\ serve' \in [pc : MainAt \cup HttpAt \cup Last, line : Lines,
                       drained : {"not yet", "in grace", "late", "abandoned", "skipped"}]
        /\ cleaned' \in {{}, {"grants"}, {"grants", "store"}}
        /\ "http" \notin cleaned /\ ~Stdio
    <2>1. CASE ServeFails
      <3>1. serve.pc = "serving" /\ cleaned = {} /\ ~Stdio
        BY <2>1 DEF ServeFails, ShutdownInv, Stages, MainAt, Last
      <3> QED BY <2>1, <3>1 DEF ServeFails, ShutdownInv, ShutdownTyped, Last
    <2>2. CASE deferredClose
      <3>1. serve.pc = "failed" /\ serve.drained = "skipped" /\ ~Stdio /\ ~listening
        BY <2>2 DEF deferredClose, ShutdownInv, Stages
      <3>2. cleaned \in {{}, {"grants"}, {"grants", "store"}}
        BY <3>1 DEF ShutdownInv, ClosersInOrder
      <3>3. /\ UNCHANGED <<setup, serve, work, inflight, listening, stdout, signals>>
            /\ cleaned' \in {{}, {"grants"}, {"grants", "store"}} /\ "http" \notin cleaned
        BY <2>2, <3>2 DEF deferredClose
      <3> QED BY <3>1, <3>3 DEF ShutdownInv, ShutdownTyped
    <2> QED BY <2>1, <2>2
  <1>2. Stdio' = Stdio /\ CancelReaches'
    BY <1>1, WorkKept
  <1>3. ShutdownTyped' /\ ClosersInOrder' /\ Stages'
    BY <1>1, <1>2 DEF ShutdownInv, ShutdownTyped, ClosersInOrder, Stages, Last
  <1>4. HttpWork'
    BY <1>1, <1>2 DEF ShutdownInv, HttpWork
  <1> QED BY <1>1, <1>2, <1>3, <1>4 DEF ShutdownInv

\* The process ends, or is told to.
LEMMA ExitsOrSignalled ==
    ASSUME ShutdownInv, ProcessExits \/ Signal
    PROVE  ShutdownInv'
  <1>1. UNCHANGED <<setup, work, inflight, listening, stdout, cleaned>> /\ signals' \in Nat
        /\ serve' \in [pc : MainAt \cup HttpAt \cup Last, line : Lines,
                       drained : {"not yet", "in grace", "late", "abandoned", "skipped"}]
        /\ \/ serve' = serve
           \/ serve'.pc = "exited" /\ serve'.drained = serve.drained
    <2>1. CASE ProcessExits
      BY <2>1 DEF ProcessExits, ShutdownInv, ShutdownTyped, Last
    <2>2. CASE Signal
      <3>1. /\ UNCHANGED <<setup, work, inflight, listening, stdout, cleaned>> /\ signals' = signals + 1
            /\ serve' = serve \/ serve' = [serve EXCEPT !.pc = "exited"]
        BY <2>2 DEF Signal
      <3>2. signals' \in Nat
        <4>1. signals \in Nat /\ signals' = signals + 1
          BY <3>1 DEF ShutdownInv, ShutdownTyped
        <4> QED BY ONLY <4>1
      <3>3. CASE serve' = serve
        BY <3>1, <3>2, <3>3 DEF ShutdownInv, ShutdownTyped
      <3>4. CASE serve' = [serve EXCEPT !.pc = "exited"]
        BY <3>1, <3>2, <3>4 DEF ShutdownInv, ShutdownTyped, Last
      <3> QED BY <3>1, <3>3, <3>4
    <2> QED BY <2>1, <2>2
  <1>2. /\ Stdio' = Stdio /\ CancelReaches'
        /\ Stdio => Counted' /\ Keyed'
        /\ AllDone' = AllDone /\ RunningCancelled' = RunningCancelled
    BY <1>1, WorkKept
  <1>3. ShutdownTyped' /\ ClosersInOrder'
    BY <1>1, <1>2 DEF ShutdownInv, ShutdownTyped, ClosersInOrder
  <1>4. Stages'
    BY <1>1, <1>2 DEF ShutdownInv, Stages, Last
  <1>5. Stdio => StdioWork'
    BY <1>1, <1>2 DEF ShutdownInv, StdioWork
  <1>6. ~Stdio => HttpWork'
    BY <1>1, <1>2 DEF ShutdownInv, HttpWork
  <1> QED BY <1>2, <1>3, <1>4, <1>5, <1>6 DEF ShutdownInv

-----------------------------------------------------------------------------
(* A request goes one step further.                                         *)

LEMMA OneMoves ==
    ASSUME ShutdownInv, NEW w \in DOMAIN work, NEW r \in Work, work' = [work EXCEPT ![w] = r],
           r.id = work[w].id, r.unwanted = work[w].unwanted,
           r.ctx = work[w].ctx \/ r.ctx = "canceled",
           r.pc # "running"
    PROVE  /\ work' \in Seq(Work) /\ DOMAIN work' = DOMAIN work
           /\ work'[w] = r /\ \A v \in DOMAIN work \ {w} : work'[v] = work[v]
           /\ CancelReaches'
           /\ RunningCancelled => RunningCancelled'
  <1>1. work \in [DOMAIN work -> Work]
    <2>1. work \in Seq(Work)
      BY DEF ShutdownInv, ShutdownTyped
    <2> QED BY <2>1, LenProperties
  <1>2. work' \in [DOMAIN work -> Work]
    BY <1>1
  <1>3. work' \in Seq(Work) /\ DOMAIN work' = DOMAIN work
    BY <1>2, Rewritten DEF ShutdownInv, ShutdownTyped
  <1>4. work'[w] = r /\ \A v \in DOMAIN work \ {w} : work'[v] = work[v]
    BY <1>1
  <1>5. CancelReaches'
    BY <1>3, <1>4 DEF ShutdownInv, CancelReaches
  <1>6. RunningCancelled => RunningCancelled'
    BY <1>3, <1>4 DEF RunningCancelled
  <1> QED BY <1>3, <1>4, <1>5, <1>6

\* A worker of stdio answers and then returns; the table follows it.
LEMMA WorkerMoves ==
    ASSUME ShutdownInv, NEW w \in DOMAIN work, Handle(w) \/ WorkerWrites(w) \/ release(w) \/ Done(w)
    PROVE  ShutdownInv'
  <1> DEFINE Tables == [draining : BOOLEAN, byKey : [Values -> Nat], wg : Nat]
  <1>0. /\ work[w] \in Work /\ inflight \in Tables
        /\ stdout \in [is : {"ok", "stalled", "broken"}, err : BOOLEAN]
    <2>1. work \in Seq(Work)
      BY DEF ShutdownInv, ShutdownTyped
    <2>2. work[w] \in Work
      BY <2>1, LenProperties
    <2> QED BY <2>2 DEF ShutdownInv, ShutdownTyped
  <1>1. UNCHANGED <<setup, serve, listening, signals, cleaned>>
    BY DEF Handle, WorkerWrites, release, Done, write
  <1>2. Stdio /\ Stdio' = Stdio
    <2>1. CASE WorkerWrites(w)
      BY <2>1, <1>1 DEF WorkerWrites, ShutdownInv, HttpWork, Stdio
    <2> QED BY <1>1, <2>1 DEF Handle, release, Done, Stdio
  <1>3. work[w].pc \in Active
    BY DEF Handle, WorkerWrites, release, Done, Active
  <1>d. (Done(w) => work[w].pc = "released") /\ (release(w) => work[w].pc = "written")
    BY DEF Done, release
  <1>4. PICK r \in Work :
           /\ work' = [work EXCEPT ![w] = r]
           /\ r.id = work[w].id /\ r.unwanted = work[w].unwanted /\ r.pc # "running"
           /\ r.ctx = work[w].ctx \/ r.ctx = "canceled"
           /\ r.pc \in {"written", "released", "done"} => r.answered \/ stdout.is = "broken"
           /\ r.pc \in {"writing", "written"} => work[w].pc \in {"running", "writing"}
           /\ r.pc = "done" <=> Done(w)
           /\ r.pc = "released" <=> release(w)
    <2>1. CASE Handle(w)
      <3> DEFINE r == [work[w] EXCEPT !.pc = "writing"]
      <3>1. r \in Work /\ work' = [work EXCEPT ![w] = r] /\ UNCHANGED inflight
        BY <1>0, <2>1 DEF Handle, Work, Active
      <3>2. r.pc = "writing" /\ r.id = work[w].id /\ r.unwanted = work[w].unwanted /\ r.ctx = work[w].ctx
        BY <1>0 DEF Work
      <3>3. work[w].pc = "running"
        BY <2>1 DEF Handle
      <3> HIDE DEF r
      <3> QED BY <1>d, <3>1, <3>2, <3>3
    <2>2. CASE WorkerWrites(w)
      <3> DEFINE r == [work[w] EXCEPT !.pc = "written", !.answered = stdout.is = "ok"]
      <3>1. r \in Work /\ work' = [work EXCEPT ![w] = r]
        BY <1>0, <2>2 DEF WorkerWrites, Work, Active
      <3>2. /\ r.pc = "written" /\ r.id = work[w].id /\ r.unwanted = work[w].unwanted /\ r.ctx = work[w].ctx
            /\ r.answered = (stdout.is = "ok")
        BY <1>0 DEF Work
      <3>3. work[w].pc = "writing" /\ stdout.is \in {"ok", "broken"}
        BY <1>0, <2>2 DEF WorkerWrites, write
      <3> HIDE DEF r
      <3> QED BY <1>d, <3>1, <3>2, <3>3
    <2>3. CASE release(w)
      <3> DEFINE r == [work[w] EXCEPT !.pc = "released", !.ctx = "canceled"]
      <3>1. r \in Work /\ work' = [work EXCEPT ![w] = r] /\ work[w].pc = "written"
        BY <1>0, <2>3 DEF release, Work, Active
      <3>2. work[w].answered \/ stdout.is = "broken"
        BY <1>2, <3>1 DEF ShutdownInv, StdioWork
      <3>3. /\ r.pc = "released" /\ r.id = work[w].id /\ r.unwanted = work[w].unwanted /\ r.ctx = "canceled"
            /\ r.answered = work[w].answered
        BY <1>0 DEF Work
      <3> HIDE DEF r
      <3> QED BY <1>d, <2>3, <3>1, <3>2, <3>3
    <2>4. CASE Done(w)
      <3> DEFINE r == [work[w] EXCEPT !.pc = "done"]
      <3>1. r \in Work /\ work' = [work EXCEPT ![w] = r] /\ work[w].pc = "released"
        BY <1>0, <2>4 DEF Done, Work, Active
      <3>2. work[w].answered \/ stdout.is = "broken"
        BY <1>2, <3>1 DEF ShutdownInv, StdioWork
      <3>3. /\ r.pc = "done" /\ r.id = work[w].id /\ r.unwanted = work[w].unwanted /\ r.ctx = work[w].ctx
            /\ r.answered = work[w].answered
        BY <1>0 DEF Work
      <3> HIDE DEF r
      <3> QED BY <1>d, <2>4, <3>1, <3>2, <3>3
    <2> QED BY <2>1, <2>2, <2>3, <2>4
  <1>5. /\ work' \in Seq(Work) /\ DOMAIN work' = DOMAIN work
        /\ work'[w] = r /\ \A v \in DOMAIN work \ {w} : work'[v] = work[v]
        /\ CancelReaches'
        /\ RunningCancelled => RunningCancelled'
    BY <1>4, OneMoves
  <1>6. stdout' \in [is : {"ok", "stalled", "broken"}, err : BOOLEAN] /\ stdout'.is = stdout.is
    BY <1>0 DEF Handle, WorkerWrites, release, Done, write
  <1>u. ASSUME inflight' \in Tables, Counted', Keyed' PROVE ShutdownInv'
    <2>1. ShutdownTyped' /\ ClosersInOrder'
      BY <1>1, <1>2, <1>5, <1>6, <1>u DEF ShutdownInv, ShutdownTyped, ClosersInOrder
    <2>2. Stages'
      BY <1>1, <1>2 DEF ShutdownInv, Stages
    <2>3. ~AllDone
      BY <1>3 DEF AllDone, Active
    <2>4. StdioWork'
      BY <1>1, <1>2, <1>4, <1>5, <1>6, <2>3 DEF ShutdownInv, StdioWork
    <2> QED BY <1>2, <1>5, <1>u, <2>1, <2>2, <2>4 DEF ShutdownInv
  <1>7. slots' = IF r.pc \in {"writing", "written"} THEN slots ELSE slots \ {w}
    BY <1>3, <1>4, <1>5 DEF slots, Active, Work
  <1>8. w \in Unfinished /\ Unfinished' = IF Done(w) THEN Unfinished \ {w} ELSE Unfinished
    BY <1>3, <1>4, <1>5 DEF Unfinished, Active
  <1>9. IsFiniteSet(Unfinished) /\ inflight.wg = Cardinality(Unfinished) /\ inflight.wg \in Nat
        /\ \A v \in DOMAIN work : work[v].id[1] \in Values
    BY <1>0, <1>2 DEF ShutdownInv, Counted, StdioWork, Values
  <1>10. CASE ~Done(w) /\ ~release(w)
    <2>1. inflight' \in Tables /\ UNCHANGED <<inflight.byKey, inflight.wg>>
      BY <1>0, <1>10 DEF Handle, WorkerWrites, write
    <2>2. Counted'
      BY <1>8, <1>9, <1>10, <2>1 DEF Counted
    <2>3. Keyed'
      BY <1>2, <1>4, <1>5, <1>7, <1>10, <2>1 DEF ShutdownInv, Keyed, slots
    <2> QED BY <1>u, <2>1, <2>2, <2>3
  <1>11. CASE release(w)
    <2> DEFINE key == work[w].id[1]
    <2>1. /\ inflight' = [inflight EXCEPT !.byKey[key] = IF @ = w THEN 0 ELSE @]
          /\ w \in Nat
      <3>1. work \in Seq(Work)
        BY DEF ShutdownInv, ShutdownTyped
      <3> QED BY <1>11, <3>1, LenProperties DEF release, requestIDKey
    <2>2. inflight' \in Tables /\ inflight'.wg = inflight.wg
          /\ \A k \in Values : inflight.byKey[k] # w => inflight'.byKey[k] = inflight.byKey[k]
      BY <1>0, <1>9, <2>1
    <2>3. Counted'
      BY <1>4, <1>8, <1>9, <1>11, <2>2 DEF Counted
    <2>4. Keyed'
      <3>1. slots' = slots \ {w}
        BY <1>4, <1>7, <1>11
      <3>2. \A v \in DOMAIN work : work'[v].id = work[v].id
        BY <1>4, <1>5
      <3> SUFFICES ASSUME NEW v \in slots \ {w}, \A u \in DOMAIN work : u > v => work[u].id[1] # work[v].id[1]
                   PROVE  inflight'.byKey[work[v].id[1]] = v
        BY <1>5, <3>1, <3>2 DEF Keyed, slots
      <3>3. inflight.byKey[work[v].id[1]] = v
        BY <1>2 DEF ShutdownInv, Keyed
      <3> QED BY <1>9, <2>2, <3>3 DEF slots
    <2> QED BY <1>u, <2>2, <2>3, <2>4
  <1>12. CASE Done(w)
    <2>1. Cardinality(Unfinished \ {w}) = Cardinality(Unfinished) - 1 /\ IsFiniteSet(Unfinished \ {w})
      BY <1>8, <1>9, FS_RemoveElement
    <2>2. Cardinality(Unfinished \ {w}) \in Nat
      BY <2>1, FS_CardinalityType
    <2>3. inflight' = [inflight EXCEPT !.wg = @ - 1]
      BY <1>12 DEF Done
    <2>4. inflight.wg - 1 \in Nat
      BY ONLY <1>9, <2>1, <2>2
    <2>5. inflight' \in Tables /\ inflight'.byKey = inflight.byKey /\ inflight'.wg = inflight.wg - 1
      BY <1>0, <2>3, <2>4
    <2>6. Counted'
      BY <1>8, <1>9, <1>12, <2>1, <2>5 DEF Counted
    <2>7. Keyed'
      <3>1. slots' = slots \ {w}
        BY <1>4, <1>7, <1>12
      <3>2. \A v \in DOMAIN work : work'[v].id = work[v].id
        BY <1>4, <1>5
      <3> QED BY <1>2, <1>5, <2>5, <3>1, <3>2 DEF ShutdownInv, Keyed, slots
    <2> QED BY <1>u, <2>5, <2>6, <2>7
  <1> QED BY <1>10, <1>11, <1>12

\* A handler behind HTTP returns.
LEMMA HandlerReturns ==
    ASSUME ShutdownInv, NEW w \in DOMAIN work, Finish(w)
    PROVE  ShutdownInv'
  <1>0. work[w] \in Work
    <2>1. work \in Seq(Work)
      BY DEF ShutdownInv, ShutdownTyped
    <2> QED BY <2>1, LenProperties
  <1>1. /\ UNCHANGED <<setup, serve, inflight, listening, stdout, signals, cleaned>>
        /\ ~Stdio /\ Stdio' = Stdio
    BY DEF Finish, Stdio
  <1> DEFINE r == [work[w] EXCEPT !.pc = "done", !.answered = work[w].ctx = "live"]
  <1>2. /\ r \in Work /\ work' = [work EXCEPT ![w] = r] /\ r.id = work[w].id /\ r.unwanted = work[w].unwanted
        /\ r.ctx = work[w].ctx /\ r.pc = "done" /\ r.answered = (work[w].ctx = "live")
    BY <1>0 DEF Finish, Work
  <1> HIDE DEF r
  <1>3. /\ work' \in Seq(Work) /\ DOMAIN work' = DOMAIN work
        /\ work'[w] = r /\ \A v \in DOMAIN work \ {w} : work'[v] = work[v]
        /\ CancelReaches'
        /\ RunningCancelled => RunningCancelled'
    BY <1>2, OneMoves
  <1>4. ShutdownTyped' /\ ClosersInOrder'
    BY <1>1, <1>3 DEF ShutdownInv, ShutdownTyped, ClosersInOrder
  <1>5. Stages'
    BY <1>1 DEF ShutdownInv, Stages
  <1>6. HttpWork'
    <2>1. HttpWork /\ work[w].pc = "running"
      BY <1>1 DEF ShutdownInv, Finish
    <2>2. \A v \in DOMAIN work' : work'[v].pc \in {"running", "done"} /\ ~work'[v].unwanted
      BY <1>2, <1>3, <2>1 DEF HttpWork
    <2>3. "http" \notin cleaned => \A v \in DOMAIN work' : work'[v].ctx = "live"
                                       /\ (work'[v].pc = "done" => work'[v].answered)
      BY <1>2, <1>3, <2>1 DEF HttpWork
    <2>4. serve.drained # "in grace"
      BY <2>1 DEF HttpWork
    <2> QED BY <1>1, <1>3, <2>1, <2>2, <2>3, <2>4 DEF HttpWork
  <1> QED BY <1>1, <1>3, <1>4, <1>5, <1>6 DEF ShutdownInv

-----------------------------------------------------------------------------
(* A request is admitted.                                                   *)

LEMMA Starts ==
    ASSUME ShutdownInv, serve.pc = "act", NEW id \in Ids, startWork(id),
           serve' = [serve EXCEPT !.pc = "select", !.line = NoLine],
           UNCHANGED <<setup, listening, stdout, signals, cleaned>>
    PROVE  ShutdownInv'
  <1> DEFINE Tables == [draining : BOOLEAN, byKey : [Values -> Nat], wg : Nat]
             new == Len(work) + 1
             r == [pc |-> "running", id |-> id, ctx |-> "live", unwanted |-> FALSE, answered |-> FALSE]
  <1>0. /\ Stdio /\ Stdio' = Stdio /\ serve.drained = "not yet" /\ id[1] \in Values
        /\ inflight \in Tables /\ work \in Seq(Work)
    BY DEF ShutdownInv, ShutdownTyped, Stages, HttpAt, Last, Stdio, Values
  <1>1. /\ serve' \in [pc : MainAt \cup HttpAt \cup Last, line : Lines,
                       drained : {"not yet", "in grace", "late", "abandoned", "skipped"}]
        /\ serve'.pc = "select" /\ serve'.drained = "not yet"
    BY <1>0 DEF ShutdownInv, ShutdownTyped, MainAt, Lines, NoLine
  <1>2. Stages' /\ ClosersInOrder'
    BY <1>0, <1>1 DEF ShutdownInv, Stages, ClosersInOrder, MainAt, Last
  <1>3. ASSUME work' \in Seq(Work), inflight' \in Tables PROVE ShutdownTyped'
    BY <1>1, <1>3 DEF ShutdownInv, ShutdownTyped
  <1>4. CASE UNCHANGED <<work, inflight>>
    <2>1. StdioWork' /\ Counted' /\ Keyed' /\ CancelReaches'
      BY <1>0, <1>1, <1>4 DEF ShutdownInv, StdioWork, Counted, Keyed, CancelReaches, Unfinished, slots
    <2> QED BY <1>0, <1>2, <1>3, <1>4, <2>1 DEF ShutdownInv
  <1>5. CASE /\ work' = Append(work, r)
             /\ inflight' = [inflight EXCEPT !.byKey[id[1]] = new, !.wg = @ + 1]
    <2>1. r \in Work
      BY DEF Work, Active
    <2>r. r.pc = "running" /\ r.id = id /\ ~r.unwanted
      OBVIOUS
    <2> HIDE DEF r
    <2>2. /\ work' \in Seq(Work)
          /\ DOMAIN work' = DOMAIN work \cup {new}
          /\ new \notin DOMAIN work /\ new \in Nat
          /\ \A w \in DOMAIN work : work'[w] = work[w] /\ w \in Nat /\ new > w
          /\ work'[new] = r
      BY <1>0, <1>5, <2>1, Admitted
    <2> HIDE DEF new
    <2>3. inflight.wg + 1 \in Nat
      <3>1. inflight.wg \in Nat
        BY <1>0
      <3> QED BY ONLY <3>1
    <2>4. /\ inflight' \in Tables /\ inflight'.wg = inflight.wg + 1 /\ inflight'.byKey[id[1]] = new
          /\ \A k \in Values \ {id[1]} : inflight'.byKey[k] = inflight.byKey[k]
      BY <1>0, <1>5, <2>2, <2>3
    <2>5. CancelReaches'
      BY <2>2, <2>r DEF ShutdownInv, CancelReaches
    <2>6. StdioWork'
      BY <1>0, <1>1, <2>2, <2>r DEF ShutdownInv, StdioWork
    <2>7. Counted'
      <3>1. Unfinished' = Unfinished \cup {new} /\ new \notin Unfinished
        BY <2>2, <2>r DEF Unfinished
      <3>2. IsFiniteSet(Unfinished) /\ inflight.wg = Cardinality(Unfinished)
        BY <1>0 DEF ShutdownInv, Counted
      <3>3. IsFiniteSet(Unfinished') /\ Cardinality(Unfinished') = Cardinality(Unfinished) + 1
        BY <3>1, <3>2, FS_AddElement
      <3> QED BY <2>4, <3>2, <3>3 DEF Counted
    <2>8. Keyed'
      <3> SUFFICES ASSUME NEW w \in slots', \A v \in DOMAIN work' : v > w => work'[v].id[1] # work'[w].id[1]
                   PROVE  inflight'.byKey[work'[w].id[1]] = w
        BY DEF Keyed
      <3>1. CASE w = new
        BY <2>2, <2>4, <2>r, <3>1
      <3>2. CASE w # new
        <4>1. w \in slots /\ work'[w] = work[w]
          BY <2>2, <3>2 DEF slots
        <4>2. work[w].id[1] # id[1] /\ work[w].id[1] \in Values
          BY <1>0, <2>2, <2>r, <4>1 DEF slots, ShutdownInv, StdioWork, Values
        <4>3. inflight.byKey[work[w].id[1]] = w
          <5>1. \A v \in DOMAIN work : v > w => work[v].id[1] # work[w].id[1]
            BY <2>2, <4>1
          <5> QED BY <1>0, <4>1, <5>1 DEF ShutdownInv, Keyed
        <4> QED BY <2>4, <4>1, <4>2, <4>3
      <3> QED BY <3>1, <3>2
    <2> QED BY <1>0, <1>2, <1>3, <2>2, <2>4, <2>5, <2>6, <2>7, <2>8 DEF ShutdownInv
  <1> QED BY <1>4, <1>5 DEF startWork, requestIDKey

\* Behind HTTP, while the listener is open.
LEMMA Accepts ==
    ASSUME ShutdownInv, Accept
    PROVE  ShutdownInv'
  <1> DEFINE new == Len(work) + 1
             r == [pc |-> "running", id |-> <<0, "">>, ctx |-> "live", unwanted |-> FALSE, answered |-> FALSE]
  <1>0. /\ UNCHANGED <<setup, serve, inflight, listening, stdout, signals, cleaned>>
        /\ listening /\ ~Stdio /\ Stdio' = Stdio /\ work' = Append(work, r) /\ work \in Seq(Work)
    BY DEF Accept, ShutdownInv, ShutdownTyped, Stages, Stdio
  <1>1. r \in Work /\ r.pc = "running" /\ r.ctx = "live" /\ ~r.unwanted
    BY DEF Work, Active
  <1> HIDE DEF r
  <1>2. /\ work' \in Seq(Work)
        /\ DOMAIN work' = DOMAIN work \cup {new}
        /\ \A w \in DOMAIN work : work'[w] = work[w]
        /\ work'[new] = r
    BY <1>0, <1>1, Admitted
  <1> HIDE DEF new
  <1>3. ShutdownTyped' /\ ClosersInOrder'
    BY <1>0, <1>2 DEF ShutdownInv, ShutdownTyped, ClosersInOrder
  <1>4. Stages'
    BY <1>0 DEF ShutdownInv, Stages
  <1>5. CancelReaches'
    BY <1>1, <1>2 DEF ShutdownInv, CancelReaches
  <1>6. HttpWork'
    <2>1. HttpWork /\ "http" \notin cleaned /\ serve.drained # "in grace"
      BY <1>0 DEF ShutdownInv, HttpWork
    <2> QED BY <1>0, <1>1, <1>2, <2>1 DEF HttpWork
  <1> QED BY <1>0, <1>3, <1>4, <1>5, <1>6 DEF ShutdownInv

-----------------------------------------------------------------------------
(* Requests are cancelled.                                                  *)

\* What a cancellation leaves alone.
LEMMA Cancels ==
    ASSUME ShutdownInv, NEW ws, NEW f, f = cancelled(ws)
    PROVE  /\ f \in [DOMAIN work -> Work]
           /\ \A w \in DOMAIN work : /\ f[w].pc = work[w].pc /\ f[w].id = work[w].id
                                     /\ f[w].unwanted = work[w].unwanted /\ f[w].answered = work[w].answered
                                     /\ f[w].ctx = IF w \in ws THEN "canceled" ELSE work[w].ctx
  <1>1. work \in [DOMAIN work -> Work]
    <2>1. work \in Seq(Work)
      BY DEF ShutdownInv, ShutdownTyped
    <2> QED BY <2>1, LenProperties
  <1>2. DOMAIN f = DOMAIN work
    BY DEF cancelled
  <1>3. ASSUME NEW w \in DOMAIN work
        PROVE  /\ f[w] \in Work /\ f[w].pc = work[w].pc /\ f[w].id = work[w].id
               /\ f[w].unwanted = work[w].unwanted /\ f[w].answered = work[w].answered
               /\ f[w].ctx = IF w \in ws THEN "canceled" ELSE work[w].ctx
    <2>1. work[w] \in Work /\ f[w] = IF w \in ws THEN [work[w] EXCEPT !.ctx = "canceled"] ELSE work[w]
      BY <1>1 DEF cancelled
    <2> QED BY <2>1 DEF Work
  <1>4. f \in [DOMAIN work -> Work]
    BY <1>3 DEF cancelled
  <1> QED BY <1>3, <1>4

\* When a cancellation changes nothing else, only the contexts are to be looked at.
LEMMA OnlyContexts ==
    ASSUME ShutdownInv, work' \in [DOMAIN work -> Work],
           \A w \in DOMAIN work : work'[w].pc = work[w].pc /\ work'[w].id = work[w].id
                                  /\ work'[w].answered = work[w].answered,
           \A w \in DOMAIN work : work[w].ctx = "canceled" => work'[w].ctx = "canceled",
           setup'.front = setup.front, inflight' = inflight
    PROVE  /\ work' \in Seq(Work) /\ DOMAIN work' = DOMAIN work
           /\ AllDone' = AllDone /\ (RunningCancelled => RunningCancelled')
           /\ Stdio' = Stdio /\ (Stdio => Counted' /\ Keyed')
  <1>1. work' \in Seq(Work) /\ DOMAIN work' = DOMAIN work
    BY Rewritten DEF ShutdownInv, ShutdownTyped
  <1>2. AllDone' = AllDone /\ (RunningCancelled => RunningCancelled') /\ Stdio' = Stdio
    BY <1>1 DEF AllDone, RunningCancelled, Stdio
  <1>3. Unfinished' = Unfinished /\ slots' = slots
    BY <1>1 DEF Unfinished, slots
  <1>4. Stdio => Counted'
    BY <1>3 DEF ShutdownInv, Counted
  <1>5. Stdio => Keyed'
    BY <1>1, <1>3 DEF ShutdownInv, Keyed, slots
  <1> QED BY <1>1, <1>2, <1>4, <1>5

\* The client's cancellation: byKey leads to the request that it means.
LEMMA ClientCancels ==
    ASSUME ShutdownInv, serve.pc = "act", NEW id \in Ids, cancelKey(id),
           serve' = [serve EXCEPT !.pc = "select", !.line = NoLine],
           UNCHANGED <<setup, listening, stdout, signals, cleaned>>
    PROVE  ShutdownInv'
  <1> DEFINE slot == inflight.byKey[id[1]]
             ws == IF slot = 0 THEN {} ELSE {slot}
             f == cancelled(ws)
  <1>0. /\ Stdio /\ Stdio' = Stdio /\ serve.drained = "not yet" /\ inflight' = inflight
    BY DEF ShutdownInv, ShutdownTyped, Stages, HttpAt, Last, Stdio, cancelKey
  <1>t. work \in [DOMAIN work -> Work] /\ \A w \in DOMAIN work : w # 0
    <2>1. work \in Seq(Work)
      BY DEF ShutdownInv, ShutdownTyped
    <2> QED BY <2>1, LenProperties
  <1>1. work' = [w \in DOMAIN work |-> [f[w] EXCEPT !.unwanted = @ \/ w \in Meant(id)]]
    <2>1. CASE slot = 0
      <3>1. f = work
        BY <1>t, <2>1 DEF cancelled
      <3> QED BY <2>1, <3>1 DEF cancelKey, requestIDKey
    <2>2. CASE slot # 0
      BY <2>2 DEF cancelKey, requestIDKey
    <2> QED BY <2>1, <2>2
  <1>2. /\ f \in [DOMAIN work -> Work]
        /\ \A w \in DOMAIN work : /\ f[w].pc = work[w].pc /\ f[w].id = work[w].id
                                  /\ f[w].unwanted = work[w].unwanted /\ f[w].answered = work[w].answered
                                  /\ f[w].ctx = IF w \in ws THEN "canceled" ELSE work[w].ctx
    BY Cancels
  <1> HIDE DEF f, ws
  <1>3. ASSUME NEW w \in DOMAIN work
        PROVE  /\ work'[w] \in Work /\ work'[w].pc = work[w].pc /\ work'[w].id = work[w].id
               /\ work'[w].answered = work[w].answered
               /\ work'[w].ctx = IF w \in ws THEN "canceled" ELSE work[w].ctx
               /\ work'[w].unwanted = (work[w].unwanted \/ w \in Meant(id))
    <2>1. f[w] \in Work /\ work'[w] = [f[w] EXCEPT !.unwanted = @ \/ w \in Meant(id)]
      BY <1>1, <1>2
    <2> QED BY <1>2, <2>1 DEF Work
  <1>4. work' \in [DOMAIN work -> Work]
    BY <1>1, <1>3
  <1>5. /\ work' \in Seq(Work) /\ DOMAIN work' = DOMAIN work
        /\ AllDone' = AllDone /\ (RunningCancelled => RunningCancelled')
        /\ Counted' /\ Keyed'
    BY <1>0, <1>3, <1>4, OnlyContexts
  <1>6. Meant(id) \subseteq ws
    <2> SUFFICES ASSUME NEW w \in Meant(id) PROVE w \in ws
      OBVIOUS
    <2>1. inflight.byKey[id[1]] = w /\ w \in DOMAIN work
      BY <1>0 DEF Meant, slots, ShutdownInv, Keyed
    <2> QED BY <1>t, <2>1 DEF ws
  <1>7. CancelReaches'
    BY <1>3, <1>5, <1>6 DEF ShutdownInv, CancelReaches
  <1>8. /\ serve' \in [pc : MainAt \cup HttpAt \cup Last, line : Lines,
                       drained : {"not yet", "in grace", "late", "abandoned", "skipped"}]
        /\ serve'.pc = "select" /\ serve'.drained = "not yet"
    BY <1>0 DEF ShutdownInv, ShutdownTyped, MainAt, Lines, NoLine
  <1>9. Stages' /\ ClosersInOrder' /\ ShutdownTyped'
    BY <1>0, <1>5, <1>8 DEF ShutdownInv, ShutdownTyped, Stages, ClosersInOrder, MainAt, Last
  <1>10. StdioWork'
    BY <1>0, <1>3, <1>5, <1>8 DEF ShutdownInv, StdioWork
  <1> QED BY <1>0, <1>5, <1>7, <1>9, <1>10 DEF ShutdownInv

\* The grace of the drain is over: nobody runs on with a live context.
LEMMA GraceEndCancels ==
    ASSUME ShutdownInv, GraceEnds
    PROVE  ShutdownInv'
  <1>0. /\ UNCHANGED <<setup, inflight, listening, stdout, signals, cleaned>> /\ serve.pc = "grace"
        /\ work' = cancelled(slots) /\ serve' = [serve EXCEPT !.pc = "join"]
        /\ Stdio /\ serve.drained = "not yet"
    BY DEF GraceEnds, ShutdownInv, Stages, HttpAt, Last
  <1>1. /\ work' \in [DOMAIN work -> Work]
        /\ \A w \in DOMAIN work : /\ work'[w].pc = work[w].pc /\ work'[w].id = work[w].id
                                  /\ work'[w].unwanted = work[w].unwanted /\ work'[w].answered = work[w].answered
                                  /\ work'[w].ctx = IF w \in slots THEN "canceled" ELSE work[w].ctx
    <2> DEFINE f == cancelled(slots)
    <2>1. /\ f \in [DOMAIN work -> Work]
          /\ \A w \in DOMAIN work : /\ f[w].pc = work[w].pc /\ f[w].id = work[w].id
                                    /\ f[w].unwanted = work[w].unwanted /\ f[w].answered = work[w].answered
                                    /\ f[w].ctx = IF w \in slots THEN "canceled" ELSE work[w].ctx
      BY Cancels
    <2> QED BY <1>0, <2>1
  <1>2. /\ work' \in Seq(Work) /\ DOMAIN work' = DOMAIN work
        /\ AllDone' = AllDone /\ Stdio' = Stdio /\ Counted' /\ Keyed'
    BY <1>0, <1>1, OnlyContexts
  <1>3. CancelReaches'
    BY <1>1, <1>2 DEF ShutdownInv, CancelReaches
  <1>4. RunningCancelled'
    BY <1>1, <1>2 DEF RunningCancelled, slots, Active
  <1>5. /\ serve' \in [pc : MainAt \cup HttpAt \cup Last, line : Lines,
                       drained : {"not yet", "in grace", "late", "abandoned", "skipped"}]
        /\ serve'.pc = "join" /\ serve'.drained = "not yet"
    BY <1>0 DEF ShutdownInv, ShutdownTyped, MainAt
  <1>6. Stages' /\ ClosersInOrder' /\ ShutdownTyped'
    BY <1>0, <1>2, <1>5 DEF ShutdownInv, ShutdownTyped, Stages, ClosersInOrder, MainAt, Last
  <1>7. StdioWork'
    BY <1>0, <1>1, <1>2, <1>4, <1>5 DEF ShutdownInv, StdioWork
  <1> QED BY <1>0, <1>2, <1>3, <1>6, <1>7 DEF ShutdownInv

\* The closers are all different, so how many have run says which comes next.
LEMMA ClosersCounted ==
    /\ Cardinality({}) = 0 /\ Cardinality({"store"}) = 1 /\ Cardinality({"store", "telemetry"}) = 2
    /\ Cardinality({"http"}) = 1 /\ Cardinality({"http", "store"}) = 2
    /\ Cardinality({"http", "store", "grants"}) = 3 /\ Cardinality({"http", "store", "grants", "telemetry"}) = 4
  <1>1. Cardinality({}) = 0 /\ Cardinality({"store"}) = 1 /\ Cardinality({"http"}) = 1
        /\ IsFiniteSet({"store"}) /\ IsFiniteSet({"http"})
    BY FS_EmptySet, FS_Singleton
  <1>2. ASSUME NEW S, IsFiniteSet(S), NEW x, x \notin S, NEW n \in Nat, Cardinality(S) = n
        PROVE  IsFiniteSet(S \cup {x}) /\ Cardinality(S \cup {x}) = n + 1
    BY <1>2, FS_AddElement
  <1>3. /\ {"store", "telemetry"} = {"store"} \cup {"telemetry"}
        /\ {"http", "store"} = {"http"} \cup {"store"}
        /\ {"http", "store", "grants"} = {"http", "store"} \cup {"grants"}
        /\ {"http", "store", "grants", "telemetry"} = {"http", "store", "grants"} \cup {"telemetry"}
    OBVIOUS
  <1>4. Cardinality({"store", "telemetry"}) = 2
    <2>1. Cardinality({"store"} \cup {"telemetry"}) = 1 + 1
      BY <1>1, <1>2
    <2> QED BY <1>3, <2>1
  <1>5. IsFiniteSet({"http", "store"}) /\ Cardinality({"http", "store"}) = 2
    <2>1. IsFiniteSet({"http"} \cup {"store"}) /\ Cardinality({"http"} \cup {"store"}) = 1 + 1
      BY <1>1, <1>2
    <2> QED BY <1>3, <2>1
  <1>6. IsFiniteSet({"http", "store", "grants"}) /\ Cardinality({"http", "store", "grants"}) = 3
    <2>1. IsFiniteSet({"http", "store"} \cup {"grants"}) /\ Cardinality({"http", "store"} \cup {"grants"}) = 2 + 1
      BY <1>2, <1>5
    <2> QED BY <1>3, <2>1
  <1>7. Cardinality({"http", "store", "grants", "telemetry"}) = 4
    <2>1. Cardinality({"http", "store", "grants"} \cup {"telemetry"}) = 3 + 1
      BY <1>2, <1>6
    <2> QED BY <1>3, <2>1
  <1> QED BY <1>1, <1>4, <1>5, <1>6, <1>7

\* The cleanup: httpSrv.Close cancels what runs before the store is closed.
LEMMA CleanupCloses ==
    ASSUME ShutdownInv, shutdownCleanup
    PROVE  ShutdownInv'
  <1> DEFINE c == closers[Cardinality(cleaned) + 1]
  <1>0. /\ UNCHANGED <<setup, serve, inflight, stdout, signals>> /\ serve.pc = "cleanup" /\ Stdio' = Stdio
        /\ cleaned' = cleaned \cup {c}
        /\ Cardinality(cleaned) < Len(closers)
        /\ IF c = "http" THEN listening' = FALSE /\ work' = cancelled(Running) ELSE UNCHANGED <<listening, work>>
    BY DEF shutdownCleanup, Stdio
  <1>1. CASE Stdio
    <2>1. \/ cleaned = {} /\ c = "store"
          \/ cleaned = {"store"} /\ c = "telemetry"
      <3>1. Len(closers) = 2 /\ closers[1] = "store" /\ closers[2] = "telemetry"
        BY <1>1 DEF closers
      <3> QED BY <1>0, <1>1, <3>1, ClosersCounted DEF ShutdownInv, ClosersInOrder
    <2> HIDE DEF c
    <2>2. ClosersInOrder' /\ UNCHANGED <<listening, work>>
      BY <1>0, <1>1, <2>1 DEF ClosersInOrder
    <2>3. ShutdownTyped' /\ Stages'
      BY <1>0, <1>1, <2>2 DEF ShutdownInv, ShutdownTyped, Stages
    <2>4. /\ CancelReaches' /\ Counted' /\ Keyed'
          /\ AllDone' = AllDone /\ RunningCancelled' = RunningCancelled
      BY <1>0, <1>1, <2>2, WorkKept
    <2>5. StdioWork'
      BY <1>0, <1>1, <2>2, <2>4 DEF ShutdownInv, StdioWork
    <2> QED BY <1>0, <1>1, <2>2, <2>3, <2>4, <2>5 DEF ShutdownInv
  <1>2. CASE ~Stdio
    <2>1. \/ cleaned = {} /\ c = "http"
          \/ cleaned = {"http"} /\ c = "store"
          \/ cleaned = {"http", "store"} /\ c = "grants"
          \/ cleaned = {"http", "store", "grants"} /\ c = "telemetry"
      <3>1. /\ Len(closers) = 4 /\ closers[1] = "http" /\ closers[2] = "store" /\ closers[3] = "grants"
            /\ closers[4] = "telemetry"
        BY <1>2 DEF closers
      <3>2. serve.drained # "skipped"
        BY <1>0 DEF ShutdownInv, Stages
      <3> QED BY <1>0, <1>2, <3>1, <3>2, ClosersCounted DEF ShutdownInv, ClosersInOrder
    <2> HIDE DEF c
    <2>2. ClosersInOrder' /\ "http" \in cleaned'
      <3>1. serve'.drained # "skipped"
        BY <1>0 DEF ShutdownInv, Stages
      <3> QED BY <1>0, <1>2, <2>1, <3>1 DEF ClosersInOrder
    <2>3. CASE c = "http"
      <3>1. "http" \notin cleaned /\ listening' = FALSE /\ work' = cancelled(Running)
        BY <1>0, <2>1, <2>3
      <3>2. /\ work' \in [DOMAIN work -> Work]
            /\ \A w \in DOMAIN work : /\ work'[w].pc = work[w].pc /\ work'[w].id = work[w].id
                                      /\ work'[w].unwanted = work[w].unwanted /\ work'[w].answered = work[w].answered
                                      /\ work'[w].ctx = IF w \in Running THEN "canceled" ELSE work[w].ctx
        <4> DEFINE f == cancelled(Running)
        <4>1. /\ f \in [DOMAIN work -> Work]
              /\ \A w \in DOMAIN work : /\ f[w].pc = work[w].pc /\ f[w].id = work[w].id
                                        /\ f[w].unwanted = work[w].unwanted /\ f[w].answered = work[w].answered
                                        /\ f[w].ctx = IF w \in Running THEN "canceled" ELSE work[w].ctx
          BY Cancels
        <4> QED BY <3>1, <4>1
      <3>3. work' \in Seq(Work) /\ DOMAIN work' = DOMAIN work
        BY <1>0, <3>2, OnlyContexts
      <3>4. CancelReaches' /\ RunningCancelled'
        BY <3>2, <3>3 DEF ShutdownInv, CancelReaches, RunningCancelled, Running
      <3>5. ShutdownTyped' /\ Stages'
        BY <1>0, <1>2, <3>1, <3>3 DEF ShutdownInv, ShutdownTyped, Stages
      <3>6. HttpWork'
        BY <1>0, <1>2, <2>2, <3>1, <3>2, <3>3, <3>4 DEF ShutdownInv, HttpWork
      <3> QED BY <1>0, <1>2, <2>2, <3>4, <3>5, <3>6 DEF ShutdownInv
    <2>4. CASE c # "http"
      <3>1. "http" \in cleaned /\ UNCHANGED <<listening, work>>
        BY <1>0, <2>1, <2>4
      <3>2. ShutdownTyped' /\ Stages'
        BY <1>0, <1>2, <3>1 DEF ShutdownInv, ShutdownTyped, Stages
      <3>3. CancelReaches' /\ RunningCancelled' = RunningCancelled
        BY <1>0, <3>1, WorkKept
      <3>4. HttpWork'
        BY <1>0, <1>2, <2>2, <3>1, <3>3 DEF ShutdownInv, HttpWork
      <3> QED BY <1>0, <1>2, <2>2, <3>2, <3>3, <3>4 DEF ShutdownInv
    <2> QED BY <2>3, <2>4
  <1> QED BY <1>1, <1>2

-----------------------------------------------------------------------------
LEMMA ShutdownStarts == ShutdownInit => ShutdownInv
  <1> SUFFICES ASSUME ShutdownInit PROVE ShutdownInv
    OBVIOUS
  <1>1. setup \in Scene /\ work = <<>> /\ cleaned = {}
    BY ShutdownAssumption DEF ShutdownInit, Scene
  <1>2. work \in Seq(Work) /\ DOMAIN work = {}
    BY <1>1
  <1>3. ShutdownTyped
    BY <1>1, <1>2 DEF ShutdownInit, ShutdownTyped, MainAt, HttpAt, Lines, NoLine
  <1>4. Stages /\ ClosersInOrder
    BY <1>1 DEF ShutdownInit, Stages, ClosersInOrder, MainAt, HttpAt, Last
  <1>5. Counted
    <2>1. Unfinished = {} /\ inflight.wg = 0
      BY <1>2 DEF Unfinished, ShutdownInit
    <2> QED BY <2>1, FS_EmptySet DEF Counted
  <1>6. CancelReaches /\ Keyed /\ AllDone /\ RunningCancelled
    BY <1>2 DEF CancelReaches, Keyed, slots, AllDone, RunningCancelled
  <1>7. StdioWork /\ (~Stdio => HttpWork)
    BY <1>1, <1>2, <1>6 DEF StdioWork, HttpWork, ShutdownInit
  <1> QED BY <1>3, <1>4, <1>5, <1>6, <1>7 DEF ShutdownInv

LEMMA ShutdownStep == ShutdownInv /\ [ShutdownNext]_shutdownVars => ShutdownInv'
  <1> SUFFICES ASSUME ShutdownInv, [ShutdownNext]_shutdownVars PROVE ShutdownInv'
    OBVIOUS
  <1>1. CASE Receive \/ Stop \/ Recheck \/ MainWrites \/ MainEnds \/ StopListening \/ ClientOfPipe
    BY <1>1, BeforeTheEnd
  <1>2. CASE Act
    <2>1. serve.line \in Lines
      BY DEF ShutdownInv, ShutdownTyped
    <2>2. CASE serve.line.kind = "request"
      BY <1>2, <2>1, <2>2, Starts DEF Act, Lines
    <2>3. CASE serve.line.kind = "cancel"
      BY <1>2, <2>1, <2>3, ClientCancels DEF Act, Lines
    <2>4. CASE serve.line.kind \notin {"request", "cancel"}
      <3>1. /\ serve.pc = "act"
            /\ UNCHANGED <<setup, work, inflight, listening, stdout, signals, cleaned>>
            /\ \/ serve' = [serve EXCEPT !.pc = "select", !.line = NoLine]
               \/ serve' = [serve EXCEPT !.pc = "write"]
        BY <1>2, <2>4 DEF Act
      <3>2. /\ serve' \in [pc : MainAt \cup HttpAt \cup Last, line : Lines,
                           drained : {"not yet", "in grace", "late", "abandoned", "skipped"}]
            /\ serve'.pc \in {"select", "write"} /\ serve'.drained = serve.drained
        <4>1. serve \in [pc : MainAt \cup HttpAt \cup Last, line : Lines,
                         drained : {"not yet", "in grace", "late", "abandoned", "skipped"}]
              /\ NoLine \in Lines
          BY DEF ShutdownInv, ShutdownTyped, Lines, NoLine
        <4>2. CASE serve' = [serve EXCEPT !.pc = "select", !.line = NoLine]
          BY <4>1, <4>2 DEF MainAt
        <4>3. CASE serve' = [serve EXCEPT !.pc = "write"]
          BY <4>1, <4>3 DEF MainAt
        <4> QED BY <3>1, <4>2, <4>3
      <3>3. /\ Stdio' = Stdio /\ CancelReaches'
            /\ Stdio => Counted' /\ Keyed'
            /\ AllDone' = AllDone /\ RunningCancelled' = RunningCancelled
        BY <3>1, WorkKept
      <3>4. Stdio /\ serve.drained = "not yet"
        BY <3>1 DEF ShutdownInv, Stages, HttpAt, Last
      <3>5. ShutdownTyped' /\ ClosersInOrder'
        BY <3>1, <3>2, <3>3 DEF ShutdownInv, ShutdownTyped, ClosersInOrder
      <3>6. Stages'
        BY <3>1, <3>2, <3>3, <3>4 DEF ShutdownInv, Stages, MainAt
      <3>7. StdioWork'
        BY <3>1, <3>2, <3>3, <3>4 DEF ShutdownInv, StdioWork
      <3> QED BY <3>3, <3>4, <3>5, <3>6, <3>7 DEF ShutdownInv
    <2> QED BY <2>2, <2>3, <2>4
  <1>3. CASE Join \/ Abandon
    BY <1>3, DrainEnds
  <1>4. CASE GraceEnds
    BY <1>4, GraceEndCancels
  <1>5. CASE DrainBegins \/ Drained \/ GraceOver
    BY <1>5, HttpDrains
  <1>6. CASE ProcessExits \/ Signal
    BY <1>6, ExitsOrSignalled
  <1>12. CASE ServeFails \/ deferredClose
    BY <1>12, ListenerFails
  <1>7. CASE shutdownCleanup
    BY <1>7, CleanupCloses
  <1>8. CASE Accept
    BY <1>8, Accepts
  <1>9. ASSUME NEW w \in DOMAIN work, Handle(w) \/ WorkerWrites(w) \/ release(w) \/ Done(w)
        PROVE  ShutdownInv'
    BY <1>9, WorkerMoves
  <1>10. ASSUME NEW w \in DOMAIN work, Finish(w)
         PROVE  ShutdownInv'
    BY <1>10, HandlerReturns
  <1>11. CASE UNCHANGED shutdownVars
    <2>1. UNCHANGED <<setup, serve, work, inflight, listening, stdout, signals, cleaned>>
      BY <1>11 DEF shutdownVars
    <2>2. /\ Stdio' = Stdio /\ CancelReaches'
          /\ Stdio => Counted' /\ Keyed'
          /\ AllDone' = AllDone /\ RunningCancelled' = RunningCancelled
      BY <2>1, WorkKept
    <2>3. ShutdownTyped' /\ Stages' /\ ClosersInOrder'
      BY <2>1, <2>2 DEF ShutdownInv, ShutdownTyped, Stages, ClosersInOrder
    <2>4. Stdio => StdioWork'
      BY <2>1, <2>2 DEF ShutdownInv, StdioWork
    <2>5. ~Stdio => HttpWork'
      BY <2>1, <2>2 DEF ShutdownInv, HttpWork
    <2> QED BY <2>2, <2>3, <2>4, <2>5 DEF ShutdownInv
  <1> QED BY <1>1, <1>2, <1>3, <1>4, <1>5, <1>6, <1>7, <1>8, <1>9, <1>10, <1>11, <1>12
         DEF ShutdownNext, MainGoesOn

\* Whatever requests, signals, cancellations and pipes do, on stdio and behind HTTP:
\* the store is never closed under a request that was not told to stop, a client's
\* cancellation reaches the request it means, and a drain that ends inside its grace
\* has cut no request short (ServeStdio, drain, shutdown, shutdownCleanup).
THEOREM ShutdownIsSafe == ShutdownSpec => []ShutdownSafe
  <1>1. ShutdownInv => ShutdownSafe
    <2> SUFFICES ASSUME ShutdownInv PROVE ShutdownSafe
      OBVIOUS
    <2>1. ClosedUnderNobody
      <3>1. CASE Stdio
        <4>1. "store" \in cleaned => serve.drained \in {"in grace", "late", "abandoned"}
          BY <3>1 DEF ShutdownInv, ShutdownTyped, Stages
        <4> QED BY <3>1, <4>1 DEF ShutdownInv, StdioWork, ClosedUnderNobody, RunningCancelled, AllDone
      <3>2. CASE ~Stdio
        <4>1. "store" \in cleaned /\ serve.drained # "skipped" => "http" \in cleaned
          BY <3>2 DEF ShutdownInv, ClosersInOrder
        <4> QED BY <3>2, <4>1 DEF ShutdownInv, HttpWork, ClosedUnderNobody, RunningCancelled
      <3> QED BY <3>1, <3>2
    <2>2. GraceKept
      <3>1. CASE Stdio
        BY <3>1 DEF ShutdownInv, StdioWork, GraceKept, AllDone
      <3>2. CASE ~Stdio
        BY <3>2 DEF ShutdownInv, HttpWork, GraceKept
      <3> QED BY <3>1, <3>2
    <2> QED BY <2>1, <2>2 DEF ShutdownSafe, ShutdownInv
  <1> QED BY <1>1, ShutdownStarts, ShutdownStep, PTL DEF ShutdownSpec
=============================================================================
