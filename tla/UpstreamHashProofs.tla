------------------------- MODULE UpstreamHashProofs -------------------------
(***************************************************************************)
(* Proofs about UpstreamHash, for any number of peers, any hash_again, any *)
(* hash function and any next_upstream mask.                               *)
(***************************************************************************)
EXTENDS UpstreamHash, FiniteSetTheorems, TLAPS

\* The peer a hash value selects is one of the peers.
LEMMA PeerOfType == \A h \in Hash : PeerOf(h) \in Peers
BY NumberAssumption, HashAssumption DEF PeerOf, Peers

\* TypeOK is inductive together with "a try is left while one is under way",
\* without which the decrement of tries could leave the naturals.
TryLeft == phase \in {"connect", "wait", "free", "rehash"} => tries > 0

\* Types are preserved by every callback.
THEOREM TypeCorrect == Spec => [](TypeOK /\ TryLeft)
<1>1. Init => TypeOK /\ TryLeft
  BY NumberAssumption, RetriesAssumption
     DEF Init, TypeOK, TryLeft, Peers, Phases, FailureTypes, FailedTypes
<1>2. TypeOK /\ TryLeft /\ [Next]_vars => TypeOK' /\ TryLeft'
  <2> SUFFICES ASSUME TypeOK, TryLeft, [Next]_vars
               PROVE  TypeOK' /\ TryLeft'
    OBVIOUS
  <2> USE RetriesAssumption DEF TypeOK, TryLeft, Phases
  <2>1. CASE InitPeer
    BY <2>1 DEF InitPeer
  <2>2. CASE GetPeer
    BY <2>2, PeerOfType DEF GetPeer
  <2>3. CASE Answer
    BY <2>3 DEF Answer
  <2>4. ASSUME NEW t \in FailureTypes, Fail(t)
        PROVE  TypeOK' /\ TryLeft'
    BY <2>4 DEF Fail
  <2>5. CASE FreePeer
    BY <2>5, PeerOfType DEF FreePeer
  <2>6. CASE Rehash
    BY <2>6 DEF Rehash
  <2>7. CASE Decide
    BY <2>7 DEF Decide
  <2>8. CASE UNCHANGED vars
    BY <2>8 DEF vars
  <2>9. QED
    BY <2>1, <2>2, <2>3, <2>4, <2>5, <2>6, <2>7, <2>8 DEF Next
<1>3. QED
  BY <1>1, <1>2, PTL DEF Spec

-----------------------------------------------------------------------------
\* What makes FailedPeerNotAskedAgain inductive: while a try is left, the
\* tried bits are exactly the failed peers, and whenever the request goes on
\* to connect, the hash selects a peer whose bit is clear.
TriedInv ==
    /\ tries # 0 => tried = failed
    /\ phase = "init" => tried = {} /\ failed = {}
    /\ phase \in {"wait", "free"} => peer = PeerOf(hash)
    /\ phase \in {"connect", "wait", "free"} => PeerOf(hash) \notin tried
    /\ phase = "decide" /\ tries # 0 => PeerOf(hash) \notin tried

\* Every step keeps the record of the failed peers.
LEMMA TriedInvStep ==
    TypeOK /\ TryLeft /\ TriedInv /\ [Next]_vars => TriedInv'
<1> SUFFICES ASSUME TypeOK, TryLeft, TriedInv, [Next]_vars
             PROVE  TriedInv'
  OBVIOUS
<1> USE RetriesAssumption DEF TypeOK, TryLeft, TriedInv
<1>1. CASE InitPeer
  BY <1>1 DEF InitPeer
<1>2. CASE GetPeer
  BY <1>2 DEF GetPeer
<1>3. CASE Answer
  BY <1>3 DEF Answer
<1>4. ASSUME NEW t \in FailureTypes, Fail(t)
      PROVE  TriedInv'
  BY <1>4 DEF Fail
<1>5. CASE FreePeer
  BY <1>5 DEF FreePeer
<1>6. CASE Rehash
  BY <1>6 DEF Rehash
<1>7. CASE Decide
  BY <1>7 DEF Decide
<1>8. CASE UNCHANGED vars
  BY <1>8 DEF vars
<1>9. QED
  BY <1>1, <1>2, <1>3, <1>4, <1>5, <1>6, <1>7, <1>8 DEF Next

\* A peer that has failed a request is never asked again by that request:
\* FailedPeerNotAskedAgain for every hash function and every hash_again.
THEOREM FailedPeersAvoided == Spec => []FailedPeerNotAskedAgain
<1>1. Init => TriedInv
  BY DEF Init, TriedInv
<1>2. TypeOK /\ TryLeft /\ TriedInv => FailedPeerNotAskedAgain
  BY DEF TypeOK, TryLeft, TriedInv, FailedPeerNotAskedAgain
<1>3. QED
  BY <1>1, <1>2, TypeCorrect, TriedInvStep, PTL DEF Spec

-----------------------------------------------------------------------------
\* The strengthening for AttemptsBounded: nothing has failed before peer.init.
CountInv ==
    /\ AttemptsBounded
    /\ phase = "init" => fails = 0

\* A set of peers is finite, so that it can be counted.
LEMMA PeersFinite == \A S \in SUBSET Peers : IsFiniteSet(S)
<1>1. IsFiniteSet(Peers)
  BY FS_Interval, NumberAssumption DEF Peers
<1>2. QED
  BY <1>1, FS_Subset

\* Every step keeps the count of the attempts.
LEMMA CountInvStep ==
    TypeOK /\ TryLeft /\ TriedInv /\ CountInv /\ [Next]_vars => CountInv'
<1> SUFFICES ASSUME TypeOK, TryLeft, TriedInv, CountInv, [Next]_vars
             PROVE  CountInv'
  OBVIOUS
<1> USE RetriesAssumption DEF TypeOK, TryLeft, CountInv, AttemptsBounded
<1>1. CASE InitPeer
  BY <1>1 DEF InitPeer
<1>2. CASE GetPeer
  BY <1>2 DEF GetPeer
<1>3. CASE Answer
  BY <1>3 DEF Answer
<1>4. ASSUME NEW t \in FailureTypes, Fail(t)
      PROVE  CountInv'
  BY <1>4 DEF Fail
<1>5. CASE FreePeer
  <2>1. CASE ft = "http_404"
    BY <1>5, <2>1 DEF FreePeer
  <2>2. CASE ft # "http_404"
    <3>1. peer \notin failed
      BY <1>5 DEF FreePeer, TriedInv
    <3>2. Cardinality(failed \cup {peer}) = Cardinality(failed) + 1
      BY <3>1, PeersFinite, FS_AddElement
    <3>3. fails' = Cardinality(failed') /\ fails' = fails + 1 /\ tries' = tries - 1
      BY <1>5, <2>2, <3>2 DEF FreePeer
    <3>4. phase' \in {"rehash", "decide"} /\ (phase' = "rehash" => tries' # 0)
      BY <1>5, <2>2 DEF FreePeer
    <3>5. QED
      BY <1>5, <3>3, <3>4 DEF FreePeer
  <2>3. QED
    BY <2>1, <2>2
<1>6. CASE Rehash
  BY <1>6 DEF Rehash
<1>7. CASE Decide
  BY <1>7 DEF Decide
<1>8. CASE UNCHANGED vars
  BY <1>8 DEF vars
<1>9. QED
  BY <1>1, <1>2, <1>3, <1>4, <1>5, <1>6, <1>7, <1>8 DEF Next

\* A request makes at most hash_again + 1 failing attempts, each on a peer of
\* its own, and tries never wraps around: AttemptsBounded in general.
THEOREM AttemptsAreBounded == Spec => []AttemptsBounded
<1>1. Init => TriedInv /\ CountInv
  BY FS_EmptySet DEF Init, TriedInv, CountInv, AttemptsBounded
<1>2. CountInv => AttemptsBounded
  BY DEF CountInv
<1>3. QED
  BY <1>1, <1>2, TypeCorrect, TriedInvStep, CountInvStep, PTL DEF Spec
=============================================================================
