---------------------------- MODULE UpstreamHash ----------------------------
(***************************************************************************)
(* Load balancing by request hash (nginx_upstream_hash-0.2): how one       *)
(* request picks its peers.  The module's three callbacks (peer.init,      *)
(* peer.get, peer.free) are driven by nginx's ngx_http_upstream_connect    *)
(* and ngx_http_upstream_next, which are modelled here as far as they call *)
(* them.                                                                   *)
(*                                                                         *)
(* A request is served by one worker and its callbacks never overlap, so   *)
(* the nondeterminism is the environment's: what the peer does, whether    *)
(* the client is gone, and which function ngx_hash_key is on the hash      *)
(* values that can occur.                                                  *)
(***************************************************************************)
EXTENDS Naturals, FiniteSets

CONSTANTS
    Number,    \* peers->number
    Retries,   \* us->retries, the argument of hash_again (default 0)
    Hash,      \* the hash values that can occur
    NextOn     \* u->conf->next_upstream

FailedTypes == {"error", "timeout", "invalid_header", "http_500"}
FailureTypes == FailedTypes \cup {"http_404"}

ASSUME NumberAssumption == Number \in Nat \ {0}
ASSUME RetriesAssumption == Retries \in Nat
ASSUME HashAssumption == Hash \subseteq Nat
ASSUME NextOnAssumption == NextOn \subseteq FailureTypes

VARIABLES
    hashKey,   \* ngx_hash_key on the bytes of a hash value, fixed for the run
    hash,      \* uhpd->hash
    tried,     \* the peers whose bit is set in uhpd->tried
    tries,     \* pc->tries
    phase,     \* where the request is
    peer,      \* the peer the connection was last opened to
    ft,        \* the failure type ngx_http_upstream_next was called with
    failed,    \* history: the peers that have failed
    fails      \* history: how many attempts have failed

vars == <<hashKey, hash, tried, tries, phase, peer, ft, failed, fails>>

Peers == 0 .. Number - 1
Phases == {"init", "connect", "wait", "free", "rehash", "decide", "done"}

\* uhpd->hash % uhpd->peers->number
PeerOf(h) == h % Number

\* The types of the state; in particular pc->tries, unsigned in the code,
\* never goes below zero.
TypeOK ==
    /\ hashKey \in [Hash -> Hash]
    /\ hash \in Hash
    /\ tried \subseteq Peers
    /\ tries \in 0 .. Retries + 1
    /\ phase \in Phases
    /\ peer \in Peers
    /\ ft \in FailureTypes
    /\ failed \subseteq Peers
    /\ fails \in Nat

Init ==
    /\ hashKey \in [Hash -> Hash]
    /\ hash \in Hash
    /\ tried = {}
    /\ tries = 0
    /\ phase = "init"
    /\ peer = 0
    /\ ft = "error"
    /\ failed = {}
    /\ fails = 0

\* Mutant of InitPeer: one try too many.
InitPeerExtraTry ==
    /\ phase = "init"
    /\ phase' = "connect"
    /\ tries' = Retries + 2
    /\ UNCHANGED <<hashKey, hash, tried, peer, ft, failed, fails>>

\* ngx_http_upstream_init_hash_peer; an error of the key's script, or of the
\* allocation, ends the request.
InitPeer ==
    /\ phase = "init"
    /\ \/ /\ phase' = "connect"
          /\ tries' = Retries + 1
       \/ /\ phase' = "done"
          /\ UNCHANGED tries
    /\ UNCHANGED <<hashKey, hash, tried, peer, ft, failed, fails>>

\* ngx_http_upstream_get_hash_peer, called by ngx_http_upstream_connect.  A
\* local error of the socket ends the request; a connection that is refused
\* at once (NGX_DECLINED) is an "error" like one that is refused later.
GetPeer ==
    /\ phase = "connect"
    /\ peer' = PeerOf(hash)
    /\ phase' \in {"wait", "done"}
    /\ UNCHANGED <<hashKey, hash, tried, tries, ft, failed, fails>>

\* The peer's answer is passed to the client: peer.free is called with state
\* 0, which changes nothing.
Answer ==
    /\ phase = "wait"
    /\ phase' = "done"
    /\ UNCHANGED <<hashKey, hash, tried, tries, peer, ft, failed, fails>>

\* The attempt fails: ngx_http_upstream_next is called with type t.  A 500 or
\* a 404 is passed on to the client instead unless another try is left and
\* next_upstream has the type.
Fail(t) ==
    /\ phase = "wait"
    /\ t \in {"http_500", "http_404"} => tries > 1 /\ t \in NextOn
    /\ ft' = t
    /\ phase' = "free"
    /\ UNCHANGED <<hashKey, hash, tried, tries, peer, failed, fails>>

\* Mutant of FreePeer: the bit of the failed peer is not set.
FreePeerUnmarked ==
    /\ phase = "free"
    /\ ft # "http_404"
    /\ tries' = tries - 1
    /\ failed' = failed \cup {peer}
    /\ fails' = fails + 1
    /\ phase' = IF tries' # 0 THEN "rehash" ELSE "decide"
    /\ UNCHANGED <<hashKey, hash, tried, peer, ft>>

\* ngx_http_upstream_free_hash_peer up to its loop: a 404 comes with
\* NGX_PEER_NEXT, everything else with NGX_PEER_FAILED.
FreePeer ==
    /\ phase = "free"
    /\ IF ft = "http_404"
       THEN /\ phase' = "decide"
            /\ UNCHANGED <<tried, tries, failed, fails>>
       ELSE /\ tries' = tries - 1
            /\ failed' = failed \cup {peer}
            /\ fails' = fails + 1
            /\ IF tries' # 0
               THEN /\ tried' = tried \cup {PeerOf(hash)}
                    /\ phase' = "rehash"
               ELSE /\ phase' = "decide"
                    /\ UNCHANGED tried
    /\ UNCHANGED <<hashKey, hash, peer, ft>>

\* Mutant of Rehash: meeting a tried peer costs nothing.
RehashFree ==
    /\ phase = "rehash"
    /\ hash' = hashKey[hash]
    /\ phase' = IF PeerOf(hash') \in tried THEN "rehash" ELSE "decide"
    /\ UNCHANGED <<hashKey, tried, tries, peer, ft, failed, fails>>

\* One turn of the loop of ngx_http_upstream_free_hash_peer: hashing again
\* costs a try when it meets a peer that was tried already.
Rehash ==
    /\ phase = "rehash"
    /\ hash' = hashKey[hash]
    /\ IF PeerOf(hash') \in tried
       THEN /\ tries' = tries - 1
            /\ phase' = IF tries' # 0 THEN "rehash" ELSE "decide"
       ELSE /\ phase' = "decide"
            /\ UNCHANGED tries
    /\ UNCHANGED <<hashKey, tried, peer, ft, failed, fails>>

\* Mutant of Decide: the tries are not looked at.
DecideUnbounded ==
    /\ phase = "decide"
    /\ ft \in NextOn
    /\ phase' = "connect"
    /\ UNCHANGED <<hashKey, hash, tried, tries, peer, ft, failed, fails>>

\* The end of ngx_http_upstream_next: the client may be gone; otherwise the
\* request goes on when a try is left and next_upstream has the type.
Decide ==
    /\ phase = "decide"
    /\ \/ phase' = "done"
       \/ /\ tries # 0 /\ ft \in NextOn
          /\ phase' = "connect"
    /\ UNCHANGED <<hashKey, hash, tried, tries, peer, ft, failed, fails>>

Next ==
    \/ InitPeer
    \/ GetPeer
    \/ Answer
    \/ \E t \in FailureTypes : Fail(t)
    \/ FreePeer
    \/ Rehash
    \/ Decide

Spec == Init /\ [][Next]_vars

\* The upstream's connect, send and read timers are always armed while the
\* request waits, and every other step is a call already under way.
FairSpec == Spec /\ WF_vars(Next)

-----------------------------------------------------------------------------
(* Properties                                                              *)

\* A peer that has failed a request is never asked again by that request,
\* however the hash values fall (free_hash_peer's tried bits).
FailedPeerNotAskedAgain ==
    phase = "wait" => peer \notin failed

\* Failed attempts and the tries still left never add up to more than
\* hash_again + 1, no attempt is repeated on one peer, and the unsigned
\* tries counter is never decremented from 0.
AttemptsBounded ==
    /\ fails = Cardinality(failed)
    /\ phase # "init" => fails + tries <= Retries + 1
    /\ phase \in {"connect", "wait", "free", "rehash"} => tries > 0

\* Every request is answered or given up: neither hash_again nor the rehash
\* loop can go on for ever.
RequestEnds == <>(phase = "done")
=============================================================================
