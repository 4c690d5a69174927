---------------------------- MODULE PoolAbstract ----------------------------
(***************************************************************************)
(* What the buffer pool promises (spec.md, sections 3 and 4.1), with no    *)
(* threads, locks or reference counts: a buffer is acquired only when it   *)
(* is not in use and has no pixel storage bound; storage is bound at most  *)
(* once per acquisition; a buffer is released once; storage of a released *)
(* buffer is eventually given back through the release callback.           *)
(***************************************************************************)
CONSTANT Buffers

VARIABLES
  used,    \* buffers of the pool that are in use
  bound    \* buffers of the pool that have pixel storage bound

avars == <<used, bound>>

(* acquire(): a free buffer, with no storage, becomes in use.             *)
Acquire(b) ==
  /\ b \notin used
  /\ b \notin bound
  /\ used' = used \cup {b}
  /\ UNCHANGED bound

(* bind_storage(): an acquired buffer without storage gets storage.       *)
Bind(b) ==
  /\ b \in used
  /\ b \notin bound
  /\ bound' = bound \cup {b}
  /\ UNCHANGED used

(* release(): the last holder gives the buffer back.                      *)
Release(b) ==
  /\ b \in used
  /\ used' = used \ {b}
  /\ UNCHANGED bound

(* The release-storage callback of a released buffer.                     *)
Unbind(b) ==
  /\ b \in bound
  /\ b \notin used
  /\ bound' = bound \ {b}
  /\ UNCHANGED used

AInit == used = {} /\ bound = {}

ANext == \E b \in Buffers : Acquire(b) \/ Bind(b) \/ Release(b) \/ Unbind(b)

(* Storage of a released buffer is not kept forever.                      *)
ASpec == AInit /\ [][ANext]_avars /\ \A b \in Buffers : WF_avars(Unbind(b))
=============================================================================
