---------------------------- MODULE VolumeLocks ----------------------------
(***************************************************************************)
(* The lock table of the driver (pkg/smb/volume_lock.go): a set of keys    *)
(* guarded by a mutex, so each call is one atomic step.  The table records *)
(* no owner: Release removes the key whoever put it there.                 *)
(***************************************************************************)

VARIABLE locks   \* the keys with an ongoing operation

NewVolumeLocks == locks = {}

(* TryAcquire that returns true.  A TryAcquire that returns false changes  *)
(* nothing: its caller answers Aborted, which is a stuttering step.        *)
TryAcquire(key) ==
  /\ key \notin locks
  /\ locks' = locks \cup {key}

Release(key) == locks' = locks \ {key}
=============================================================================
