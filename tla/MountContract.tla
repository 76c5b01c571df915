--------------------------- MODULE MountContract ---------------------------
(***************************************************************************)
(* What the node service promises its caller about a place where volumes   *)
(* are mounted, without locks, goroutines or retries: told[p] is the last  *)
(* answer the caller has for p, and mounted the places that really carry a *)
(* mount.                                                                  *)
(*                                                                         *)
(* A caller that was told "mounted" or "unmounted" may rely on it until it *)
(* asks for something else: only while the answer is "unknown" may the     *)
(* service change what is mounted.                                         *)
(***************************************************************************)
CONSTANT Places

VARIABLES told, mounted

contractVars == <<told, mounted>>

Truth(p, m) == IF p \in m THEN "mounted" ELSE "unmounted"

Init ==
  /\ told = [p \in Places |-> "unmounted"]
  /\ mounted = {}

(* A request for p is accepted. *)
Ask(p) ==
  /\ told' = [told EXCEPT ![p] = "unknown"]
  /\ UNCHANGED mounted

(* The service works on p, and may answer. *)
Serve(p) ==
  /\ told[p] = "unknown"
  /\ mounted' \in {mounted, mounted \cup {p}, mounted \ {p}}
  /\ told' \in {told, [told EXCEPT ![p] = Truth(p, mounted')]}

Next == \E p \in Places : Ask(p) \/ Serve(p)

Spec == Init /\ [][Next]_contractVars
=============================================================================
