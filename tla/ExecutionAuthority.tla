------------------------- MODULE ExecutionAuthority -------------------------
(***************************************************************************)
(* What the durable runtime_state row promises to the command queue about  *)
(* broker egress, and nothing else.  The queue never looks inside the      *)
(* authority documents: it asks whether commands may leave at this moment, *)
(* whether only protective closes may, and at which revision of the live   *)
(* plane an entry must have been approved.                                 *)
(*                                                                         *)
(* LiveAuthority shows that the runner, the operators and the store's      *)
(* transactions together implement this specification; CommandStore uses   *)
(* it as its environment.                                                  *)
(***************************************************************************)
EXTENDS Naturals

CONSTANT MaxRevision    \* bound on authority_revision (unbounded in the code)

ASSUME RevisionAssumption == MaxRevision \in Nat

VARIABLE auth   \* [open, protective, revision]

\* Egress opens only after the live plane was armed, at a positive revision;
\* what a closed egress would have permitted is nobody's business.
AuthorityState ==
    {a \in [open : BOOLEAN, protective : BOOLEAN, revision : 0 .. MaxRevision] :
        /\ a.open => a.revision > 0
        /\ a.protective => a.open}

(***************************************************************************)
(* The promise.  A revision is never reused, and an egress that stays open *)
(* across a step still carries the revision and the scope it was opened    *)
(* with: every change of the live plane closes it first.                   *)
(***************************************************************************)
MayBecome(a, b) ==
    /\ b.revision >= a.revision
    /\ a.open /\ b.open => /\ b.revision   = a.revision
                           /\ b.protective = a.protective

AuthorityInit == auth = [open |-> FALSE, protective |-> FALSE, revision |-> 0]

AuthorityNext ==
    \E b \in AuthorityState : MayBecome(auth, b) /\ auth' = b

AuthoritySpec == AuthorityInit /\ [][AuthorityNext]_auth
=============================================================================
