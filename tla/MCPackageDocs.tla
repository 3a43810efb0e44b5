---------------------------- MODULE MCPackageDocs ----------------------------
(* Instances of PackageDocs for TLC. *)
EXTENDS PackageDocs, TLC

\* Contents of the repository are only told apart.
Alike == Permutations(Canonical)

\* Once a lock was taken from a live process, only what the steps of the lock read
\* tells states apart: where each process stands with it (at work is one place), and
\* whether the state directory is, and may be found to be, empty.
AtTheLock(q) ==
  [pc |-> IF q.pc \in Body \ {"release"} THEN "locked" ELSE q.pc, op |-> q.op,
   seen |-> q.seen]
Followed ==
  IF robbed = {} THEN vars
  ELSE <<stateRoot, lock, manifest = NoManifest /\ temps = {},
         [p \in Procs |-> AtTheLock(proc[p])], kills, overlapped, robbed>>
=============================================================================
