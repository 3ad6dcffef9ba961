----------------------------- MODULE MCFileStores -----------------------------
(***************************************************************************)
(* Workloads of three threads: what meets in one store.                    *)
(***************************************************************************)
EXTENDS FileStores, TLC

CONSTANTS t1, t2, t3

Job(kind, name, data, order, process) ==
  [kind |-> kind, name |-> name, data |-> data, order |-> order, process |-> process]

All(a, b, c) == t1 :> a @@ t2 :> b @@ t3 :> c

Version(n, data, process) == Job("publish", n, data, 0, process)
Recorded(data, process) == Job("create", Recording, data, 0, process)
Record(order) == Job("replace", Document, "old", order, 1)
Count(process) == Job("replace", Document, "old", 0, process)
Decision(process) == Job("append", Decisions, "old", 0, process)
Listing == Job("list", 1, "old", 0, 3)

MCWorkloads ==
  {All(Version(1, "old", 1), Version(2, "new", 2), Listing),
   All(Version(1, "old", 1), Version(1, "old", 2), Version(1, "new", 3)),
   All(Recorded("old", 1), Count(1), Count(2)),
   All(Record(1), Record(2), Record(3)),
   All(Decision(1), Decision(2), Decision(2))}
=============================================================================
