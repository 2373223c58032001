----------------------------- MODULE MCAdmission -----------------------------
(* A small instance of Admission for TLC: `observations` stands for the     *)
(* tables made before the marker's, `notifications` for those after it,     *)
(* `metadata_json` for the columns of v2 and `run_uuid`, `epoch` for those  *)
(* added since.                                                             *)
EXTENDS Admission

CONSTANTS p1, p2

AllTables  == {"runs", "observations", "schema_version", "notifications"}
AllColumns == {"metadata_json", "run_uuid", "epoch"}
Order == [x \in AllTables \cup AllColumns |->
    CASE x \in {"runs", "metadata_json"} -> 1
      [] x \in {"observations", "run_uuid"} -> 2
      [] x \in {"schema_version", "epoch"} -> 3
      [] x = "notifications" -> 4]

Found(tables, columns, version) ==
    [exists |-> TRUE, corrupt |-> FALSE, tables |-> tables, columns |-> columns,
     version |-> version]

(* An absent file, an empty one, v1, v2, two marked stores of v3, one whose *)
(* marker is missing, two whose marker is ahead of their schema, this       *)
(* version, the next, and a damaged file.                                   *)
Generations == {
    [Found({}, {}, 0) EXCEPT !.exists = FALSE],
    Found({}, {}, 0),
    Found({"runs"}, {}, 0),
    Found({"runs"}, {"metadata_json"}, 0),
    Found(AllTables \ {"notifications"}, {"metadata_json", "run_uuid"}, 3),
    Found(AllTables \ {"notifications", "observations"}, {}, 3),
    Found(AllTables \ {"schema_version"}, AllColumns, 0),
    Found(AllTables, {"metadata_json"}, 4),
    Found(AllTables \ {"observations"}, AllColumns, 4),
    Found(AllTables, AllColumns, 4),
    Found(AllTables, AllColumns, 5),
    [Found({"runs"}, {}, 0) EXCEPT !.corrupt = TRUE]}
=============================================================================
