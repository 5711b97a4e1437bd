--------------------------- MODULE ReconcilePath ---------------------------
(***************************************************************************)
(* The three-way decision of a template re-render for one path              *)
(* (copierx/reconcile.go, reconcilePath): what the last render left (old),  *)
(* what is there (current), what the templates render now (new).            *)
(***************************************************************************)
CONSTANTS Content,  \* fingerprints
          Absent    \* no entry at the path

ASSUME AbsentAssumption == Absent \notin Content

Entries == Content \cup {Absent}

Untracked(current, new, overwrite) ==
  IF new = Absent THEN "none"
  ELSE IF current = Absent THEN "add"
  ELSE IF current = new THEN "adopt"
  ELSE IF overwrite THEN "modify" ELSE "conflict"

Dropped(old, current, overwrite) ==
  IF current = Absent THEN "none"
  ELSE IF current = old \/ overwrite THEN "delete" ELSE "conflict"

Tracked(old, current, new, overwrite) ==
  IF current = Absent THEN IF overwrite THEN "add" ELSE "conflict"
  ELSE IF current = new THEN IF old = new THEN "none" ELSE "adopt"
  ELSE IF current = old \/ overwrite THEN "modify" ELSE "conflict"

Decision(old, current, new, overwrite) ==
  IF old = Absent THEN Untracked(current, new, overwrite)
  ELSE IF new = Absent THEN Dropped(old, current, overwrite)
  ELSE Tracked(old, current, new, overwrite)

(* What the path holds once the decision is carried out. *)
Applied(decision, current, new) ==
  IF decision \in {"add", "modify"} THEN new
  ELSE IF decision = "delete" THEN Absent ELSE current

=============================================================================
